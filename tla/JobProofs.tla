----------------------------- MODULE JobProofs -----------------------------
(***************************************************************************)
(* What runs in the background, by day.                                    *)
(*                                                                         *)
(* Recurring journals and invoices: the dates of monthly and yearly        *)
(* schedules, for every start and every interval (schedules counted in     *)
(* days rest on a recursive sum of month lengths and are only              *)
(* model-checked); then the runs: that no overdue date is skipped, that    *)
(* failures leave nothing, that nothing is posted into a closed period and *)
(* that the runs implement RunBook, for any number of requests,            *)
(* definitions and days.                                                   *)
(*                                                                         *)
(* The store of recovery bundles: that retention, however its plans        *)
(* interleave with repeated deliveries and wherever it is killed, keeps    *)
(* what was reported durable, for any number of captures and days.         *)
(*                                                                         *)
(* The hosted server: that a bundle that is kept is consistent whatever    *)
(* the server, the watchdog and the capturing process do, that a drill     *)
(* calls verified only what was captured, and that the two backup statuses *)
(* name a backup that is there.                                            *)
(***************************************************************************)
EXTENDS RecurringRuns, RecurringSchedule, RecoveryVault, HostedProcesses, BackupCycle,
        FiniteSetTheorems, WellFoundedInduction, TLAPS

LEMMA LengthBounds ==
  ASSUME NEW month \in Nat PROVE MonthLength(month) \in 28 .. 31
BY DEF MonthLength

LEMMA ClampedIsDate ==
  ASSUME NEW month \in Nat, NEW k \in 1 .. 31
  PROVE  /\ Clamped(month, k) \in CalendarDate
         /\ Clamped(month, k).month = month
BY LengthBounds DEF Clamped, CalendarDate

LEMMA StepPositive ==
  ASSUME NEW s \in Schedule, Monthly(s)
  PROVE  /\ Step(s) \in Nat \ {0} /\ s.start \in CalendarDate
         /\ s.start.month \in Nat /\ s.start.day \in 1 .. 31
         /\ \A date : NextDate(s, date) = Clamped(date.month + Step(s), s.start.day)
BY DEF Schedule, Monthly, Step, CalendarDate, NextDate

(* A schedule does not drift: after a month too short for its day it comes *)
(* back to that day, and the k-th date is where one would write it down.   *)
THEOREM NextDateKeepsDay ==
  ASSUME NEW s \in Schedule, Monthly(s), NEW k \in Nat
  PROVE  /\ KthDate(s, 0) = s.start
         /\ NextDate(s, KthDate(s, k)) = KthDate(s, k + 1)
<1> DEFINE n == Step(s)
           m == s.start.month + k * n
<1>1. n \in Nat /\ k * n \in Nat /\ (k + 1) * n = k * n + n /\ 0 * n = 0 /\ m \in Nat
  <2>1. n \in Nat BY StepPositive
  <2>2. k * n \in Nat BY <2>1
  <2> QED BY <2>1, <2>2, StepPositive
<1>2. KthDate(s, 0) = s.start
  <2>1. KthDate(s, 0) = Clamped(s.start.month, s.start.day)
    BY <1>1, StepPositive DEF KthDate
  <2> QED BY <2>1, StepPositive DEF Clamped, CalendarDate
<1>3. KthDate(s, k).month = m
  <2>1. KthDate(s, k) = Clamped(m, s.start.day) BY DEF KthDate
  <2> QED BY <1>1, <2>1, StepPositive, ClampedIsDate
<1>4. NextDate(s, KthDate(s, k)) = Clamped(m + n, s.start.day)
  BY <1>3, StepPositive
<1>5. m + n = s.start.month + (k + 1) * n
  BY <1>1, StepPositive
<1> QED BY <1>2, <1>4, <1>5 DEF KthDate

(* The next date is a date and comes later, and runs of earlier dates have *)
(* no later next date.                                                     *)
THEOREM NextDateOrdered ==
  ASSUME NEW s \in Schedule, Monthly(s), NEW a \in CalendarDate, NEW b \in CalendarDate,
         NotAfter(a, b)
  PROVE  /\ NextDate(s, a) \in CalendarDate
         /\ Before(a, NextDate(s, a))
         /\ NotAfter(NextDate(s, a), NextDate(s, b))
<1>1. a.month \in Nat /\ b.month \in Nat BY DEF CalendarDate
<1>2. /\ NextDate(s, a) \in CalendarDate /\ NextDate(s, a).month = a.month + Step(s)
      /\ NextDate(s, b) \in CalendarDate /\ NextDate(s, b).month = b.month + Step(s)
  <2>1. /\ a.month + Step(s) \in Nat /\ b.month + Step(s) \in Nat /\ s.start.day \in 1 .. 31
    BY <1>1, StepPositive
  <2>2. /\ NextDate(s, a) = Clamped(a.month + Step(s), s.start.day)
        /\ NextDate(s, b) = Clamped(b.month + Step(s), s.start.day)
    BY StepPositive
  <2> QED BY <2>1, <2>2, ClampedIsDate
<1>3. Before(a, NextDate(s, a)) BY <1>1, <1>2, StepPositive DEF Before
<1>4. CASE a.month < b.month
  <2>1. Step(s) \in Nat BY StepPositive
  <2>2. NextDate(s, a).month < NextDate(s, b).month BY <1>1, <1>2, <1>4, <2>1
  <2> QED BY <1>2, <1>3, <2>2 DEF NotAfter
<1>5. CASE a.month = b.month
  <2>1. NextDate(s, a) = NextDate(s, b) BY <1>5, StepPositive
  <2> QED BY <1>2, <1>3, <2>1 DEF NotAfter, CalendarDate
<1> QED BY <1>2, <1>3, <1>4, <1>5 DEF NotAfter

(* "Run now" costs at most one scheduled date, the next one, and a run due *)
(* none: it leaves the schedule at the date after it at the latest.        *)
THEOREM RunNowSkipsAtMostOne ==
  ASSUME NEW s \in Schedule, Monthly(s), NEW row, row.next \in CalendarDate,
         NEW now \in CalendarDate, RunNowAllowed(row, now)
  PROVE  LET next == AfterRun(s, row, now).next IN
         /\ NotAfter(row.next, next)
         /\ NotAfter(next, NextDate(s, row.next))
         /\ now = row.next => next = NextDate(s, row.next)
<1> DEFINE next == AfterRun(s, row, now).next
<1>1. NotAfter(now, row.next) BY DEF RunNowAllowed
<1>2. /\ Before(row.next, NextDate(s, row.next))
      /\ NotAfter(NextDate(s, now), NextDate(s, row.next))
      /\ NextDate(s, now) \in CalendarDate /\ NextDate(s, row.next) \in CalendarDate
  <2>1. NotAfter(row.next, row.next) BY DEF NotAfter, CalendarDate
  <2> QED BY <1>1, <2>1, NextDateOrdered
<1>3. next = Latest(row.next, NextDate(s, now)) BY DEF AfterRun
<1>4. CASE NotAfter(row.next, NextDate(s, now))
  BY <1>2, <1>3, <1>4 DEF Latest
<1>5. CASE ~NotAfter(row.next, NextDate(s, now))
  <2>1. next = row.next BY <1>3, <1>5 DEF Latest
  <2>2. now # row.next BY <1>2, <1>5 DEF Before, NotAfter, CalendarDate
  <2> QED BY <1>2, <2>1, <2>2 DEF NotAfter, Before, CalendarDate
<1> QED BY <1>4, <1>5

-----------------------------------------------------------------------------
(* Dates.                                                                  *)
LEMMA LastExists ==
  ASSUME NEW K \in Nat, NEW dates \in SUBSET (0 .. K), dates # {}
  PROVE  \E n \in dates : \A k \in dates : k <= n
<1> DEFINE R == OpToRel(<, Nat)
           gaps == {K - n : n \in dates}
<1>1. \A n \in dates : n \in Nat /\ n <= K /\ K - n \in Nat
  OBVIOUS
<1>2. gaps \subseteq Nat /\ gaps # {}
  <2> HIDE DEF R
  <2> QED BY <1>1
<1>3. PICK x \in gaps : \A y \in gaps : <<y, x>> \notin R
  <2> HIDE DEF gaps, R
  <2>1. IsWellFoundedOn(R, Nat) BY NatLessThanWellFounded DEF R
  <2> QED BY <2>1, <1>2, WFMin
<1>4. \A y \in gaps : ~(y < x)
  BY <1>2, <1>3 DEF OpToRel
<1>5. PICK n \in dates : x = K - n OBVIOUS
<1>6. \A k \in dates : K - k \in gaps OBVIOUS
<1>7. ASSUME NEW k \in dates PROVE k <= n
  <2>1. ~(K - k < K - n) BY <1>4, <1>5, <1>6
  <2> HIDE DEF gaps, R
  <2> QED BY <2>1, <1>1
<1> QED BY <1>7

(* Of two scheduled dates, the one that comes before the next after the    *)
(* other does not come after the other.                                    *)
LEMMA Congruent ==
  ASSUME NEW I \in Nat \ {0}, NEW x \in Nat, NEW y \in Nat,
         x % I = 0, y % I = 0, x < y + I
  PROVE  x <= y
<1> DEFINE a == x \div I
           b == y \div I
<1>1. a \in Int /\ b \in Int OBVIOUS
<1>2. x = a * I /\ y = b * I
  <2>1. x = I * a + (x % I) OBVIOUS
  <2>2. y = I * b + (y % I) OBVIOUS
  <2>3. I * a = a * I /\ I * b = b * I BY <1>1
  <2> QED BY <2>1, <2>2, <2>3, <1>1
<1> HIDE DEF a, b
<1>3. a * I < (b + 1) * I BY <1>1, <1>2
<1>4. a < b + 1
  <2>1. ASSUME a >= b + 1 PROVE a * I >= (b + 1) * I BY <2>1, <1>1
  <2> QED BY <2>1, <1>1, <1>3
<1>5. a * I <= b * I BY <1>1, <1>4
<1> QED BY <1>2, <1>5

LEMMA DayFacts ==
  /\ Day \subseteq Nat /\ \A n \in Day : n <= LastDay
  /\ LastDay \in Nat /\ Interval \in Nat \ {0} /\ Never = -1 /\ Never \notin Day
BY DayAssumption DEF Day, Never

LEMMA LastOfDates ==
  ASSUME NEW dates \in SUBSET Day, dates # {}
  PROVE  LastOf(dates) \in dates /\ \A k \in dates : k <= LastOf(dates)
<1>1. \E n \in dates : \A k \in dates : k <= n
  BY LastExists, DayAssumption DEF Day
<1> QED BY <1>1 DEF LastOf

-----------------------------------------------------------------------------
(* What is invariant.  The locks first: only the daily job holds any       *)
(* between two steps.                                                      *)
Locks ==
  /\ active \subseteq Txn /\ DOMAIN db = Row
  /\ DOMAIN view = Txn /\ \A t \in Txn : DOMAIN view[t] = Row
  /\ wrote \in [Txn -> SUBSET Row] /\ shared \in [Txn -> SUBSET Row]
  /\ missed \in [Txn -> SUBSET Row]
  /\ \A t \in Txn \ {Scheduler} : wrote[t] = {} /\ shared[t] = {}
  /\ Company \notin wrote[Scheduler]
  /\ Scheduler \notin active =>
       wrote[Scheduler] = {} /\ shared[Scheduler] = {} /\ missed[Scheduler] = {}
  /\ LockedRowsCurrent /\ ViewsCurrent

JobRequests ==
  /\ today \in Day
  /\ job \in [Txn -> {"idle", "open", "cron"}] /\ due \in [Txn -> SUBSET Definition]
  /\ \A t \in Txn : /\ job[t] = "idle" <=> t \notin active
                    /\ job[t] = "cron" => t = Scheduler
                    /\ t # Scheduler => due[t] = {}
  /\ job[Scheduler] # "open" /\ (job[Scheduler] = "idle" => due[Scheduler] = {})

(* What last_run names is posted.                                          *)
LastPosted(tab) ==
  \A d \in Definition : tab[d].last # Never => tab[<<d, tab[d].last>>] = "posted"

Tables(tab) == RowTypeOK(tab) /\ LastPosted(tab)

(* Posted documents stay: one that a request read as posted, or that it    *)
(* posted, is.                                                             *)
ReadPosted(t) ==
  \A doc \in Document \ wrote[t] : view[t][doc] = "posted" => db[doc] = "posted"

Views == \A t \in active : Tables(view[t]) /\ ReadPosted(t)

(* The dates of d that had come on a day, by what is committed, and the    *)
(* row of d after runs of which date was the last.                         *)
DueBy(d, upto) ==
  {n \in Day : n >= db[d].next /\ n <= upto /\ (n - db[d].next) % Interval = 0}

RowAfter(row, date) ==
  [row EXCEPT !.last = Later(@, date), !.next = Later(@, DateAfter(date)), !.failed = FALSE]

RanThrough(d, upto) ==
  /\ upto <= today
  /\ \E date \in DueBy(d, upto) : /\ \A n \in DueBy(d, upto) : n <= date
                                /\ view[Scheduler][d] = RowAfter(db[d], date)
  /\ \A n \in DueBy(d, upto) : view[Scheduler][<<d, n>>] = "posted"
  /\ \A n \in Day : <<d, n>> \in wrote[Scheduler] => n \in DueBy(d, upto)

(* What the daily job is about to commit.  A definition it has run has     *)
(* the dates posted that had come when it did, and so every scheduled date *)
(* that its runs passed; one it failed to run is as it was, but for the    *)
(* error; one it has still to run is due.                                  *)
RanDue(d) ==
  LET row == view[Scheduler][d] IN
  /\ db[d].active
  /\ \/ /\ ~row.failed
        /\ \A n \in Day :
             /\ n >= db[d].next /\ n < row.next /\ (n - db[d].next) % Interval = 0
             => view[Scheduler][<<d, n>>] = "posted"
        /\ \E upto \in Day : RanThrough(d, upto)
     \/ /\ row = [db[d] EXCEPT !.failed = TRUE] /\ db[d].next <= today
        /\ \A n \in Day : <<d, n>> \notin wrote[Scheduler]

PendingRuns ==
  /\ \A d \in Definition \cap wrote[Scheduler] : RanDue(d)
  /\ \A d \in due[Scheduler] :
       /\ d \notin wrote[Scheduler] /\ view[Scheduler][d].next <= today
       /\ view[Scheduler][d].active
       /\ \A n \in Day : <<d, n>> \notin wrote[Scheduler]

(* Every document it has posted is new, belongs to a definition it has run *)
(* and is outside the closed periods; the company, which it holds, keeps   *)
(* it there.                                                               *)
PendingPosts ==
  \A d \in Definition, n \in Day :
    <<d, n>> \in wrote[Scheduler] =>
      /\ d \in wrote[Scheduler] /\ db[<<d, n>>] = Absent
      /\ view[Scheduler][<<d, n>>] = "posted"
      /\ Company \in shared[Scheduler] /\ n > db[Company]

IInv ==
  /\ Locks /\ JobRequests /\ Tables(db) /\ Views /\ PendingRuns /\ PendingPosts

(* What a commit may do to the committed rows.                             *)
NotSkipped(d) ==
  db'[d].last # db[d].last =>
    \A n \in Day :
      /\ n >= db[d].next /\ n < db'[d].next /\ n <= today
      /\ (n - db[d].next) % Interval = 0
      => db'[<<d, n>>] = "posted"

FailureAlone(d) ==
  db'[d].failed /\ ~db[d].failed =>
    /\ db'[d] = [db[d] EXCEPT !.failed = TRUE]
    /\ \A n \in Day : db'[<<d, n>>] = db[<<d, n>>]

OutsideClosed ==
  \A d \in Definition, n \in Day :
    db[<<d, n>>] = Absent /\ db'[<<d, n>>] = "posted" => n > db'[Company]

PostedStay == \A doc \in Document : db[doc] = "posted" => db'[doc] = "posted"

(* A step of RunBook, the clock aside.                                     *)
Shown == Book!Turn \/ UNCHANGED Book!entries

Publishes ==
  /\ Tables(db') /\ PostedStay /\ OutsideClosed /\ Shown
  /\ \A d \in Definition : NotSkipped(d) /\ FailureAlone(d)
-----------------------------------------------------------------------------
LEMMA Rows ==
  /\ Definition \subseteq Row /\ Document \subseteq Row /\ Company \in Row
  /\ \A d \in Definition, n \in Day : <<d, n>> \in Document
  /\ \A d \in Definition, doc \in Document : d # doc /\ d # Company /\ doc # Company
BY RowAssumption DEF Document

LEMMA RowType ==
  ASSUME NEW tab, Tables(tab), NEW d \in Definition
  PROVE  /\ tab[d] \in DefinitionRow
         /\ tab[d].next \in Nat /\ tab[d].last \in Day \cup {Never}
         /\ tab[d].failed \in BOOLEAN /\ tab[Company] \in Day \cup {Never}
<1>1. tab[d] \in DefinitionRow /\ tab[Company] \in Day \cup {Never}
  BY DEF Tables, RowTypeOK
<1> QED BY <1>1, DayFacts DEF DefinitionRow

LEMMA Kinds ==
  /\ Definition \subseteq Row /\ Document \subseteq Row /\ Company \in Row
  /\ \A d \in Definition, doc \in Document : d # doc
  /\ Company \notin Definition /\ Company \notin Document
BY RowAssumption

(* What a row of a definition says after runs.                             *)
LEMMA RunRow ==
  ASSUME NEW row \in DefinitionRow, NEW n \in Day,
         NEW after, after = [row EXCEPT !.last = Later(@, n), !.next = Later(@, DateAfter(n)),
                                        !.failed = FALSE]
  PROVE  /\ after \in DefinitionRow /\ after.failed = FALSE
         /\ after.last \in {row.last, n} /\ after.next \in {row.next, n + Interval}
         /\ after.next >= row.next /\ after.next >= n + Interval
<1>1. /\ row.last \in Day \cup {Never} /\ row.next \in 0 .. LastDay + Interval
      /\ row.active \in BOOLEAN
  BY DEF DefinitionRow
<1>2. Later(row.last, n) \in {row.last, n} /\ Later(row.last, n) \in Day \cup {Never}
  BY <1>1 DEF Later
<1>3. /\ Later(row.next, DateAfter(n)) \in {row.next, n + Interval}
      /\ Later(row.next, DateAfter(n)) \in 0 .. LastDay + Interval
      /\ Later(row.next, DateAfter(n)) >= row.next
      /\ Later(row.next, DateAfter(n)) >= n + Interval
  BY <1>1, DayFacts, DayAssumption DEF Later, DateAfter
<1>4. /\ after.last = Later(row.last, n) /\ after.next = Later(row.next, DateAfter(n))
      /\ after.failed = FALSE /\ after.active = row.active
      /\ after = [next |-> after.next, last |-> after.last,
                  active |-> after.active, failed |-> after.failed]
  BY DEF DefinitionRow
<1>5. after \in DefinitionRow
  BY <1>1, <1>2, <1>3, <1>4 DEF DefinitionRow
<1> QED BY <1>2, <1>3, <1>4, <1>5

LEMMA RunsFacts ==
  ASSUME JobRequests, Views, NEW t \in active, NEW d \in Definition,
         NEW dates \in SUBSET Day, dates # {}
  PROVE  LET new == AfterRuns(t, d, dates)
             row == view[t][d]
             n == LastOf(dates)
         IN
         /\ DOMAIN new = {d} \cup Posted(t, d, dates) /\ DOMAIN new \subseteq Row
         /\ Posted(t, d, dates) \subseteq Document
         /\ \A doc \in Posted(t, d, dates) : new[doc] = "posted" /\ doc # d
         /\ new[d] \in DefinitionRow /\ new[d].failed = FALSE
         /\ n \in dates /\ \A k \in dates : k <= n
         /\ new[d] = RowAfter(row, n)
         /\ new[d].last \in {row.last, n} /\ new[d].next \in {row.next, n + Interval}
<1> DEFINE new == AfterRuns(t, d, dates)
           n == LastOf(dates)
<1>1. n \in dates /\ n \in Day /\ \A k \in dates : k <= n BY LastOfDates
<1>2. Posted(t, d, dates) \subseteq Document BY Rows DEF Posted
<1>3. DOMAIN new = {d} \cup Posted(t, d, dates) /\ DOMAIN new \subseteq Row
  BY <1>2, Rows DEF AfterRuns
<1>4. \A doc \in Posted(t, d, dates) : new[doc] = "posted" /\ doc # d
  BY <1>2, Rows DEF AfterRuns
<1>5. new[d] = [view[t][d] EXCEPT !.last = Later(@, n), !.next = Later(@, DateAfter(n)),
                                  !.failed = FALSE]
  BY DEF AfterRuns
<1>6. view[t][d] \in DefinitionRow BY RowType DEF Views
<1>7. /\ new[d] \in DefinitionRow /\ new[d].failed = FALSE
      /\ new[d].last \in {view[t][d].last, n}
      /\ new[d].next \in {view[t][d].next, n + Interval}
  <2> HIDE DEF new, n
  <2> QED BY <1>1, <1>5, <1>6, RunRow
<1>8. new[d] = RowAfter(view[t][d], n) BY <1>5 DEF RowAfter
<1> QED BY <1>1, <1>2, <1>3, <1>4, <1>7, <1>8

(* Rows in which a definition has run show a run of the book.              *)
LEMMA ShowsRun ==
  ASSUME NEW d \in Definition, NEW dates \in SUBSET Day, NEW date \in dates,
         \A n \in dates : n <= date, db'[d] = RowAfter(db[d], date),
         \A n \in dates : db[<<d, n>>] = "posted" \/ (db[<<d, n>>] = Absent /\ n > db[Company]),
         \A n \in Day : db'[<<d, n>>] = IF n \in dates THEN "posted" ELSE db[<<d, n>>]
  PROVE  Book!Ran(d, dates)
<1>1. /\ [e \in Definition |-> db[e]][d] = db[d]
      /\ \A n \in Day : [doc \in Document |-> db[doc]][<<d, n>>] = db[<<d, n>>]
  BY Rows
<1>2. /\ [e \in Definition |-> db'[e]][d] = db'[d]
      /\ \A n \in Day : [doc \in Document |-> db'[doc]][<<d, n>>] = db'[<<d, n>>]
  BY Rows
<1>3. db'[d] = [db[d] EXCEPT !.last = Book!Latest(@, date),
                             !.next = Book!Latest(@, date + Interval), !.failed = FALSE]
  BY DEF RowAfter, Later, DateAfter, Book!Latest
<1>4. [e \in Definition |-> db'[e]][d]
        = [[e \in Definition |-> db[e]][d] EXCEPT
             !.last = Book!Latest(@, date), !.next = Book!Latest(@, date + Interval),
             !.failed = FALSE]
  BY <1>1, <1>2, <1>3
<1>5. \A n \in dates :
        \/ [doc \in Document |-> db[doc]][<<d, n>>] = "posted"
        \/ [doc \in Document |-> db[doc]][<<d, n>>] = Absent /\ n > db[Company]
  BY <1>1
<1>6. \A n \in Day :
        [doc \in Document |-> db'[doc]][<<d, n>>]
          = IF n \in dates THEN "posted" ELSE [doc \in Document |-> db[doc]][<<d, n>>]
  BY <1>1, <1>2
<1> QED BY <1>4, <1>5, <1>6, Zenon DEF Book!Ran, Book!Days, Day

-----------------------------------------------------------------------------
(* What a commit of a user's request does to the rows and the locks.       *)
UserCommits(t, new) ==
  /\ t \in active /\ t # Scheduler /\ active' = active \ {t}
  /\ \A r \in DOMAIN new : /\ view[t][r] = db[r] /\ db'[r] = new[r]
                           /\ r \notin wrote[Scheduler] /\ r \notin shared[Scheduler]
  /\ \A r \in Row \ DOMAIN new : db'[r] = db[r]
  /\ wrote' = wrote /\ shared' = shared
  /\ \A u \in Txn \ {t} : view'[u] = view[u]
  /\ Locks'

LEMMA UserCommitFacts ==
  ASSUME Locks, JobRequests, NEW t \in active, t # Scheduler, NEW new, DOMAIN new \subseteq Row,
         CommitWith(t, new)
  PROVE  UserCommits(t, new)
<1>1. t \in Txn /\ wrote[t] = {} /\ shared[t] = {} /\ Scheduler \in Txn
  BY SchedulerAssumption DEF Locks
<1>2. active' = active \ {t} /\ wrote' = wrote /\ shared' = shared
  BY <1>1 DEF CommitWith, EndTxn, Locks
<1>3. \A r \in DOMAIN new : /\ r \notin missed[t] /\ r \notin wrote[Scheduler]
                            /\ r \notin shared[Scheduler] /\ view[t][r] = db[r]
  BY <1>1 DEF CommitWith, CanWrite, Locks, ViewsCurrent
<1>4. /\ \A r \in DOMAIN new : db'[r] = new[r]
      /\ \A r \in Row \ DOMAIN new : db'[r] = db[r] /\ DOMAIN db' = Row
  BY <1>1 DEF CommitWith
<1>5. /\ \A u \in Txn \ {t} : view'[u] = view[u]
      /\ DOMAIN view' = Txn /\ view'[t] = EmptyView
  BY <1>1 DEF CommitWith, EndTxn, Locks
<1>6. missed' = [u \in Txn |-> IF u \in active \ {t} THEN missed[u] \cup DOMAIN new ELSE {}]
  BY <1>1 DEF CommitWith
<1>7. missed' \in [Txn -> SUBSET Row] BY <1>6 DEF Locks
<1>8. LockedRowsCurrent'
  <2>1. ASSUME NEW u \in Txn, NEW r \in wrote[u] \cup shared[u] PROVE r \notin missed'[u]
    <3>1. u = Scheduler BY <2>1 DEF Locks
    <3>2. r \notin DOMAIN new BY <3>1, <1>3
    <3>3. r \notin missed[u] BY DEF Locks, LockedRowsCurrent
    <3> QED BY <3>2, <3>3, <1>6
  <2> QED BY <2>1, <1>2 DEF LockedRowsCurrent
<1>9. ViewsCurrent'
  <2>1. ASSUME NEW u \in active', NEW r \in Row, r \notin missed'[u], r \notin wrote[u]
        PROVE  view'[u][r] = db'[r]
    <3>1. u \in active /\ u # t /\ u \in Txn BY <1>2 DEF Locks
    <3>2. r \notin DOMAIN new /\ r \notin missed[u] BY <2>1, <3>1, <1>6
    <3> QED BY <3>1, <3>2, <2>1, <1>4, <1>5 DEF Locks, ViewsCurrent
  <2> QED BY <2>1, <1>2 DEF ViewsCurrent
<1>10. DOMAIN db' = Row /\ \A u \in Txn : DOMAIN view'[u] = Row
  <2>1. DOMAIN db' = Row BY DEF CommitWith
  <2> QED BY <2>1, <1>1, <1>5 DEF Locks, EmptyView
<1>11. Scheduler \notin active' => missed'[Scheduler] = {}
  BY <1>1, <1>2, <1>6
<1>12. Scheduler \notin active' => wrote'[Scheduler] = {} /\ shared'[Scheduler] = {}
  BY <1>1, <1>2 DEF Locks
<1>13. Locks'
  BY <1>2, <1>5, <1>7, <1>8, <1>9, <1>10, <1>11, <1>12 DEF Locks
<1> QED BY <1>2, <1>3, <1>4, <1>5, <1>13 DEF UserCommits

(* What has been run stays so while its rows are left alone.               *)
LEMMA RanDueStays ==
  ASSUME NEW d \in Definition, RanDue(d), db[d].next \in Nat,
         today \in Day, today' \in Day, today <= today',
         db'[d] = db[d], view'[Scheduler][d] = view[Scheduler][d],
         \A n \in Day : view'[Scheduler][<<d, n>>] = view[Scheduler][<<d, n>>],
         \A n \in Day : <<d, n>> \in wrote'[Scheduler] <=> <<d, n>> \in wrote[Scheduler]
  PROVE  RanDue(d)'
<1>1. \A upto \in Day : DueBy(d, upto)' = DueBy(d, upto) BY DEF DueBy
<1>2. \A upto \in Day : upto <= today => upto <= today' BY DayFacts
<1>3. ASSUME NEW upto \in Day, RanThrough(d, upto) PROVE RanThrough(d, upto)'
  <2>1. DueBy(d, upto) \subseteq Day BY DEF DueBy
  <2>2. PICK date \in DueBy(d, upto) : /\ \A n \in DueBy(d, upto) : n <= date
                                       /\ view[Scheduler][d] = RowAfter(db[d], date)
    BY <1>3 DEF RanThrough
  <2>3. view'[Scheduler][d] = RowAfter(db'[d], date) BY <2>2
  <2>4. upto <= today' BY <1>2, <1>3 DEF RanThrough
  <2>5. DueBy(d, upto)' = DueBy(d, upto) BY <1>1
  <2>6. \A n \in DueBy(d, upto) : view'[Scheduler][<<d, n>>] = "posted"
    <3>1. \A n \in DueBy(d, upto) : view[Scheduler][<<d, n>>] = "posted"
      BY <1>3 DEF RanThrough
    <3>2. ASSUME NEW n \in DueBy(d, upto) PROVE view'[Scheduler][<<d, n>>] = "posted"
      <4>1. n \in Day /\ view[Scheduler][<<d, n>>] = "posted" BY <2>1, <3>1
      <4> QED BY <4>1
    <3> QED BY <3>2
  <2>7. \A n \in Day : <<d, n>> \in wrote'[Scheduler] => n \in DueBy(d, upto)
    <3>1. \A n \in Day : <<d, n>> \in wrote[Scheduler] => n \in DueBy(d, upto)
      BY <1>3 DEF RanThrough
    <3>2. ASSUME NEW n \in Day, <<d, n>> \in wrote'[Scheduler] PROVE n \in DueBy(d, upto)
      BY <3>1, <3>2
    <3> QED BY <3>2
  <2> QED BY <2>2, <2>3, <2>4, <2>5, <2>6, <2>7, Zenon DEF RanThrough
<1>4. db[d].next <= today => db[d].next <= today' BY DayFacts
<1>5. db'[d].active BY DEF RanDue
<1>6. CASE /\ ~view[Scheduler][d].failed
           /\ \A n \in Day :
                /\ n >= db[d].next /\ n < view[Scheduler][d].next
                /\ (n - db[d].next) % Interval = 0
                => view[Scheduler][<<d, n>>] = "posted"
           /\ \E upto \in Day : RanThrough(d, upto)
  <2>1. \E upto \in Day : RanThrough(d, upto)' BY <1>3, <1>6
  <2>2. /\ ~view'[Scheduler][d].failed
        /\ \A n \in Day :
             /\ n >= db'[d].next /\ n < view'[Scheduler][d].next
             /\ (n - db'[d].next) % Interval = 0
             => view'[Scheduler][<<d, n>>] = "posted"
    <3>1. ASSUME NEW n \in Day, n >= db[d].next, n < view[Scheduler][d].next,
                 (n - db[d].next) % Interval = 0
          PROVE  view'[Scheduler][<<d, n>>] = "posted"
      <4>1. view[Scheduler][<<d, n>>] = "posted" BY <1>6, <3>1
      <4> QED BY <4>1
    <3> QED BY <1>6, <3>1
  <2> QED BY <1>5, <2>1, <2>2, Zenon DEF RanDue
<1>7. CASE /\ view[Scheduler][d] = [db[d] EXCEPT !.failed = TRUE] /\ db[d].next <= today
           /\ \A n \in Day : <<d, n>> \notin wrote[Scheduler]
  <2>1. \A n \in Day : <<d, n>> \notin wrote'[Scheduler] BY <1>7
  <2>2. view'[Scheduler][d] = [db'[d] EXCEPT !.failed = TRUE] /\ db'[d].next <= today'
    BY <1>4, <1>7
  <2> QED BY <1>5, <2>1, <2>2, Zenon DEF RanDue
<1> QED BY <1>6, <1>7 DEF RanDue

(* A commit that publishes nothing wrong leaves the invariant.             *)
LEMMA UserKeeps ==
  ASSUME IInv, NEW t \in Txn, NEW new, UserCommits(t, new), Finish(t), Publishes
  PROVE  IInv'
<1>1. /\ t \in active /\ t # Scheduler /\ active' = active \ {t}
      /\ wrote' = wrote /\ shared' = shared /\ Scheduler \in Txn
      /\ \A u \in Txn \ {t} : view'[u] = view[u]
  BY SchedulerAssumption DEF UserCommits
<1>2. Locks' BY DEF UserCommits
<1>3. JobRequests'
  <2>1. /\ today' = today /\ job' = [job EXCEPT ![t] = "idle"]
        /\ due' = [due EXCEPT ![t] = {}]
    BY DEF Finish
  <2> QED BY <2>1, <1>1 DEF IInv, JobRequests
<1>4. Tables(db)'
  BY DEF Publishes, Tables, RowTypeOK, LastPosted
<1>5. Views'
  <2>1. ASSUME NEW u \in active' PROVE Tables(view[u])' /\ ReadPosted(u)'
    <3>1. u \in active /\ u \in Txn \ {t} BY <1>1 DEF IInv, Locks
    <3>2. view'[u] = view[u] BY <1>1, <3>1
    <3>3. Tables(view[u]) /\ ReadPosted(u) BY <3>1 DEF IInv, Views
    <3>4. Tables(view[u])'
      BY <3>2, <3>3 DEF Tables, RowTypeOK, LastPosted
    <3>5. ReadPosted(u)'
      BY <3>2, <3>3, <1>1 DEF ReadPosted, Publishes, PostedStay
    <3> QED BY <3>4, <3>5
  <2> QED BY <2>1 DEF Views
<1>6. /\ view'[Scheduler] = view[Scheduler] /\ due'[Scheduler] = due[Scheduler]
      /\ today' = today
      /\ \A r \in Row \cap (wrote[Scheduler] \cup shared[Scheduler]) : db'[r] = db[r]
  BY <1>1 DEF UserCommits, Finish, IInv, JobRequests
<1>7. PendingRuns'
  <2>1. ASSUME NEW d \in Definition \cap wrote[Scheduler] PROVE RanDue(d)'
    <3>1. db'[d] = db[d] /\ RanDue(d) BY <1>6, Rows DEF IInv, PendingRuns
    <3>2. db[d].next \in Nat /\ today \in Day /\ today <= today
      BY RowType, DayFacts DEF IInv, JobRequests
    <3> QED BY <3>1, <3>2, <1>1, <1>6, RanDueStays
  <2>2. ASSUME NEW d \in due[Scheduler]
        PROVE  /\ d \notin wrote[Scheduler] /\ view[Scheduler][d].next <= today
               /\ view[Scheduler][d].active
               /\ \A n \in Day : <<d, n>> \notin wrote[Scheduler]
    BY DEF IInv, PendingRuns
  <2> QED BY <2>1, <2>2, <1>1, <1>6 DEF PendingRuns
<1>8. PendingPosts'
  <2>1. ASSUME NEW d \in Definition, NEW n \in Day, <<d, n>> \in wrote[Scheduler]
        PROVE  /\ d \in wrote[Scheduler] /\ db'[<<d, n>>] = Absent
               /\ view'[Scheduler][<<d, n>>] = "posted"
               /\ Company \in shared'[Scheduler] /\ n > db'[Company]
    <3>1. /\ d \in wrote[Scheduler] /\ db[<<d, n>>] = Absent
          /\ view[Scheduler][<<d, n>>] = "posted"
          /\ Company \in shared[Scheduler] /\ n > db[Company]
      BY <2>1 DEF IInv, PendingPosts
    <3>2. <<d, n>> \in Row /\ db'[<<d, n>>] = db[<<d, n>>] BY <2>1, <1>6, Rows
    <3>3. Company \in Row /\ db'[Company] = db[Company] BY <3>1, <1>6, Rows
    <3> QED BY <3>1, <3>2, <3>3, <1>1, <1>6
  <2> QED BY <2>1, <1>1 DEF PendingPosts
<1> QED BY <1>2, <1>3, <1>4, <1>5, <1>7, <1>8 DEF IInv

(* Rows of which a commit changes no document and no last_run.             *)
LEMMA TablesAfterEdit ==
  ASSUME Tables(db), DOMAIN db = Row, PostedStay,
         \A d \in Definition : db'[d] \in DefinitionRow /\ db'[d].last = db[d].last,
         \A doc \in Document : db'[doc] \in {"unposted", "posted", Absent},
         db'[Company] \in Day \cup {Never}
  PROVE  Tables(db')
<1>1. RowTypeOK(db') BY DEF RowTypeOK
<1>2. LastPosted(db')
  <2>1. ASSUME NEW d \in Definition, db'[d].last # Never
        PROVE  db'[<<d, db'[d].last>>] = "posted"
    <3>1. db[<<d, db[d].last>>] = "posted" BY <2>1 DEF Tables, LastPosted
    <3>2. db[d].last \in Day BY <2>1, RowType
    <3> QED BY <3>1, <3>2, Rows DEF PostedStay
  <2> QED BY <2>1 DEF LastPosted
<1> QED BY <1>1, <1>2 DEF Tables

LEMMA TypesOf ==
  ASSUME Tables(db)
  PROVE  /\ \A d \in Definition : db[d] \in DefinitionRow
         /\ \A doc \in Document : db[doc] \in {"unposted", "posted", Absent}
         /\ db[Company] \in Day \cup {Never}
BY DEF Tables, RowTypeOK

(* Users edit a definition, close the periods, resolve a document.         *)
LEMMA EditPublishes ==
  ASSUME IInv, NEW t \in Txn, NEW d \in Definition, NEW next \in Editable, NEW on \in BOOLEAN,
         UserCommits(t, [r \in {d} |-> [view[t][d] EXCEPT !.next = next, !.active = on]])
  PROVE  Publishes
<1> DEFINE new == [r \in {d} |-> [view[t][d] EXCEPT !.next = next, !.active = on]]
<1>1. /\ view[t][d] = db[d] /\ db'[d] = new[d]
      /\ \A r \in Row \ {d} : db'[r] = db[r]
  BY DEF UserCommits
<1>2. db[d] \in DefinitionRow BY TypesOf DEF IInv
<1>3. db'[d] = [db[d] EXCEPT !.next = next, !.active = on] BY <1>1
<1>4. /\ db'[d] \in DefinitionRow /\ db'[d].last = db[d].last
      /\ db'[d].failed = db[d].failed
  <2>1. next \in 0 .. LastDay + Interval
    BY InputAssumption, DayFacts
  <2>2. db'[d] = [next |-> next, last |-> db[d].last, active |-> on, failed |-> db[d].failed]
    BY <1>2, <1>3 DEF DefinitionRow
  <2> QED BY <1>2, <2>1, <2>2 DEF DefinitionRow
<1>5. PostedStay /\ \A doc \in Document : db'[doc] = db[doc]
  BY <1>1, Rows DEF PostedStay
<1>6. Tables(db')
  <2>1. \A e \in Definition : db'[e] \in DefinitionRow /\ db'[e].last = db[e].last
    BY <1>1, <1>4, Kinds, TypesOf DEF IInv
  <2>2. db'[Company] = db[Company] BY <1>1, Kinds
  <2> QED BY <1>5, <2>1, <2>2, TypesOf, TablesAfterEdit DEF IInv, Locks
<1>7. ASSUME NEW e \in Definition PROVE NotSkipped(e) /\ FailureAlone(e)
  <2>1. db'[e].last = db[e].last /\ db'[e].failed = db[e].failed
    BY <1>1, <1>4, Rows
  <2> QED BY <2>1 DEF NotSkipped, FailureAlone
<1>8. OutsideClosed
  BY <1>5, Rows, AbsentAssumption DEF OutsideClosed
<1>9. Shown
  <2>1. \A e \in Definition \ {d} : db'[e] = db[e] BY <1>1, Kinds
  <2>2. [e \in Definition |-> db'[e]]
          = [[e \in Definition |-> db[e]] EXCEPT ![d] = [@ EXCEPT !.next = next, !.active = on]]
    BY <2>1, <1>3
  <2>3. [doc \in Document |-> db'[doc]] = [doc \in Document |-> db[doc]]
        /\ db'[Company] = db[Company]
    BY <1>1, <1>5, Kinds
  <2>4. Book!Edit(d, next, on) BY <2>2, <2>3 DEF Book!Edit
  <2> QED BY <2>4 DEF Shown, Book!Turn
<1> QED BY <1>5, <1>6, <1>7, <1>8, <1>9 DEF Publishes

LEMMA OtherPublishes ==
  ASSUME IInv, NEW t \in Txn, NEW r \in Row \ Definition, NEW value,
         UserCommits(t, [x \in {r} |-> value]),
         r = Company => value \in Closable /\ value > view[t][Company],
         r # Company => view[t][r] = "unposted" /\ value \in {"posted", Absent}
  PROVE  Publishes
<1>1. /\ view[t][r] = db[r] /\ db'[r] = value
      /\ \A x \in Row \ {r} : db'[x] = db[x]
  BY DEF UserCommits
<1>2. \A d \in Definition : db'[d] = db[d]
  <2> TAKE d \in Definition
  <2>1. d \in Row \ {r} BY Kinds
  <2> QED BY <2>1, <1>1
<1>3. PostedStay BY <1>1, Kinds DEF PostedStay
<1>4. \A doc \in Document : db'[doc] \in {"unposted", "posted", Absent}
  <2> TAKE doc \in Document
  <2>1. CASE doc = r BY <2>1, <1>1, Kinds
  <2>2. CASE doc # r
    <3>1. db'[doc] = db[doc] BY <2>2, <1>1, Kinds
    <3> QED BY <3>1, TypesOf DEF IInv
  <2> QED BY <2>1, <2>2
<1>5. db'[Company] \in Day \cup {Never}
  <2>1. CASE Company = r BY <2>1, <1>1, InputAssumption
  <2>2. CASE Company # r
    <3>1. db'[Company] = db[Company] BY <2>2, <1>1, Kinds
    <3> QED BY <3>1, TypesOf DEF IInv
  <2> QED BY <2>1, <2>2
<1>6. Tables(db')
  BY <1>2, <1>3, <1>4, <1>5, TypesOf, TablesAfterEdit DEF IInv, Locks
<1>7. ASSUME NEW e \in Definition PROVE NotSkipped(e) /\ FailureAlone(e)
  BY <1>2 DEF NotSkipped, FailureAlone
<1>8. \A doc \in Document : ~(db[doc] = Absent /\ db'[doc] = "posted")
  <2> TAKE doc \in Document
  <2>1. CASE doc = r BY <2>1, <1>1, Kinds, AbsentAssumption
  <2>2. CASE doc # r
    <3>1. db'[doc] = db[doc] BY <2>2, <1>1, Kinds
    <3> QED BY <3>1, AbsentAssumption
  <2> QED BY <2>1, <2>2
<1>9. OutsideClosed
  BY <1>8, Rows DEF OutsideClosed
<1>10. Shown
  <2>1. [d \in Definition |-> db'[d]] = [d \in Definition |-> db[d]] BY <1>2
  <2>2. CASE r = Company
    <3>1. [doc \in Document |-> db'[doc]] = [doc \in Document |-> db[doc]]
      BY <2>2, <1>1, Kinds
    <3>2. value \in Closable /\ value > db[Company] /\ db'[Company] = value BY <2>2, <1>1
    <3>3. Book!Close(value) BY <2>1, <3>1, <3>2 DEF Book!Close
    <3> QED BY <3>2, <3>3 DEF Shown, Book!Turn
  <2>3. CASE r # Company
    <3>1. r \in Document /\ db[r] = "unposted" /\ value \in {"posted", Absent}
      BY <2>3, <1>1, RowAssumption
    <3>2. [doc \in Document |-> db'[doc]]
            = [[doc \in Document |-> db[doc]] EXCEPT ![r] = value]
      BY <3>1, <1>1, Kinds
    <3>3. db'[Company] = db[Company] BY <2>3, <1>1, Kinds
    <3>4. [doc \in Document |-> db[doc]][r] = "unposted" BY <3>1
    <3>5. Book!Resolve(r, value) BY <2>1, <3>2, <3>3, <3>4 DEF Book!Resolve
    <3>6. r \in Book!Documents BY <3>1 DEF Book!Documents, Book!Days, Document, Day
    <3> QED BY <3>1, <3>5, <3>6 DEF Shown, Book!Turn
  <2> QED BY <2>2, <2>3
<1> QED BY <1>3, <1>6, <1>7, <1>9, <1>10 DEF Publishes

(* Users run a definition: by hand, or through its due dates.              *)
Scheduled(t, d, n) ==
  /\ n >= view[t][d].next /\ n <= today
  /\ (n - view[t][d].next) % Interval = 0

RunsAll(t, d, dates) ==
  /\ \A n \in dates : n <= today /\ Runnable(t, d, n)
  /\ \A n \in Day : Scheduled(t, d, n) => n \in dates

LEMMA RunPublishes ==
  ASSUME IInv, NEW t \in Txn, NEW d \in Definition, NEW dates \in SUBSET Day, dates # {},
         RunsAll(t, d, dates), CanShare(t, Company), UserCommits(t, AfterRuns(t, d, dates)),
         \/ view[t][d].next >= today /\ dates = {today}
         \/ view[t][d].active /\ dates = DueDates(t, d)
  PROVE  Publishes
<1> DEFINE new == AfterRuns(t, d, dates)
           posts == Posted(t, d, dates)
           last == LastOf(dates)
<1>1. t \in active /\ Tables(view[t]) /\ ReadPosted(t) /\ wrote[t] = {}
  BY DEF UserCommits, IInv, Views, Locks
<1>2. /\ DOMAIN new = {d} \cup posts /\ posts \subseteq Document
      /\ \A doc \in posts : new[doc] = "posted" /\ doc # d
      /\ new[d] \in DefinitionRow /\ new[d].failed = FALSE
      /\ last \in dates /\ new[d].last \in {view[t][d].last, last}
      /\ new[d] = RowAfter(view[t][d], last) /\ \A k \in dates : k <= last
  <2>1. JobRequests /\ Views BY DEF IInv
  <2>2. /\ DOMAIN new = {d} \cup posts /\ DOMAIN new \subseteq Row
        /\ posts \subseteq Document
        /\ \A doc \in posts : new[doc] = "posted" /\ doc # d
        /\ new[d] \in DefinitionRow /\ new[d].failed = FALSE
        /\ last \in dates /\ \A k \in dates : k <= last
        /\ new[d] = RowAfter(view[t][d], last)
        /\ new[d].last \in {view[t][d].last, last}
        /\ new[d].next \in {view[t][d].next, last + Interval}
    BY <2>1, <1>1, RunsFacts, Zenon
  <2> QED BY <2>2
<1> HIDE DEF new, last
<1>3. /\ \A r \in {d} \cup posts : view[t][r] = db[r] /\ db'[r] = new[r]
      /\ \A r \in Row \ ({d} \cup posts) : db'[r] = db[r]
  BY <1>2 DEF UserCommits, new
<1> HIDE DEF posts
<1>4. \A doc \in Document : IF doc \in posts THEN db'[doc] = "posted" ELSE db'[doc] = db[doc]
  BY <1>2, <1>3, Rows
<1>5. \A e \in Definition \ {d} : db'[e] = db[e]
  BY <1>2, <1>3, Rows
<1>6. db'[d] = new[d] /\ view[t][d] = db[d] /\ db'[Company] = db[Company]
  BY <1>2, <1>3, Rows
<1>7. PostedStay BY <1>4 DEF PostedStay
<1>8. \A n \in dates : db'[<<d, n>>] = "posted"
  <2>1. ASSUME NEW n \in dates, view[t][<<d, n>>] = "posted" PROVE db'[<<d, n>>] = "posted"
    <3>1. db[<<d, n>>] = "posted" BY <2>1, <1>1, Rows DEF ReadPosted
    <3> QED BY <3>1, <1>7, Rows DEF PostedStay
  <2>2. ASSUME NEW n \in dates, view[t][<<d, n>>] = Absent PROVE db'[<<d, n>>] = "posted"
    <3>1. <<d, n>> \in posts BY <2>2 DEF posts, Posted
    <3> QED BY <3>1, <1>4, <1>2
  <2> QED BY <2>1, <2>2 DEF RunsAll, Runnable
<1>9. Tables(db')
  <2>1. RowTypeOK(db')
    <3>1. \A e \in Definition : db'[e] \in DefinitionRow
      BY <1>2, <1>5, <1>6, TypesOf DEF IInv
    <3>2. \A doc \in Document : db'[doc] \in {"unposted", "posted", Absent}
      BY <1>4, TypesOf DEF IInv
    <3> QED BY <3>1, <3>2, <1>6, TypesOf DEF IInv, RowTypeOK
  <2>2. ASSUME NEW e \in Definition, db'[e].last # Never
        PROVE  db'[<<e, db'[e].last>>] = "posted"
    <3>1. CASE db'[e].last = db[e].last
      <4>1. db[<<e, db[e].last>>] = "posted" /\ db[e].last \in Day
        BY <2>2, <3>1, RowType DEF IInv, Tables, LastPosted
      <4> QED BY <4>1, <3>1, <1>7, Rows DEF PostedStay
    <3>2. CASE db'[e].last # db[e].last
      <4>1. e = d BY <3>2, <1>5
      <4>2. db'[e].last = last BY <4>1, <3>2, <1>2, <1>6
      <4> QED BY <4>1, <4>2, <1>2, <1>8
    <3> QED BY <3>1, <3>2
  <2> QED BY <2>1, <2>2 DEF Tables, LastPosted
<1>10. ASSUME NEW e \in Definition PROVE NotSkipped(e) /\ FailureAlone(e)
  <2>1. CASE e # d BY <2>1, <1>5 DEF NotSkipped, FailureAlone
  <2>2. CASE e = d
    <3>1. FailureAlone(d) BY <1>2, <1>6 DEF FailureAlone
    <3>2. NotSkipped(d) BY <1>6, <1>8 DEF NotSkipped, RunsAll, Scheduled
    <3> QED BY <2>2, <3>1, <3>2
  <2> QED BY <2>1, <2>2
<1>11. OutsideClosed
  <2>1. ASSUME NEW e \in Definition, NEW n \in Day,
               db[<<e, n>>] = Absent, db'[<<e, n>>] = "posted"
        PROVE  n > db'[Company]
    <3>1. <<e, n>> \in posts BY <2>1, <1>4, Rows, AbsentAssumption
    <3>2. PICK k \in dates : <<e, n>> = <<d, k>> /\ view[t][<<d, k>>] = Absent
      BY <3>1 DEF posts, Posted
    <3>3. e = d /\ n = k BY <3>2
    <3>4. n > view[t][Company] BY <3>2, <3>3, AbsentAssumption DEF RunsAll, Runnable
    <3>5. view[t][Company] = db[Company]
      BY <1>1, Rows DEF CanShare, IInv, Locks, ViewsCurrent
    <3> QED BY <3>4, <3>5, <1>6
  <2> QED BY <2>1 DEF OutsideClosed
<1>12. Book!Ran(d, dates)
  <2>1. view[t][Company] = db[Company]
    BY <1>1, Rows DEF CanShare, IInv, Locks, ViewsCurrent
  <2>2. ASSUME NEW n \in dates
        PROVE  db[<<d, n>>] = "posted" \/ (db[<<d, n>>] = Absent /\ n > db[Company])
    <3>1. CASE view[t][<<d, n>>] = "posted" BY <3>1, <1>1, Rows DEF ReadPosted
    <3>2. CASE view[t][<<d, n>>] = Absent /\ n > view[t][Company]
      <4>1. <<d, n>> \in posts BY <3>2 DEF posts, Posted
      <4> QED BY <2>1, <3>2, <4>1, <1>3
    <3> QED BY <3>1, <3>2 DEF RunsAll, Runnable
  <2>3. ASSUME NEW n \in Day
        PROVE  db'[<<d, n>>] = IF n \in dates THEN "posted" ELSE db[<<d, n>>]
    <3>1. CASE n \in dates BY <3>1, <1>8
    <3>2. CASE n \notin dates
      <4>1. <<d, n>> \notin posts BY <3>2 DEF posts, Posted
      <4> QED BY <3>2, <4>1, <1>4, Rows
    <3> QED BY <3>1, <3>2
  <2>4. db'[d] = RowAfter(db[d], last) BY <1>2, <1>6
  <2> QED BY <1>2, <2>2, <2>3, <2>4, ShowsRun
<1>13. \A e \in Definition \ {d} : Book!Kept(e)
  <2> TAKE e \in Definition \ {d}
  <2>1. \A n \in Day : <<e, n>> \in Document /\ <<e, n>> \notin posts
    BY Rows DEF posts, Posted
  <2> QED BY <2>1, <1>4, <1>5 DEF Book!Kept, Book!Days, Day
<1>14. Shown
  <2>1. [e \in Definition |-> db[e]][d] = db[d] OBVIOUS
  <2>2. CASE view[t][d].next >= today /\ dates = {today}
    <3>1. [e \in Definition |-> db[e]][d].next >= today BY <1>6, <2>1, <2>2
    <3>2. PICK date \in Day : date = today BY DEF IInv, JobRequests
    <3>3. Book!Ran(d, {date}) /\ date \in Book!Days
      <4>1. dates = {date} BY <2>2, <3>2
      <4> QED BY <1>12, <4>1 DEF Book!Days, Day
    <3>4. Book!RunByHand(d, date) BY <1>6, <1>13, <3>1, <3>2, <3>3, Zenon DEF Book!RunByHand
    <3> QED BY <3>3, <3>4 DEF Shown, Book!Turn
  <2>3. CASE view[t][d].active /\ dates = DueDates(t, d)
    <3>1. today \in Day /\ today <= today BY DayFacts DEF IInv, JobRequests
    <3>2. Book!Scheduled(d, today) = dates
      BY <1>6, <2>1, <2>3 DEF Book!Scheduled, Book!Days, Day, DueDates
    <3>3. [e \in Definition |-> db[e]][d].active BY <1>6, <2>1, <2>3
    <3>4. dates \in {Book!Scheduled(d, upto) : upto \in 0 .. today}
      <4>1. today \in 0 .. today BY <3>1, DayFacts
      <4> QED BY <3>2, <4>1
    <3>5. Book!CaughtUp(d) BY <1>12, <3>3, <3>4, Zenon DEF Book!CaughtUp
    <3>6. Book!CatchUp BY <1>6, <1>13, <3>5 DEF Book!CatchUp
    <3> QED BY <3>6 DEF Shown, Book!Turn
  <2> QED BY <2>2, <2>3
<1> QED BY <1>7, <1>9, <1>10, <1>11, <1>14 DEF Publishes

LEMMA UserPublishes ==
  ASSUME IInv, NEW t \in Txn, UserStep(t)
  PROVE  Publishes /\ IInv'
<1>1. t # Scheduler /\ t \in active
  BY DEF UserStep, IInv, JobRequests
<1>2. ASSUME NEW new, DOMAIN new \subseteq Row, Serve(t, new)
      PROVE  UserCommits(t, new) /\ Finish(t)
  BY <1>1, <1>2, UserCommitFacts DEF Serve, IInv
<1>3. SUFFICES \E new : UserCommits(t, new) /\ Finish(t) /\ Publishes
  BY UserKeeps
<1>4. view[t] = view[t] /\ Tables(view[t]) /\ JobRequests /\ Views /\ today \in Day
  BY <1>1 DEF IInv, Views, JobRequests
<1>5. ASSUME NEW d \in Definition,
             RunNow(t, d)
      PROVE  \E new : UserCommits(t, new) /\ Finish(t) /\ Publishes
  <2>1. DOMAIN AfterRuns(t, d, {today}) \subseteq Row
    <3>1. {today} \in SUBSET Day /\ {today} # {} BY <1>4
    <3> QED BY <3>1, <1>1, <1>4, RunsFacts
  <2>2. UserCommits(t, AfterRuns(t, d, {today})) /\ Finish(t)
    BY <2>1, <1>2, <1>5 DEF RunNow
  <2>3. view[t][d].next \in Nat BY <1>4, RowType
  <2>4. \A n \in Day : n >= view[t][d].next /\ n <= today => n \in {today}
    <3>1. view[t][d].next >= today /\ today \in Nat /\ Day \subseteq Nat
      BY <1>4, <1>5, DayFacts DEF RunNow
    <3> QED BY <2>3, <3>1
  <2>5. \A n \in {today} : n <= today /\ Runnable(t, d, n)
    <3>1. today \in Nat BY <1>4, DayFacts
    <3>2. Runnable(t, d, today) BY <1>5 DEF RunNow
    <3> QED BY <3>1, <3>2
  <2>6. {today} \in SUBSET Day /\ {today} # {} BY <1>4
  <2>7. CanShare(t, Company) BY <1>5 DEF RunNow
  <2>8. RunsAll(t, d, {today}) BY <2>4, <2>5 DEF RunsAll, Scheduled
  <2>9. view[t][d].next >= today BY <1>5 DEF RunNow
  <2>10. Publishes BY <2>2, <2>6, <2>7, <2>8, <2>9, RunPublishes
  <2> QED BY <2>2, <2>10
<1>6. ASSUME NEW d \in Definition,
             RunDue(t, d)
      PROVE  \E new : UserCommits(t, new) /\ Finish(t) /\ Publishes
  <2> DEFINE dates == DueDates(t, d)
  <2>1. dates \subseteq Day /\ dates # {} BY <1>6 DEF RunDue, DueDates
  <2>2. DOMAIN AfterRuns(t, d, dates) \subseteq Row
    BY <2>1, <1>1, <1>4, RunsFacts
  <2>3. UserCommits(t, AfterRuns(t, d, dates)) /\ Finish(t)
    BY <2>2, <1>2, <1>6 DEF RunDue
  <2>4. dates = {n \in Day : Scheduled(t, d, n)} BY DEF DueDates, Scheduled
  <2>5. \A n \in dates : Runnable(t, d, n) BY <1>6 DEF RunDue, CatchUpSucceeds
  <2>6. CanShare(t, Company) BY <1>6 DEF RunDue
  <2> HIDE DEF dates
  <2>7. \A n \in dates : n <= today BY <2>4 DEF Scheduled
  <2>8. RunsAll(t, d, dates) BY <2>4, <2>5, <2>7 DEF RunsAll
  <2>9. view[t][d].active /\ dates = DueDates(t, d) BY <1>6 DEF RunDue, dates
  <2>10. Publishes BY <2>1, <2>3, <2>6, <2>8, <2>9, RunPublishes
  <2> QED BY <2>3, <2>10
<1>7. ASSUME NEW d \in Definition, NEW next \in Editable, NEW on \in BOOLEAN,
             Write(t, d, next, on)
      PROVE  \E new : UserCommits(t, new) /\ Finish(t) /\ Publishes
  <2> DEFINE new == [r \in {d} |-> [view[t][d] EXCEPT !.next = next, !.active = on]]
  <2>1. DOMAIN new \subseteq Row BY Rows
  <2>2. UserCommits(t, new) /\ Finish(t) BY <2>1, <1>2, <1>7 DEF Write
  <2>3. Publishes BY <2>2, EditPublishes
  <2> QED BY <2>2, <2>3
<1>8. ASSUME NEW date \in Closable, ClosePeriods(t, date)
      PROVE  \E new : UserCommits(t, new) /\ Finish(t) /\ Publishes
  <2> DEFINE new == [r \in {Company} |-> date]
  <2>1. DOMAIN new \subseteq Row /\ date > view[t][Company] BY <1>8, Rows DEF ClosePeriods
  <2>2. UserCommits(t, new) /\ Finish(t) BY <2>1, <1>2, <1>8 DEF ClosePeriods
  <2>3. Company \in Row \ Definition BY Kinds
  <2>4. date \in Closable /\ date > view[t][Company] BY <2>1
  <2> HIDE DEF new
  <2>5. UserCommits(t, [x \in {Company} |-> date]) BY <2>2 DEF new
  <2>6. Publishes BY <2>3, <2>4, <2>5, OtherPublishes
  <2> QED BY <2>2, <2>6
<1>9. ASSUME NEW doc \in Document, ResolveUnposted(t, doc)
      PROVE  \E new : UserCommits(t, new) /\ Finish(t) /\ Publishes
  <2>1. PICK outcome \in {"posted", Absent} : Serve(t, [r \in {doc} |-> outcome])
    BY <1>9 DEF ResolveUnposted
  <2> DEFINE new == [r \in {doc} |-> outcome]
  <2>2. DOMAIN new \subseteq Row BY Rows
  <2>3. UserCommits(t, new) /\ Finish(t) BY <2>1, <2>2, <1>2
  <2>4. view[t][doc] = "unposted" BY <1>9, Zenon DEF ResolveUnposted
  <2>5. doc \in Row \ Definition /\ doc # Company BY Kinds
  <2>6. Publishes BY <2>3, <2>4, <2>5, OtherPublishes
  <2> QED BY <2>3, <2>6
<1> QED BY <1>5, <1>6, <1>7, <1>8, <1>9 DEF UserStep

-----------------------------------------------------------------------------
(* The clock, requests that begin, and requests that end without a trace.  *)
LEMMA NothingWritten ==
  ASSUME IInv, UNCHANGED <<dbVars, job, due>>, today' \in Day, today <= today'
  PROVE  IInv'
<1> USE DEF dbVars
<1>1. Locks' BY DEF IInv, Locks, LockedRowsCurrent, ViewsCurrent
<1>2. JobRequests' BY DEF IInv, JobRequests
<1>3. Tables(db)' BY DEF IInv, Tables, RowTypeOK, LastPosted
<1>4. Views' BY DEF IInv, Views, Tables, RowTypeOK, LastPosted, ReadPosted
<1>5. PendingPosts' BY DEF IInv, PendingPosts
<1>6. PendingRuns'
  <2>1. ASSUME NEW d \in Definition \cap wrote[Scheduler] PROVE RanDue(d)'
    <3>1. RanDue(d) /\ db[d].next \in Nat /\ today \in Day
      BY RowType DEF IInv, PendingRuns, JobRequests
    <3> QED BY <3>1, RanDueStays
  <2>2. ASSUME NEW d \in due[Scheduler]
        PROVE  /\ d \notin wrote[Scheduler] /\ view[Scheduler][d].next <= today'
               /\ view[Scheduler][d].active
               /\ \A n \in Day : <<d, n>> \notin wrote[Scheduler]
    <3>1. /\ d \notin wrote[Scheduler] /\ view[Scheduler][d].next <= today
          /\ view[Scheduler][d].active
          /\ \A n \in Day : <<d, n>> \notin wrote[Scheduler]
      BY DEF IInv, PendingRuns
    <3>2. Scheduler \in active /\ d \in Definition
      BY SchedulerAssumption DEF IInv, JobRequests
    <3>3. view[Scheduler][d].next \in Nat BY <3>2, RowType DEF IInv, Views
    <3>4. today \in Nat /\ today' \in Nat BY DayFacts DEF IInv, JobRequests
    <3> QED BY <3>1, <3>3, <3>4
  <2> QED BY <2>1, <2>2 DEF PendingRuns
<1> QED BY <1>1, <1>2, <1>3, <1>4, <1>5, <1>6 DEF IInv

LEMMA BeginLocks ==
  ASSUME Locks, NEW t \in Txn, BeginTxn(t)
  PROVE  /\ Locks' /\ t \notin active /\ active' = active \cup {t} /\ view'[t] = db
         /\ wrote' = wrote /\ shared' = shared /\ missed' = missed /\ db' = db
         /\ \A u \in Txn \ {t} : view'[u] = view[u]
<1>1. /\ t \notin active /\ active' = active \cup {t} /\ view'[t] = db
      /\ wrote' = wrote /\ shared' = shared /\ missed' = missed /\ db' = db
      /\ DOMAIN view' = Txn /\ \A u \in Txn \ {t} : view'[u] = view[u]
  BY DEF BeginTxn, Locks
<1>2. ViewsCurrent' BY <1>1 DEF Locks, ViewsCurrent
<1>3. LockedRowsCurrent' BY <1>1 DEF Locks, LockedRowsCurrent
<1>4. \A u \in Txn : DOMAIN view'[u] = Row BY <1>1 DEF Locks
<1> QED BY <1>1, <1>2, <1>3, <1>4 DEF Locks

LEMMA ViewsOfOthers ==
  ASSUME Views, Locks, NEW u \in active, view'[u] = view[u], wrote'[u] = wrote[u], db' = db
  PROVE  Tables(view[u])' /\ ReadPosted(u)'
<1>1. Tables(view[u])' BY DEF Views, Tables, RowTypeOK, LastPosted
<1>2. ReadPosted(u)' BY DEF Views, ReadPosted
<1> QED BY <1>1, <1>2

LEMMA BeginViews ==
  ASSUME IInv, NEW t \in Txn, BeginTxn(t)
  PROVE  Views'
<1>1. ASSUME NEW u \in active' PROVE Tables(view[u])' /\ ReadPosted(u)'
  <2>1. CASE u = t
    <3>1. Tables(view[u])'
      BY <2>1, BeginLocks DEF IInv, Tables, RowTypeOK, LastPosted
    <3>2. ReadPosted(u)' BY <2>1, BeginLocks DEF IInv, ReadPosted
    <3> QED BY <3>1, <3>2
  <2>2. CASE u # t
    <3>1. u \in active /\ u \in Txn BY <2>2, BeginLocks DEF IInv, Locks
    <3> QED BY <2>2, <3>1, BeginLocks, ViewsOfOthers DEF IInv
  <2> QED BY <2>1, <2>2
<1> QED BY <1>1 DEF Views

LEMMA BeginKeeps ==
  ASSUME IInv, NEW t \in Txn, Begin(t)
  PROVE  IInv'
<1>1. Locks' /\ Views' /\ Tables(db)'
  BY BeginLocks, BeginViews DEF Begin, IInv, Tables, RowTypeOK, LastPosted
<1>2. JobRequests'
  BY BeginLocks DEF Begin, IInv, JobRequests
<1>3. /\ t # Scheduler /\ db' = db /\ view'[Scheduler] = view[Scheduler] /\ wrote' = wrote
      /\ shared' = shared /\ due' = due /\ today' = today
  BY SchedulerAssumption, BeginLocks DEF Begin, IInv
<1>4. PendingRuns'
  <2>1. ASSUME NEW d \in Definition \cap wrote[Scheduler] PROVE RanDue(d)'
    <3>1. RanDue(d) /\ db[d].next \in Nat /\ today \in Day /\ today <= today
      BY RowType, DayFacts DEF IInv, PendingRuns, JobRequests
    <3> QED BY <1>3, <3>1, RanDueStays
  <2> QED BY <1>3, <2>1 DEF IInv, PendingRuns
<1>5. PendingPosts' BY <1>3 DEF IInv, PendingPosts
<1> QED BY <1>1, <1>2, <1>4, <1>5 DEF IInv

LEMMA StartKeeps ==
  ASSUME IInv, StartCron
  PROVE  IInv'
<1> DEFINE dues == {d \in Definition : db[d].active /\ db[d].next <= today}
<1>1. Locks' /\ Views' /\ Tables(db)'
  BY SchedulerAssumption, BeginLocks, BeginViews
  DEF StartCron, IInv, Tables, RowTypeOK, LastPosted
<1>2. /\ job' = [job EXCEPT ![Scheduler] = "cron"] /\ today' = today
      /\ due' = [due EXCEPT ![Scheduler] = dues] /\ dues \subseteq Definition
  BY DEF StartCron
<1>3. /\ Scheduler \notin active /\ active' = active \cup {Scheduler}
      /\ db' = db /\ view'[Scheduler] = db /\ wrote' = wrote
  BY SchedulerAssumption, BeginLocks DEF StartCron, IInv
<1>4. JobRequests'
  <2> HIDE DEF dues
  <2> QED BY <1>2, <1>3, SchedulerAssumption DEF IInv, JobRequests
<1>5. wrote'[Scheduler] = {} BY <1>3 DEF IInv, Locks
<1>6. due'[Scheduler] = dues BY <1>2, SchedulerAssumption DEF IInv, JobRequests
<1>7. PendingRuns' BY <1>2, <1>3, <1>5, <1>6 DEF PendingRuns
<1>8. PendingPosts' BY <1>5 DEF PendingPosts
<1> QED BY <1>1, <1>4, <1>7, <1>8 DEF IInv

LEMMA AbortKeeps ==
  ASSUME IInv, NEW t \in Txn, Abort(t)
  PROVE  IInv' /\ db' = db
<1>1. /\ t \in active /\ active' = active \ {t} /\ db' = db
      /\ missed' = [missed EXCEPT ![t] = {}] /\ view' = [view EXCEPT ![t] = EmptyView]
      /\ wrote' = [wrote EXCEPT ![t] = {}] /\ shared' = [shared EXCEPT ![t] = {}]
      /\ job' = [job EXCEPT ![t] = "idle"] /\ due' = [due EXCEPT ![t] = {}] /\ today' = today
  BY DEF Abort, AbortTxn, EndTxn, Finish
<1>2. \A u \in Txn \ {t} : /\ view'[u] = view[u] /\ wrote'[u] = wrote[u] /\ shared'[u] = shared[u]
                           /\ missed'[u] = missed[u] /\ due'[u] = due[u]
  BY <1>1 DEF IInv, Locks, JobRequests
<1>3. Locks'
  <2>1. LockedRowsCurrent' BY <1>1 DEF IInv, Locks, LockedRowsCurrent
  <2>2. ViewsCurrent' BY <1>1 DEF IInv, Locks, ViewsCurrent
  <2>3. \A u \in Txn : DOMAIN view'[u] = Row BY <1>1, <1>2 DEF IInv, Locks, EmptyView
  <2> QED BY <1>1, <2>1, <2>2, <2>3 DEF IInv, Locks
<1>4. JobRequests' BY <1>1 DEF IInv, JobRequests
<1>5. Tables(db)' BY <1>1 DEF IInv, Tables, RowTypeOK, LastPosted
<1>6. Views'
  <2>1. ASSUME NEW u \in active' PROVE Tables(view[u])' /\ ReadPosted(u)'
    <3>1. u \in active /\ u \in Txn \ {t} BY <1>1 DEF IInv, Locks
    <3> QED BY <1>1, <1>2, <3>1, ViewsOfOthers DEF IInv
  <2> QED BY <2>1 DEF Views
<1>7. PendingRuns' /\ PendingPosts'
  <2>1. CASE t = Scheduler
    <3>1. wrote'[Scheduler] = {} /\ due'[Scheduler] = {}
      BY <1>1, <2>1 DEF IInv, Locks, JobRequests
    <3> QED BY <3>1 DEF PendingRuns, PendingPosts
  <2>2. CASE t # Scheduler
    <3>1. /\ view'[Scheduler] = view[Scheduler] /\ wrote'[Scheduler] = wrote[Scheduler]
          /\ shared'[Scheduler] = shared[Scheduler] /\ due'[Scheduler] = due[Scheduler]
      BY <1>2, <2>2, SchedulerAssumption
    <3>2. PendingRuns'
      <4>1. ASSUME NEW d \in Definition \cap wrote[Scheduler] PROVE RanDue(d)'
        <5>1. RanDue(d) /\ db[d].next \in Nat /\ today \in Day /\ today <= today
          BY RowType, DayFacts DEF IInv, PendingRuns, JobRequests
        <5> QED BY <1>1, <3>1, <5>1, RanDueStays
      <4> QED BY <1>1, <3>1, <4>1 DEF IInv, PendingRuns
    <3>3. PendingPosts' BY <1>1, <3>1 DEF IInv, PendingPosts
    <3> QED BY <3>2, <3>3
  <2> QED BY <2>1, <2>2
<1> QED BY <1>1, <1>3, <1>4, <1>5, <1>6, <1>7 DEF IInv

-----------------------------------------------------------------------------
(* The daily job runs a definition, or records why it could not.           *)
JobWrites(d, new) ==
  /\ Scheduler \in active /\ d \in due[Scheduler]
  /\ DOMAIN new \subseteq {d} \cup {<<d, n>> : n \in Day} /\ d \in DOMAIN new
  /\ \A r \in DOMAIN new : r \notin missed[Scheduler]
  /\ \A r \in Row : view'[Scheduler][r] = IF r \in DOMAIN new THEN new[r] ELSE view[Scheduler][r]
  /\ DOMAIN view' = Txn /\ DOMAIN view'[Scheduler] = Row
  /\ \A u \in Txn \ {Scheduler} : view'[u] = view[u]
  /\ wrote' = [wrote EXCEPT ![Scheduler] = @ \cup DOMAIN new]
  /\ \/ shared' = shared
     \/ /\ shared' = [shared EXCEPT ![Scheduler] = @ \cup {Company}]
        /\ Company \notin missed[Scheduler]
  /\ RanCron(d)

LEMMA PutAllWrites ==
  ASSUME IInv, NEW d \in Definition, d \in due[Scheduler], NEW new, RanCron(d),
         DOMAIN new \subseteq {d} \cup {<<d, n>> : n \in Day}, d \in DOMAIN new,
         PutAll(Scheduler, new), Share(Scheduler, Company) \/ UNCHANGED shared
  PROVE  JobWrites(d, new)
<1>1. Scheduler \in active
  BY SchedulerAssumption DEF IInv, JobRequests
<1>2. view' = [view EXCEPT ![Scheduler] = [r \in Row |-> IF r \in DOMAIN new
                                                THEN new[r] ELSE @[r]]]
  BY DEF PutAll
<1>3. /\ \A r \in Row : view'[Scheduler][r] = IF r \in DOMAIN new THEN new[r] ELSE view[Scheduler][r]
      /\ DOMAIN view' = Txn /\ DOMAIN view'[Scheduler] = Row
      /\ \A u \in Txn \ {Scheduler} : view'[u] = view[u]
  BY <1>2, SchedulerAssumption DEF IInv, Locks
<1>4. /\ \A r \in DOMAIN new : r \notin missed[Scheduler]
      /\ wrote' = [wrote EXCEPT ![Scheduler] = @ \cup DOMAIN new]
  BY DEF PutAll, CanWrite
<1>5. \/ shared' = shared
      \/ /\ shared' = [shared EXCEPT ![Scheduler] = @ \cup {Company}]
         /\ Company \notin missed[Scheduler]
  BY DEF Share, CanShare
<1> QED BY <1>1, <1>3, <1>4, <1>5 DEF JobWrites

LEMMA PutWrites ==
  ASSUME IInv, NEW d \in Definition, d \in due[Scheduler], NEW row, RanCron(d),
         Put(Scheduler, d, row), UNCHANGED shared
  PROVE  JobWrites(d, [r \in {d} |-> row])
<1>1. Scheduler \in active
  BY SchedulerAssumption DEF IInv, JobRequests
<1>2. view' = [view EXCEPT ![Scheduler][d] = row] /\ d \in Row
  BY Kinds DEF Put
<1>3. /\ \A r \in Row : view'[Scheduler][r] = IF r = d THEN row ELSE view[Scheduler][r]
      /\ DOMAIN view' = Txn /\ DOMAIN view'[Scheduler] = Row
      /\ \A u \in Txn \ {Scheduler} : view'[u] = view[u]
  BY <1>2, SchedulerAssumption DEF IInv, Locks
<1>4. d \notin missed[Scheduler] /\ wrote' = [wrote EXCEPT ![Scheduler] = @ \cup {d}]
  BY DEF Put, CanWrite
<1> QED BY <1>1, <1>3, <1>4 DEF JobWrites

LEMMA JobFacts ==
  ASSUME IInv, NEW d \in Definition, NEW new, JobWrites(d, new)
  PROVE  /\ db' = db /\ active' = active /\ today' = today
         /\ Scheduler \in Txn /\ DOMAIN new \subseteq Row /\ Company \notin DOMAIN new
         /\ wrote'[Scheduler] = wrote[Scheduler] \cup DOMAIN new
         /\ \A u \in Txn \ {Scheduler} : wrote'[u] = wrote[u]
         /\ view[Scheduler][d] = db[d] /\ d \notin wrote[Scheduler]
         /\ \A n \in Day : <<d, n>> \notin wrote[Scheduler]
         /\ due'[Scheduler] = due[Scheduler] \ {d}
<1>1. DOMAIN new \subseteq Row /\ Company \notin DOMAIN new
  <2>1. DOMAIN new \subseteq {d} \cup {<<d, n>> : n \in Day} BY DEF JobWrites
  <2>2. ASSUME NEW n \in Day PROVE <<d, n>> \in Document BY Rows
  <2>3. ASSUME NEW r \in DOMAIN new PROVE r \in Definition \cup Document BY <2>1, <2>2
  <2> QED BY <2>3, Kinds
<1>2. d \notin wrote[Scheduler] /\ \A n \in Day : <<d, n>> \notin wrote[Scheduler]
  BY DEF JobWrites, IInv, PendingRuns
<1>3. view[Scheduler][d] = db[d]
  BY <1>2, Kinds DEF JobWrites, IInv, Locks, ViewsCurrent
<1> QED BY <1>1, <1>2, <1>3, SchedulerAssumption DEF JobWrites, RanCron, IInv, Locks, JobRequests

LEMMA JobLocks ==
  ASSUME IInv, NEW d \in Definition, NEW new, JobWrites(d, new)
  PROVE  Locks' /\ JobRequests'
<1>1. LockedRowsCurrent'
  <2>1. ASSUME NEW u \in Txn, NEW r \in wrote'[u] \cup shared'[u] PROVE r \notin missed[u]
    <3>1. CASE u = Scheduler /\ (r \in DOMAIN new \/ (r = Company /\ r \notin shared[u]))
      BY <2>1, <3>1, JobFacts DEF JobWrites, IInv, Locks
    <3>2. CASE r \in wrote[u] \cup shared[u]
      BY <3>2 DEF IInv, Locks, LockedRowsCurrent
    <3> QED BY <2>1, <3>1, <3>2 DEF JobWrites, IInv, Locks
  <2> QED BY <2>1 DEF JobWrites, RanCron, LockedRowsCurrent
<1>2. ViewsCurrent'
  <2>1. ASSUME NEW u \in active, NEW r \in Row, r \notin missed[u], r \notin wrote'[u]
        PROVE  view'[u][r] = db[r]
    <3>1. u \in Txn /\ r \notin wrote[u]
      BY <2>1, JobFacts DEF IInv, Locks
    <3>2. view'[u][r] = view[u][r]
      <4>1. CASE u = Scheduler
        <5>1. r \notin DOMAIN new BY <2>1, <4>1, JobFacts
        <5> QED BY <4>1, <5>1 DEF JobWrites
      <4>2. CASE u # Scheduler BY <3>1, <4>2 DEF JobWrites
      <4> QED BY <4>1, <4>2
    <3> QED BY <2>1, <3>1, <3>2 DEF IInv, Locks, ViewsCurrent
  <2> QED BY <2>1, JobFacts DEF JobWrites, RanCron, ViewsCurrent
<1>3. \A u \in Txn : DOMAIN view'[u] = Row BY DEF JobWrites, IInv, Locks
<1>4. wrote' \in [Txn -> SUBSET Row] /\ shared' \in [Txn -> SUBSET Row]
  <2>1. wrote' = [wrote EXCEPT ![Scheduler] = @ \cup DOMAIN new] /\ DOMAIN new \subseteq Row
    BY JobFacts DEF JobWrites
  <2>2. \/ shared' = shared
        \/ shared' = [shared EXCEPT ![Scheduler] = @ \cup {Company}]
    BY DEF JobWrites
  <2>3. wrote \in [Txn -> SUBSET Row] /\ shared \in [Txn -> SUBSET Row] /\ Company \in Row
    BY Kinds DEF IInv, Locks
  <2>4. wrote' \in [Txn -> SUBSET Row] BY <2>1, <2>3
  <2>5. shared' \in [Txn -> SUBSET Row] BY <2>2, <2>3
  <2> QED BY <2>4, <2>5
<1>5. \A u \in Txn \ {Scheduler} : wrote'[u] = {} /\ shared'[u] = {}
  BY DEF JobWrites, IInv, Locks
<1>6. Locks'
  <2>1. active' = active /\ db' = db /\ missed' = missed
    BY DEF JobWrites, RanCron
  <2>2. Scheduler \in active /\ DOMAIN view' = Txn
    BY DEF JobWrites
  <2>3. Company \notin wrote'[Scheduler]
    <3>1. /\ wrote'[Scheduler] = wrote[Scheduler] \cup DOMAIN new
          /\ Company \notin DOMAIN new
      BY JobFacts
    <3>2. Company \notin wrote[Scheduler] BY DEF IInv, Locks
    <3> QED BY <3>1, <3>2
  <2> QED BY <1>1, <1>2, <1>3, <1>4, <1>5, <2>1, <2>2, <2>3 DEF IInv, Locks
<1>7. JobRequests'
  BY JobFacts DEF JobWrites, RanCron, IInv, JobRequests
<1> QED BY <1>6, <1>7

LEMMA JobKeeps ==
  ASSUME IInv, NEW d \in Definition, NEW new, JobWrites(d, new),
         new[d] \in DefinitionRow, RanDue(d)',
         \A doc \in DOMAIN new \ {d} : new[doc] = "posted" /\ db[doc] = Absent,
         new[d].last # Never => view'[Scheduler][<<d, new[d].last>>] = "posted",
         \/ DOMAIN new = {d}
         \/ /\ Company \in shared'[Scheduler]
            /\ \A n \in Day : <<d, n>> \in DOMAIN new => n > db[Company]
  PROVE  IInv'
<1>1. Locks' /\ JobRequests' BY JobLocks
<1>2. Tables(db)' BY JobFacts DEF IInv, Tables, RowTypeOK, LastPosted
<1>3. Tables(view[Scheduler]) /\ ReadPosted(Scheduler)
  BY DEF JobWrites, IInv, Views
<1>4. /\ \A e \in Definition \ {d} : view'[Scheduler][e] = view[Scheduler][e]
      /\ view'[Scheduler][d] = new[d] /\ view'[Scheduler][Company] = view[Scheduler][Company]
      /\ \A doc \in Document : IF doc \in DOMAIN new THEN view'[Scheduler][doc] = "posted"
                               ELSE view'[Scheduler][doc] = view[Scheduler][doc]
  <2>1. \A e \in Definition \ {d} : e \notin DOMAIN new
    BY Rows DEF JobWrites
  <2>2. Company \notin DOMAIN new /\ d \in DOMAIN new
    BY JobFacts DEF JobWrites
  <2> QED BY <2>1, <2>2, Kinds DEF JobWrites
<1>5. Tables(view[Scheduler])'
  <2>1. RowTypeOK(view'[Scheduler])
    <3>1. \A e \in Definition : view'[Scheduler][e] \in DefinitionRow
      BY <1>3, <1>4 DEF Tables, RowTypeOK
    <3>2. \A doc \in Document : view'[Scheduler][doc] \in {"unposted", "posted", Absent}
      BY <1>3, <1>4 DEF Tables, RowTypeOK
    <3> QED BY <1>3, <1>4, <3>1, <3>2 DEF Tables, RowTypeOK
  <2>2. ASSUME NEW e \in Definition, view'[Scheduler][e].last # Never
        PROVE  view'[Scheduler][<<e, view'[Scheduler][e].last>>] = "posted"
    <3>1. CASE e = d BY <2>2, <3>1, <1>4
    <3>2. CASE e # d
      <4>1. view'[Scheduler][e] = view[Scheduler][e] BY <3>2, <1>4
      <4>2. view[Scheduler][<<e, view[Scheduler][e].last>>] = "posted"
        BY <2>2, <4>1, <1>3 DEF Tables, LastPosted
      <4>3. view[Scheduler][e].last \in Day
        BY <2>2, <4>1, <1>3, RowType
      <4> QED BY <4>1, <4>2, <4>3, <1>4, Rows
    <3> QED BY <3>1, <3>2
  <2>3. LastPosted(view'[Scheduler]) BY <2>2 DEF LastPosted
  <2> QED BY <2>1, <2>3 DEF Tables, RowTypeOK, LastPosted
<1>6. ReadPosted(Scheduler)'
  BY <1>3, <1>4, JobFacts DEF ReadPosted
<1>7. Views'
  <2>1. ASSUME NEW u \in active' PROVE Tables(view[u])' /\ ReadPosted(u)'
    <3>1. CASE u = Scheduler BY <3>1, <1>5, <1>6
    <3>2. CASE u # Scheduler
      <4>1. u \in active /\ u \in Txn \ {Scheduler} BY <3>2, JobFacts DEF IInv, Locks
      <4> QED BY <4>1, JobFacts, ViewsOfOthers DEF IInv, JobWrites
    <3> QED BY <3>1, <3>2
  <2> QED BY <2>1 DEF Views
<1>8. PendingRuns'
  <2>1. ASSUME NEW e \in Definition \cap wrote'[Scheduler], e # d PROVE RanDue(e)'
    <3>1. e \in wrote[Scheduler] BY <2>1, JobFacts, Rows DEF JobWrites
    <3>2. RanDue(e) BY <3>1 DEF IInv, PendingRuns
    <3>3. \A n \in Day : <<e, n>> \notin DOMAIN new
      BY <2>1, Rows DEF JobWrites
    <3>4. /\ view'[Scheduler][e] = view[Scheduler][e] /\ db' = db
          /\ \A n \in Day : view'[Scheduler][<<e, n>>] = view[Scheduler][<<e, n>>]
          /\ \A n \in Day : <<e, n>> \in wrote'[Scheduler] <=> <<e, n>> \in wrote[Scheduler]
      BY <2>1, <3>3, <1>4, JobFacts, Rows
    <3>5. db[e].next \in Nat /\ today \in Day /\ today <= today /\ today' = today
      BY RowType, DayFacts, JobFacts DEF IInv, JobRequests
    <3> QED BY <3>2, <3>4, <3>5, RanDueStays
  <2>2. ASSUME NEW e \in due'[Scheduler]
        PROVE  /\ e \notin wrote'[Scheduler] /\ view'[Scheduler][e].next <= today
               /\ view'[Scheduler][e].active
               /\ \A n \in Day : <<e, n>> \notin wrote'[Scheduler]
    <3>1. e \in due[Scheduler] /\ e # d /\ e \in Definition
      BY JobFacts DEF IInv, JobRequests
    <3>2. e \notin DOMAIN new /\ \A n \in Day : <<e, n>> \notin DOMAIN new
      BY <3>1, Rows DEF JobWrites
    <3>3. /\ e \notin wrote[Scheduler] /\ view[Scheduler][e].next <= today
          /\ view[Scheduler][e].active
          /\ \A n \in Day : <<e, n>> \notin wrote[Scheduler]
      BY <3>1 DEF IInv, PendingRuns
    <3> QED BY <3>1, <3>2, <3>3, <1>4, JobFacts
  <2> QED BY <2>1, <2>2, JobFacts DEF PendingRuns
<1>9. PendingPosts'
  <2>1. ASSUME NEW e \in Definition, NEW n \in Day, <<e, n>> \in wrote'[Scheduler]
        PROVE  /\ e \in wrote'[Scheduler] /\ db[<<e, n>>] = Absent
               /\ view'[Scheduler][<<e, n>>] = "posted"
               /\ Company \in shared'[Scheduler] /\ n > db[Company]
    <3>1. CASE <<e, n>> \in DOMAIN new
      <4>1. e = d /\ <<e, n>> # d BY <3>1, Rows DEF JobWrites
      <4>2. d \in wrote'[Scheduler]
        <5>1. wrote'[Scheduler] = wrote[Scheduler] \cup DOMAIN new BY JobFacts
        <5> QED BY <5>1 DEF JobWrites
      <4> QED BY <3>1, <4>1, <4>2, <1>4, Rows
    <3>2. CASE <<e, n>> \notin DOMAIN new
      <4>1. <<e, n>> \in wrote[Scheduler] BY <2>1, <3>2, JobFacts
      <4>2. /\ e \in wrote[Scheduler] /\ db[<<e, n>>] = Absent
            /\ view[Scheduler][<<e, n>>] = "posted"
            /\ Company \in shared[Scheduler] /\ n > db[Company]
        BY <4>1 DEF IInv, PendingPosts
      <4>3. Company \in shared'[Scheduler] /\ e \in wrote'[Scheduler]
        BY <4>2, SchedulerAssumption, JobFacts DEF JobWrites, IInv, Locks
      <4> QED BY <3>2, <4>2, <4>3, <1>4, Rows
    <3> QED BY <3>1, <3>2
  <2> QED BY <2>1, JobFacts DEF PendingPosts
<1> QED BY <1>1, <1>2, <1>7, <1>8, <1>9 DEF IInv

LEMMA RunKeeps ==
  ASSUME IInv, NEW d \in Definition, CronRun(d)
  PROVE  IInv' /\ db' = db
<1> DEFINE dates == DueDates(Scheduler, d)
           new == AfterRuns(Scheduler, d, dates)
           posts == Posted(Scheduler, d, dates)
           row == view[Scheduler][d]
           last == LastOf(dates)
<1>1. /\ d \in due[Scheduler] /\ Scheduler \in active /\ JobRequests /\ Views
      /\ row.next <= today /\ today \in Day /\ row.active
  BY SchedulerAssumption DEF CronRun, IInv, JobRequests, PendingRuns
<1>2. row \in DefinitionRow /\ row.next \in Nat /\ row.last \in Day \cup {Never}
  BY <1>1, RowType DEF Views
<1>3. dates \subseteq Day /\ \A n \in Day : n \in dates <=>
        n >= row.next /\ n <= today /\ (n - row.next) % Interval = 0
  BY DEF DueDates
<1>4. row.next \in dates
  <2>1. row.next \in Day
    <3> HIDE DEF row
    <3> QED BY <1>1, <1>2, DayFacts DEF Day
  <2>2. row.next - row.next = 0 /\ 0 % Interval = 0 BY <1>2, DayFacts
  <2>3. row.next >= row.next BY <1>2
  <2> HIDE DEF dates, row
  <2> QED BY <2>1, <2>2, <2>3, <1>1, <1>3
<1> HIDE DEF dates
<1>5. /\ DOMAIN new = {d} \cup posts /\ DOMAIN new \subseteq Row
      /\ posts \subseteq Document
      /\ \A doc \in posts : new[doc] = "posted" /\ doc # d
      /\ new[d] \in DefinitionRow /\ new[d].failed = FALSE
      /\ last \in dates /\ \A k \in dates : k <= last
      /\ new[d] = RowAfter(row, last)
      /\ new[d].last \in {row.last, last} /\ new[d].next \in {row.next, last + Interval}
  <2>1. dates \in SUBSET Day /\ dates # {} BY <1>3, <1>4
  <2> QED BY <2>1, <1>1, RunsFacts, Zenon
<1> HIDE DEF new, last
<1>6. posts = {<<d, n>> : n \in {k \in dates : view[Scheduler][<<d, k>>] = Absent}}
  BY DEF Posted
<1>7. \A n \in dates : Runnable(Scheduler, d, n)
  BY DEF CronRun, CatchUpSucceeds, dates
<1>8. JobWrites(d, new)
  <2>1. PutAll(Scheduler, new) /\ Share(Scheduler, Company) /\ RanCron(d)
    BY DEF CronRun, new, dates
  <2>2. DOMAIN new \subseteq {d} \cup {<<d, n>> : n \in Day} BY <1>3, <1>5, <1>6
  <2> QED BY <1>1, <1>5, <2>1, <2>2, PutAllWrites
<1>9. \A n \in dates : view'[Scheduler][<<d, n>>] = "posted"
  <2> TAKE n \in dates
  <2>1. <<d, n>> \in Document /\ <<d, n>> \in Row /\ <<d, n>> # d BY <1>3, Rows
  <2>2. CASE view[Scheduler][<<d, n>>] = Absent
    <3>1. <<d, n>> \in posts BY <2>2, <1>6
    <3> QED BY <3>1, <2>1, <1>5, <1>8 DEF JobWrites
  <2>3. CASE view[Scheduler][<<d, n>>] = "posted"
    BY <2>1, <2>3, <1>5, <1>8 DEF JobWrites
  <2> QED BY <2>2, <2>3, <1>7 DEF Runnable
<1>10. view'[Scheduler][d] = new[d] /\ db' = db /\ row = db[d]
  <2>1. d \in Row BY Kinds
  <2> QED BY <2>1, <1>5, <1>8, JobFacts DEF JobWrites
<1>11. new[d].last # Never => view'[Scheduler][<<d, new[d].last>>] = "posted"
  <2>1. CASE new[d].last = last BY <2>1, <1>5, <1>9
  <2>2. CASE new[d].last # last /\ new[d].last # Never
    <3>1. new[d].last = row.last /\ row.last \in Day BY <2>2, <1>2, <1>5
    <3>2. view[Scheduler][<<d, row.last>>] = "posted"
      BY <2>2, <3>1, <1>1 DEF Views, Tables, LastPosted
    <3>3. <<d, row.last>> \in Row /\ <<d, row.last>> # d BY <3>1, Rows
    <3> QED BY <3>1, <3>2, <3>3, <1>5, <1>8 DEF JobWrites
  <2> QED BY <2>1, <2>2
<1>12. RanDue(d)'
  <2>1. ASSUME NEW n \in Day, n >= db[d].next, n < new[d].next,
               (n - db[d].next) % Interval = 0
        PROVE  view'[Scheduler][<<d, n>>] = "posted"
    <3> DEFINE first == row.next
    <3>1. n \in Nat /\ last \in Nat /\ last \in Day /\ first \in Nat /\ db[d].next = first
      BY <1>2, <1>3, <1>5, <1>10, DayFacts
    <3>2. /\ last >= first /\ last <= today /\ (last - first) % Interval = 0
          /\ today \in Nat
      BY <1>1, <1>3, <1>5, DayFacts
    <3> HIDE DEF first
    <3>3. n < last + Interval
      BY <2>1, <3>1, <1>5 DEF first
    <3>4. n - first \in Nat /\ last - first \in Nat /\ n - first < (last - first) + Interval
      BY <2>1, <3>1, <3>2, <3>3, DayFacts
    <3>5. n - first <= last - first
      BY <2>1, <3>1, <3>2, <3>4, Congruent, DayFacts
    <3>6. n <= today BY <3>1, <3>2, <3>5
    <3>7. n \in dates BY <2>1, <3>1, <3>6, <1>3 DEF first
    <3> QED BY <3>7, <1>9
  <2>2. RanThrough(d, today)'
    <3>1. today' = today /\ db' = db /\ \A n \in Day : <<d, n>> \notin wrote[Scheduler]
          /\ wrote'[Scheduler] = wrote[Scheduler] \cup DOMAIN new
      BY <1>8, JobFacts
    <3>2. DueBy(d, today)' = dates
      BY <1>3, <1>10, <3>1 DEF DueBy
    <3>3. ASSUME NEW n \in Day, <<d, n>> \in wrote'[Scheduler] PROVE n \in dates
      <4>1. <<d, n>> \in {d} \cup posts /\ <<d, n>> # d BY <3>1, <3>3, <1>5, Rows
      <4> QED BY <4>1, <1>6
    <3>4. view'[Scheduler][d] = RowAfter(db'[d], last) BY <1>5, <1>10
    <3>5. today <= today BY <1>1, DayFacts
    <3> QED BY <3>1, <3>2, <3>3, <3>4, <3>5, <1>5, <1>9 DEF RanThrough
  <2>3. today' \in Day /\ db'[d].active BY <1>1, <1>8, <1>10, JobFacts
  <2>4. \E upto \in Day : RanThrough(d, upto)'
    <3>1. today' = today BY <1>8, JobFacts
    <3> QED BY <1>1, <3>1, <2>2
  <2> QED BY <2>1, <2>3, <2>4, <1>5, <1>10 DEF RanDue
<1>13. \A n \in Day : <<d, n>> \in DOMAIN new => n > db[Company]
  <2>1. ASSUME NEW n \in Day, <<d, n>> \in DOMAIN new PROVE n > db[Company]
    <3>1. <<d, n>> \in posts BY <2>1, <1>5, Rows
    <3>2. n \in dates /\ view[Scheduler][<<d, n>>] = Absent
      BY <3>1, <1>6
    <3>3. n > view[Scheduler][Company]
      BY <3>2, <1>7, AbsentAssumption DEF Runnable
    <3>4. view[Scheduler][Company] = db[Company]
      <4>1. Company \notin missed[Scheduler] BY DEF CronRun, Share, CanShare
      <4> QED BY <4>1, <1>1, Kinds DEF IInv, Locks, ViewsCurrent
    <3> QED BY <3>3, <3>4
  <2> QED BY <2>1
<1>14. Company \in shared'[Scheduler]
  <2>1. shared' = [shared EXCEPT ![Scheduler] = @ \cup {Company}]
    BY DEF CronRun, Share
  <2> QED BY <2>1, SchedulerAssumption DEF IInv, Locks
<1>15. \A doc \in DOMAIN new \ {d} : new[doc] = "posted" /\ db[doc] = Absent
  <2>1. ASSUME NEW doc \in posts PROVE db[doc] = Absent
    <3>1. PICK n \in dates : doc = <<d, n>> /\ view[Scheduler][<<d, n>>] = Absent BY <1>6
    <3>2. doc \notin wrote[Scheduler] /\ doc \notin missed[Scheduler] /\ doc \in Row
      BY <3>1, <1>3, <1>5, <1>8, JobFacts, Rows DEF JobWrites
    <3> QED BY <3>1, <3>2, <1>1 DEF IInv, Locks, ViewsCurrent
  <2> QED BY <1>5, <2>1
<1> QED BY <1>5, <1>8, <1>10, <1>11, <1>12, <1>13, <1>14, <1>15, JobKeeps

LEMMA FailKeeps ==
  ASSUME IInv, NEW d \in Definition, CronFail(d)
  PROVE  IInv' /\ db' = db
<1> DEFINE row == [view[Scheduler][d] EXCEPT !.failed = TRUE]
           new == [r \in {d} |-> row]
<1>1. JobWrites(d, new)
  <2> HIDE DEF row
  <2> QED BY PutWrites DEF CronFail, row
<1>2. /\ view[Scheduler][d] = db[d] /\ db' = db
      /\ view'[Scheduler][d] = row /\ \A n \in Day : <<d, n>> \notin wrote'[Scheduler]
  <2>1. d \in Row /\ \A n \in Day : <<d, n>> \notin {d} BY Rows
  <2>2. DOMAIN new = {d} /\ new[d] = row OBVIOUS
  <2> HIDE DEF new, row
  <2>3. /\ view[Scheduler][d] = db[d] /\ db' = db
        /\ wrote'[Scheduler] = wrote[Scheduler] \cup {d}
        /\ \A n \in Day : <<d, n>> \notin wrote[Scheduler]
    BY <2>2, <1>1, JobFacts
  <2>4. view'[Scheduler][d] = row BY <2>1, <2>2, <1>1 DEF JobWrites
  <2> QED BY <2>1, <2>3, <2>4
<1>3. db[d] \in DefinitionRow BY TypesOf DEF IInv
<1>4. row \in DefinitionRow /\ row.last = db[d].last /\ row = [db[d] EXCEPT !.failed = TRUE]
  BY <1>2, <1>3 DEF DefinitionRow
<1>5. RanDue(d)'
  <2>1. today' = today BY <1>1, JobFacts
  <2>2. view[Scheduler][d].next <= today /\ view[Scheduler][d].active
    BY <1>1 DEF JobWrites, IInv, PendingRuns
  <2> QED BY <1>2, <1>4, <2>1, <2>2 DEF RanDue
<1>6. row.last # Never => view'[Scheduler][<<d, row.last>>] = "posted"
  <2>1. ASSUME row.last # Never PROVE view'[Scheduler][<<d, row.last>>] = "posted"
    <3>1. row.last \in Day BY <2>1, <1>4, RowType DEF IInv
    <3>2. view[Scheduler][<<d, row.last>>] = "posted"
      <4>1. Scheduler \in active BY <1>1 DEF JobWrites
      <4>2. LastPosted(view[Scheduler]) BY <4>1 DEF IInv, Views, Tables
      <4> QED BY <2>1, <1>2, <1>4, <4>2 DEF LastPosted
    <3>3. <<d, row.last>> \in Row /\ <<d, row.last>> # d BY <3>1, Rows
    <3> QED BY <3>2, <3>3, <1>1 DEF JobWrites
  <2> QED BY <2>1
<1>7. DOMAIN new = {d} /\ new[d] = row OBVIOUS
<1> HIDE DEF new, row
<1> QED BY <1>1, <1>2, <1>4, <1>5, <1>6, <1>7, JobKeeps

-----------------------------------------------------------------------------
(* The daily job commits.                                                  *)
LEMMA CommitPublishes ==
  ASSUME IInv, CronCommit
  PROVE  Publishes /\ IInv'
<1> DEFINE W == wrote[Scheduler]
           seen == view[Scheduler]
<1>1. /\ Scheduler \in active /\ active' = active \ {Scheduler} /\ due[Scheduler] = {}
      /\ wrote' = [wrote EXCEPT ![Scheduler] = {}]
      /\ shared' = [shared EXCEPT ![Scheduler] = {}]
      /\ view' = [view EXCEPT ![Scheduler] = EmptyView]
      /\ missed' = [u \in Txn |-> IF u \in active \ {Scheduler} THEN missed[u] \cup W ELSE {}]
      /\ db' = [r \in Row |-> IF r \in W THEN seen[r] ELSE db[r]]
      /\ Finish(Scheduler)
  BY DEF CronCommit, CommitTxn, EndTxn
<1>2. W \subseteq Row /\ Company \notin W /\ Scheduler \in Txn
  BY SchedulerAssumption DEF IInv, Locks
<1>3. Tables(seen) /\ ReadPosted(Scheduler) /\ Tables(db)
  BY <1>1 DEF IInv, Views
<1>4. \A r \in Row : db'[r] = IF r \in W THEN seen[r] ELSE db[r] BY <1>1
<1>5. \A d \in Definition, n \in Day :
        <<d, n>> \in W => /\ seen[<<d, n>>] = "posted" /\ db[<<d, n>>] = Absent
                         /\ d \in W /\ n > db[Company]
  BY DEF IInv, PendingPosts
<1>6. db'[Company] = db[Company] BY <1>2, <1>4, Kinds
<1> HIDE DEF W, seen
<1>7. \A doc \in Document : IF doc \in W THEN db'[doc] = "posted" ELSE db'[doc] = db[doc]
  <2> TAKE doc \in Document
  <2>1. PICK d \in Definition, n \in Day : doc = <<d, n>> BY DEF Document
  <2> QED BY <2>1, <1>4, <1>5, Kinds
<1>8. PostedStay BY <1>7 DEF PostedStay
<1>9. \A doc \in Document : seen[doc] = "posted" => db'[doc] = "posted"
  BY <1>3, <1>7 DEF ReadPosted, W, seen
<1>10. \A d \in Definition : IF d \in W THEN db'[d] = seen[d] ELSE db'[d] = db[d]
  BY <1>4, Kinds
<1>11. Tables(db')
  <2>1. RowTypeOK(db')
    <3>1. \A d \in Definition : db'[d] \in DefinitionRow
      BY <1>3, <1>10 DEF Tables, RowTypeOK
    <3>2. \A doc \in Document : db'[doc] \in {"unposted", "posted", Absent}
      BY <1>3, <1>7 DEF Tables, RowTypeOK
    <3> QED BY <1>3, <1>6, <3>1, <3>2 DEF Tables, RowTypeOK
  <2>2. ASSUME NEW d \in Definition, db'[d].last # Never
        PROVE  db'[<<d, db'[d].last>>] = "posted"
    <3>1. CASE d \in W
      <4>1. db'[d] = seen[d] BY <3>1, <1>10
      <4>2. seen[<<d, seen[d].last>>] = "posted" /\ seen[d].last \in Day
        BY <2>2, <4>1, <1>3, RowType DEF Tables, LastPosted
      <4> QED BY <4>1, <4>2, <1>9, Rows
    <3>2. CASE d \notin W
      <4>1. db'[d] = db[d] BY <3>2, <1>10
      <4>2. db[<<d, db[d].last>>] = "posted" /\ db[d].last \in Day
        BY <2>2, <4>1, <1>3, RowType DEF Tables, LastPosted
      <4> QED BY <4>1, <4>2, <1>8, Rows DEF PostedStay
    <3> QED BY <3>1, <3>2
  <2>3. LastPosted(db') BY <2>2 DEF LastPosted
  <2> QED BY <2>1, <2>3 DEF Tables
<1>12. ASSUME NEW d \in Definition PROVE NotSkipped(d) /\ FailureAlone(d)
  <2>1. CASE d \notin W
    BY <2>1, <1>10 DEF NotSkipped, FailureAlone
  <2>2. CASE d \in W
    <3>1. db'[d] = seen[d] BY <2>2, <1>10
    <3>2. RanDue(d) BY <2>2 DEF IInv, PendingRuns, W
    <3>3. db[d] \in DefinitionRow /\ db[d].failed \in BOOLEAN BY <1>3, RowType
    <3>4. CASE /\ ~seen[d].failed
               /\ \A n \in Day : /\ n >= db[d].next /\ n < seen[d].next
                                 /\ (n - db[d].next) % Interval = 0
                                 => seen[<<d, n>>] = "posted"
      <4>1. FailureAlone(d) BY <3>1, <3>4 DEF FailureAlone
      <4>2. NotSkipped(d) BY <3>1, <3>4, <1>9, Rows DEF NotSkipped
      <4> QED BY <4>1, <4>2
    <3>5. CASE /\ seen[d] = [db[d] EXCEPT !.failed = TRUE]
               /\ \A n \in Day : <<d, n>> \notin W
      <4>1. \A n \in Day : db'[<<d, n>>] = db[<<d, n>>] BY <3>5, <1>7, Rows
      <4>2. db'[d] = [db[d] EXCEPT !.failed = TRUE] BY <3>1, <3>5
      <4>3. db'[d].last = db[d].last BY <3>3, <4>2 DEF DefinitionRow
      <4>4. FailureAlone(d) BY <4>1, <4>2 DEF FailureAlone
      <4>5. NotSkipped(d) BY <4>3 DEF NotSkipped
      <4> QED BY <4>4, <4>5
    <3> QED BY <3>2, <3>4, <3>5 DEF RanDue, W, seen
  <2> QED BY <2>1, <2>2
<1>13. OutsideClosed
  <2>1. ASSUME NEW d \in Definition, NEW n \in Day,
               db[<<d, n>>] = Absent, db'[<<d, n>>] = "posted"
        PROVE  n > db'[Company]
    <3>1. <<d, n>> \in W BY <2>1, <1>7, Rows, AbsentAssumption
    <3> QED BY <3>1, <1>6 DEF IInv, PendingPosts, W
  <2> QED BY <2>1 DEF OutsideClosed
<1>kept. ASSUME NEW d \in Definition
       PROVE  Book!Kept(d) \/ Book!CaughtUp(d) \/ Book!Reported(d)
  <2>1. [e \in Definition |-> db[e]][d] = db[d] /\ [e \in Definition |-> db'[e]][d] = db'[d]
    OBVIOUS
  <2>2. \A n \in Day : IF <<d, n>> \in W THEN db'[<<d, n>>] = "posted"
                       ELSE db'[<<d, n>>] = db[<<d, n>>]
    BY <1>7, Rows
  <2>3. CASE d \notin W
    <3>1. db'[d] = db[d] /\ \A n \in Day : db'[<<d, n>>] = db[<<d, n>>]
      BY <2>2, <2>3, <1>5, <1>10
    <3> QED BY <3>1, Rows DEF Book!Kept, Book!Days, Day
  <2>4. CASE d \in W
    <3>1. RanDue(d) /\ db[d].active /\ db'[d] = seen[d]
      BY <2>4, <1>10 DEF IInv, PendingRuns, W, RanDue
    <3>2. ASSUME NEW upto \in Day, RanThrough(d, upto) PROVE Book!CaughtUp(d)
      <4>due. PICK dates \in SUBSET Day : dates = DueBy(d, upto) BY DEF DueBy
      <4>1. PICK date \in dates : /\ \A n \in dates : n <= date
                                  /\ db'[d] = RowAfter(db[d], date)
        BY <3>1, <3>2, <4>due DEF RanThrough, seen
      <4>2. /\ dates \subseteq Day /\ upto <= today
            /\ \A n \in dates : seen[<<d, n>>] = "posted"
            /\ \A n \in Day : <<d, n>> \in W => n \in dates
        BY <3>2, <4>due DEF RanThrough, seen, W
      <4>3. Book!Scheduled(d, upto) = dates
        BY <2>1, <4>due DEF Book!Scheduled, Book!Days, Day, DueBy
      <4>4. \A n \in dates : \/ db[<<d, n>>] = "posted"
                             \/ db[<<d, n>>] = Absent /\ n > db[Company]
        <5> TAKE n \in dates
        <5>1. n \in Day /\ <<d, n>> \in Document BY <4>2, Rows
        <5>2. CASE <<d, n>> \in W BY <5>1, <5>2, <1>5
        <5>3. CASE <<d, n>> \notin W BY <5>1, <5>3, <4>2, <1>3 DEF ReadPosted, seen, W
        <5> QED BY <5>2, <5>3
      <4>5. \A n \in Day :
              db'[<<d, n>>] = IF n \in dates THEN "posted" ELSE db[<<d, n>>]
        <5> TAKE n \in Day
        <5>1. CASE n \in dates
          <6>1. <<d, n>> \in Document /\ seen[<<d, n>>] = "posted" BY <5>1, <4>2, Rows
          <6> QED BY <5>1, <6>1, <1>9
        <5>2. CASE n \notin dates BY <5>2, <2>2, <4>2
        <5> QED BY <5>1, <5>2
      <4>6. Book!Ran(d, dates) BY <4>1, <4>2, <4>4, <4>5, ShowsRun
      <4>7. dates \in {Book!Scheduled(d, k) : k \in 0 .. today}
        <5>1. upto \in 0 .. today BY <4>2, DayFacts DEF IInv, JobRequests
        <5> QED BY <4>3, <5>1
      <4>8. [e \in Definition |-> db[e]][d].active BY <2>1, <3>1
      <4> QED BY <4>6, <4>7, <4>8, Zenon DEF Book!CaughtUp
    <3>3. CASE /\ seen[d] = [db[d] EXCEPT !.failed = TRUE] /\ db[d].next <= today
               /\ \A n \in Day : <<d, n>> \notin W
      <4>1. /\ db'[d] = [db[d] EXCEPT !.failed = TRUE]
            /\ \A n \in Day : db'[<<d, n>>] = db[<<d, n>>]
        BY <2>2, <3>1, <3>3
      <4> QED BY <2>1, <3>1, <3>3, <4>1, Rows DEF Book!Reported, Book!Days, Day
    <3> QED BY <3>1, <3>2, <3>3 DEF RanDue, seen, W
  <2> QED BY <2>3, <2>4
<1>shown. Shown
  <2>1. Book!CatchUp BY <1>6, <1>kept DEF Book!CatchUp
  <2> QED BY <2>1 DEF Shown, Book!Turn
<1>14. Publishes BY <1>8, <1>11, <1>12, <1>13, <1>shown DEF Publishes
<1>15. \A u \in Txn \ {Scheduler} : view'[u] = view[u] /\ wrote'[u] = wrote[u] /\ shared'[u] = shared[u]
  BY <1>1 DEF IInv, Locks
<1>16. /\ wrote'[Scheduler] = {} /\ shared'[Scheduler] = {} /\ missed'[Scheduler] = {}
       /\ due'[Scheduler] = {}
  BY <1>1, <1>2 DEF IInv, Locks, Finish, JobRequests
<1>17. Locks'
  <2>1. missed' \in [Txn -> SUBSET Row] BY <1>1, <1>2 DEF IInv, Locks
  <2>2. \A u \in Txn : wrote'[u] = {} /\ shared'[u] = {}
    BY <1>15, <1>16 DEF IInv, Locks
  <2>3. LockedRowsCurrent' BY <2>2 DEF LockedRowsCurrent
  <2>4. ViewsCurrent'
    <3>1. ASSUME NEW u \in active', NEW r \in Row, r \notin missed'[u]
          PROVE  view'[u][r] = db'[r]
      <4>1. u \in active /\ u \in Txn \ {Scheduler} BY <1>1 DEF IInv, Locks
      <4>2. r \notin missed[u] /\ r \notin W /\ r \notin wrote[u]
        BY <3>1, <4>1, <1>1 DEF IInv, Locks
      <4>3. view[u][r] = db[r] BY <4>1, <4>2 DEF IInv, Locks, ViewsCurrent
      <4> QED BY <4>1, <4>2, <4>3, <1>4, <1>15
    <3> QED BY <3>1 DEF ViewsCurrent
  <2>5. \A u \in Txn : DOMAIN view'[u] = Row
    BY <1>1, <1>15 DEF IInv, Locks, EmptyView
  <2>6. wrote' \in [Txn -> SUBSET Row] /\ shared' \in [Txn -> SUBSET Row]
        /\ DOMAIN view' = Txn /\ DOMAIN db' = Row /\ active' \subseteq Txn
    BY <1>1 DEF IInv, Locks
  <2> QED BY <1>16, <2>1, <2>2, <2>3, <2>4, <2>5, <2>6 DEF Locks
<1>18. JobRequests' BY <1>1 DEF Finish, IInv, JobRequests
<1>19. Tables(db)' BY <1>11 DEF Tables, RowTypeOK, LastPosted
<1>20. Views'
  <2>1. ASSUME NEW u \in active' PROVE Tables(view[u])' /\ ReadPosted(u)'
    <3>1. u \in active /\ u \in Txn \ {Scheduler} BY <1>1 DEF IInv, Locks
    <3>2. view'[u] = view[u] /\ wrote'[u] = wrote[u] BY <1>15, <3>1
    <3>3. Tables(view[u])' BY <3>1, <3>2 DEF IInv, Views, Tables, RowTypeOK, LastPosted
    <3>4. ReadPosted(u)'
      BY <3>1, <3>2, <1>8 DEF IInv, Views, ReadPosted, PostedStay
    <3> QED BY <3>3, <3>4
  <2> QED BY <2>1 DEF Views
<1>21. PendingRuns' /\ PendingPosts' BY <1>16 DEF PendingRuns, PendingPosts
<1> QED BY <1>14, <1>17, <1>18, <1>19, <1>20, <1>21 DEF IInv

-----------------------------------------------------------------------------
LEMMA InitIInv == Init => IInv
<1> SUFFICES ASSUME Init PROVE IInv OBVIOUS
<1>1. /\ active = {} /\ today = 0 /\ wrote = [t \in Txn |-> {}] /\ shared = [t \in Txn |-> {}]
      /\ missed = [t \in Txn |-> {}] /\ view = [t \in Txn |-> EmptyView]
      /\ job = [t \in Txn |-> "idle"] /\ due = [t \in Txn |-> {}]
      /\ DOMAIN db = Row
  BY DEF Init, DBInitWith
<1>2. /\ \A d \in Definition : db[d] = [next |-> 0, last |-> Never, active |-> TRUE, failed |-> FALSE]
      /\ db[Company] = Never
      /\ \A doc \in Document : db[doc] \in {"unposted", Absent}
  BY Kinds DEF Init, DBInitWith
<1>3. Tables(db)
  <2>1. \A d \in Definition : db[d] \in DefinitionRow
    <3>1. 0 \in 0 .. LastDay + Interval
      <4>1. LastDay + Interval \in Nat BY DayFacts
      <4> QED BY <4>1
    <3>2. [next |-> 0, last |-> Never, active |-> TRUE, failed |-> FALSE] \in DefinitionRow
      BY <3>1 DEF DefinitionRow
    <3> QED BY <1>2, <3>2
  <2>2. RowTypeOK(db) BY <1>2, <2>1 DEF RowTypeOK
  <2>3. LastPosted(db) BY <1>2 DEF LastPosted
  <2> QED BY <2>2, <2>3 DEF Tables
<1>4. Locks
  BY <1>1, SchedulerAssumption DEF Locks, LockedRowsCurrent, ViewsCurrent, EmptyView
<1>5. JobRequests
  <2>1. 0 \in Day BY DayAssumption DEF Day
  <2> QED BY <1>1, <2>1, SchedulerAssumption DEF JobRequests
<1>6. Views BY <1>1 DEF Views
<1>7. PendingRuns /\ PendingPosts
  BY <1>1, SchedulerAssumption DEF PendingRuns, PendingPosts
<1> QED BY <1>3, <1>4, <1>5, <1>6, <1>7 DEF IInv

LEMMA Unchanged ==
  ASSUME IInv, db' = db PROVE Publishes
<1>1. Tables(db') BY DEF IInv
<1>2. PostedStay BY DEF PostedStay
<1>3. OutsideClosed BY AbsentAssumption DEF OutsideClosed
<1>4. ASSUME NEW d \in Definition PROVE NotSkipped(d) /\ FailureAlone(d)
  BY DEF NotSkipped, FailureAlone
<1>5. Shown BY DEF Shown, Book!entries
<1> QED BY <1>1, <1>2, <1>3, <1>4, <1>5 DEF Publishes

LEMMA StepKeeps ==
  ASSUME IInv, [Next]_vars PROVE IInv' /\ Publishes
<1>1. CASE NewDay
  <2>1. today' \in Day /\ today <= today' /\ db' = db
    BY <1>1, DayFacts DEF NewDay, IInv, JobRequests, Day, dbVars
  <2> QED BY <1>1, <2>1, NothingWritten, Unchanged DEF NewDay
<1>2. CASE StartCron
  <2>1. db' = db BY <1>2 DEF StartCron, BeginTxn
  <2> QED BY <1>2, <2>1, StartKeeps, Unchanged
<1>3. CASE CronStep
  BY <1>3, RunKeeps, FailKeeps, CommitPublishes, Unchanged DEF CronStep
<1>4. ASSUME NEW t \in Txn, Begin(t) PROVE IInv' /\ Publishes
  <2>1. db' = db BY <1>4 DEF Begin, BeginTxn
  <2> QED BY <1>4, <2>1, BeginKeeps, Unchanged
<1>5. ASSUME NEW t \in Txn, UserStep(t) PROVE IInv' /\ Publishes
  BY <1>5, UserPublishes
<1>6. ASSUME NEW t \in Txn, Abort(t) PROVE IInv' /\ Publishes
  BY <1>6, AbortKeeps, Unchanged
<1>7. CASE UNCHANGED vars
  <2>1. today' \in Day /\ today <= today' /\ db' = db
    BY <1>7, DayFacts DEF vars, dbVars, IInv, JobRequests
  <2> QED BY <1>7, <2>1, NothingWritten, Unchanged DEF vars
<1> QED BY <1>1, <1>2, <1>3, <1>4, <1>5, <1>6, <1>7 DEF Next

(* The invariant from which the properties of the runs follow.             *)
THEOREM RunsInvariant == Spec => []IInv
<1>1. IInv /\ [Next]_vars => IInv' BY StepKeeps
<1> QED BY <1>1, InitIInv, PTL DEF Spec

(* Whatever moves next_run on account of runs leaves every scheduled date  *)
(* it passes with a posted document, for any number of definitions,        *)
(* requests and days and any limit of a catch-up.                          *)
THEOREM NoDateSkipped == Spec => OverdueNeverSkipped
<1>1. IInv => TypeOK
  BY DEF IInv, Tables, LastPosted, Views, JobRequests, TypeOK
<1>2. IInv /\ [Next]_vars =>
        \A d \in Definition :
          db'[d].last # db[d].last =>
            \A n \in Day :
              /\ n >= db[d].next /\ n < db'[d].next /\ n <= today
              /\ (n - db[d].next) % Interval = 0
              => db'[<<d, n>>] = "posted"
  BY StepKeeps DEF Publishes, NotSkipped
<1> QED BY <1>1, <1>2, RunsInvariant, PTL DEF Spec, OverdueNeverSkipped

(* A recorded failure changes nothing but the record: no document of the   *)
(* definition and no other field of it, though the job goes on with others *)
(* in the same transaction.                                                *)
THEOREM FailuresLeaveNothing == Spec => FailureLeavesNothing
<1>1. IInv /\ [Next]_vars =>
        \A d \in Definition :
          db'[d].failed /\ ~db[d].failed =>
            /\ db'[d] = [db[d] EXCEPT !.failed = TRUE]
            /\ \A n \in Day : db'[<<d, n>>] = db[<<d, n>>]
  BY StepKeeps DEF Publishes, FailureAlone
<1> QED BY <1>1, RunsInvariant, PTL DEF Spec, FailureLeavesNothing

(* No run posts a document into a closed period, however long ago the job  *)
(* that commits it looked at the periods.                                  *)
THEOREM ClosedPeriodsSpared == Spec => NoneIntoClosedPeriod
<1>1. IInv /\ [Next]_vars =>
        \A d \in Definition, n \in Day :
          db[<<d, n>>] = Absent /\ db'[<<d, n>>] = "posted" => n > db'[Company]
  BY StepKeeps DEF Publishes, OutsideClosed
<1> QED BY <1>1, RunsInvariant, PTL DEF Spec, NoneIntoClosedPeriod

(* Whatever requests and the daily job do at once, and however often they  *)
(* are refused, aborted or fail on a definition, definitions and documents *)
(* behave as RunBook, for any number of definitions, requests and days.    *)
THEOREM RunsKeepTheBook == Spec => ImplementsRunBook
<1>1. Init => Book!Start
  <2> SUFFICES ASSUME Init PROVE Book!Start OBVIOUS
  <2>1. /\ \A d \in Definition :
             db[d] = [next |-> 0, last |-> -1, active |-> TRUE, failed |-> FALSE]
        /\ \A doc \in Document : db[doc] \in {Absent, "unposted"}
        /\ db[Company] = -1 /\ today = 0
    BY Kinds DEF Init, DBInitWith, Never
  <2>2. [d \in Definition |-> db[d]]
          = [d \in Definition |-> [next |-> 0, last |-> -1, active |-> TRUE, failed |-> FALSE]]
    BY <2>1
  <2>3. [doc \in Document |-> db[doc]] \in [Book!Documents -> {Absent, "unposted"}]
    BY <2>1 DEF Book!Documents, Book!Days, Document, Day
  <2> QED BY <2>1, <2>2, <2>3 DEF Book!Start
<1>2. IInv /\ [Next]_vars => [Book!Keep]_(Book!book)
  <2> SUFFICES ASSUME IInv, [Next]_vars PROVE [Book!Keep]_(Book!book) OBVIOUS
  <2>1. Shown BY StepKeeps DEF Publishes
  <2>2. CASE NewDay
    <3>1. db' = db BY <2>2 DEF NewDay, dbVars
    <3>2. UNCHANGED Book!entries BY <3>1 DEF Book!entries
    <3>3. Book!Tomorrow BY <2>2, <3>2 DEF NewDay, Book!Tomorrow
    <3> QED BY <3>3 DEF Book!Keep
  <2>3. CASE ~NewDay
    <3>1. today' = today
      BY <2>3 DEF Next, StartCron, CronStep, CronRun, CronFail, CronCommit, RanCron, Finish,
                  Begin, Abort, UserStep, RunNow, RunDue, Write, ClosePeriods, ResolveUnposted,
                  Serve, vars
    <3> QED BY <2>1, <3>1 DEF Shown, Book!Keep, Book!book, Book!entries
  <2> QED BY <2>2, <2>3
<1> QED BY <1>1, <1>2, RunsInvariant, PTL DEF Spec, ImplementsRunBook, Book!Bookkeeping

-----------------------------------------------------------------------------
(* What retention may count on: enough whole bundles of later captures.    *)
Covered(r) == Cardinality({s \in Runs : s > r /\ Recoverable(s)}) >= KeepMinimum

(* Versions are issued once, and each is locked for the whole horizon.     *)
Versions ==
  /\ \A r \in Runs : payload[r] <= issued /\ receipt[r] <= issued
  /\ \A v \in 1..issued : until[v] = created[v] + Horizon
  /\ \A e \in acked : e[2] \in 1..issued

(* A delivery that verified its version still finds it: the lock it read   *)
(* has not run out, for no midnight passes while it runs.                  *)
Deliveries == \A d \in Deliverers : del[d].pc # "idle" =>
  /\ del[d].run \in Runs /\ del[d].version \in 1..issued
  /\ del[d].pc \in {"receipt", "confirm"} =>
       payload[del[d].run] = del[d].version /\ until[del[d].version] >= day

(* An entry a plan may delete, and the journal of a plan.                  *)
Due(e) == created[e[2]] + Horizon < day /\ Covered(e[1])

Journal(j) ==
  /\ \A e \in j.todo : e[2] \in 1..issued
  /\ j.pc \in {"payload", "receipt"} => \A e \in j.todo : Due(e)
  /\ j.pc = "receipt" => j.pending \in j.todo
  /\ j.pc \in {"unmade", "made", "payload"} => j.pending = NoEntry
  /\ j.pending # NoEntry => /\ j.pending[1] \in Runs /\ j.pending[2] \in 1..issued
                            /\ payload[j.pending[1]] # j.pending[2]

Journals == \A p \in Plans : Journal(plan[p])

LossesCovered == \A r \in Catalog : Whole(r) \/ Covered(r)

VaultBasics == VaultTypeOK /\ Versions /\ Deliveries /\ Journals

(* The inductive invariant: a receipt whose bundle is gone was deleted by  *)
(* a plan, and enough later bundles outlive it; so no plan, however old    *)
(* the receipts it counted, reaches the newest.                            *)
VaultInv == VaultBasics /\ LossesCovered /\ LossJournaled /\ DurableKept

-----------------------------------------------------------------------------
LEMMA RunsAreNumbers ==
  Runs \subseteq Nat \ {0} /\ IsFiniteSet(Runs) /\ Cardinality(Runs) \in Nat
  /\ {MaxDay, MaxVersion, Staged, Horizon, MaxAge, KeepMinimum} \subseteq Nat
<1>1. Cardinality(Runs) \in Nat BY VaultAssumption, FS_CardinalityType
<1>2. \A n \in 1..Cardinality(Runs) : n \in Nat \ {0} BY <1>1
<1>3. QED BY VaultAssumption, <1>1, <1>2

LEMMA LargerCovers ==
  ASSUME NEW S, NEW T, S \subseteq T, T \subseteq Runs, Cardinality(S) >= KeepMinimum
  PROVE  Cardinality(T) >= KeepMinimum
<1>1. IsFiniteSet(T) /\ IsFiniteSet(S) BY RunsAreNumbers, FS_Subset
<1>2. Cardinality(S) <= Cardinality(T) BY <1>1, FS_Subset
<1>3. Cardinality(S) \in Nat /\ Cardinality(T) \in Nat BY <1>1, FS_CardinalityType
<1>4. QED BY <1>2, <1>3, RunsAreNumbers

LEMMA CoverGrows ==
  ASSUME \A s \in Runs : Recoverable(s) => Recoverable(s)', NEW x
  PROVE  Covered(x) => Covered(x)'
<1> DEFINE S == {s \in Runs : s > x /\ Recoverable(s)}
           T == {s \in Runs : s > x /\ Recoverable(s)'}
<1>1. S \subseteq T /\ T \subseteq Runs OBVIOUS
<1>2. Covered(x) <=> Cardinality(S) >= KeepMinimum BY DEF Covered
<1>3. Covered(x)' <=> Cardinality(T) >= KeepMinimum BY DEF Covered
<1> HIDE DEF S, T
<1>4. QED BY <1>1, <1>2, <1>3, LargerCovers

(* The step the proof turns on: taking away a run that enough later runs   *)
(* outlive takes the cover from no earlier run.                            *)
LEMMA CoverOutlives ==
  ASSUME NEW g \in Runs, Covered(g),
         \A s \in Runs \ {g} : Recoverable(s) => Recoverable(s)', NEW x \in Runs, Covered(x)
  PROVE  Covered(x)'
<1> DEFINE S == {s \in Runs : s > x /\ Recoverable(s)}
           G == {s \in Runs : s > g /\ Recoverable(s)}
           T == {s \in Runs : s > x /\ Recoverable(s)'}
<1>0. x \in Nat /\ g \in Nat /\ \A s \in Runs : s \in Nat BY RunsAreNumbers
<1>1. Covered(x)' <=> Cardinality(T) >= KeepMinimum BY DEF Covered
<1>2. Cardinality(S) >= KeepMinimum /\ Cardinality(G) >= KeepMinimum BY DEF Covered
<1>3. T \subseteq Runs OBVIOUS
<1>4. CASE g > x
  <2>1. G \subseteq T
    <3> SUFFICES ASSUME NEW s \in G PROVE s \in T OBVIOUS
    <3>1. s \in Runs /\ s > g /\ Recoverable(s) OBVIOUS
    <3>2. s > x /\ s # g BY <3>1, <1>0, <1>4
    <3>3. QED BY <3>1, <3>2
  <2> HIDE DEF G, T
  <2>2. QED BY <2>1, <1>1, <1>2, <1>3, LargerCovers
<1>5. CASE ~(g > x)
  <2>1. S \subseteq T
    <3> SUFFICES ASSUME NEW s \in S PROVE s \in T OBVIOUS
    <3>1. s \in Runs /\ s > x /\ Recoverable(s) OBVIOUS
    <3>2. s # g BY <3>1, <1>0, <1>5
    <3>3. QED BY <3>1, <3>2
  <2> HIDE DEF S, T
  <2>2. QED BY <2>1, <1>1, <1>2, <1>3, LargerCovers
<1>6. QED BY <1>4, <1>5

(* A plan counts receipts, and some of them may have lost their bundles:   *)
(* what it selects is covered all the same.                                *)
LEMMA SelectedCovered ==
  ASSUME LossesCovered, VaultTypeOK, NEW e \in Selected
  PROVE  Due(e)
<1>1. PICK s \in Catalog : e = <<s, receipt[s]>> /\ Cardinality(Newer(s)) >= KeepMinimum
                           /\ created[receipt[s]] + Horizon < day
  BY DEF Selected
<1>2. s \in Runs /\ \A q \in Runs : q \in Nat BY <1>1, RunsAreNumbers DEF Catalog
<1> DEFINE T == {q \in Runs : q > s /\ Recoverable(q)}
<1>3. T \subseteq Runs OBVIOUS
<1>4. CASE \A q \in Newer(s) : Whole(q)
  <2>1. Newer(s) \subseteq T BY <1>4 DEF Newer, Recoverable, Catalog
  <2> HIDE DEF T
  <2>2. Cardinality(T) >= KeepMinimum BY <2>1, <1>1, <1>3, LargerCovers
  <2>3. QED BY <2>2, <1>1 DEF Due, Covered, T
<1>5. CASE ~(\A q \in Newer(s) : Whole(q))
  <2>1. PICK q \in Newer(s) : ~Whole(q) BY <1>5
  <2>2. q \in Catalog /\ q \in Runs /\ q > s BY <2>1 DEF Newer, Catalog
  <2>3. Covered(q) BY <2>1, <2>2 DEF LossesCovered
  <2> DEFINE Q == {v \in Runs : v > q /\ Recoverable(v)}
  <2>4. Q \subseteq T BY <2>2, <1>2
  <2>5. Cardinality(Q) >= KeepMinimum BY <2>3 DEF Covered
  <2> HIDE DEF T, Q
  <2>6. Cardinality(T) >= KeepMinimum BY <2>4, <2>5, <1>3, LargerCovers
  <2>7. QED BY <2>6, <1>1 DEF Due, Covered, T
<1>6. QED BY <1>4, <1>5

-----------------------------------------------------------------------------
LEMMA VaultInitHolds == VaultInit => VaultInv
<1> SUFFICES ASSUME VaultInit PROVE VaultInv OBVIOUS
<1>1. VaultTypeOK
  <2>1. 1 \in 1..MaxDay /\ 0 \in 0..MaxVersion /\ 0 \in 0..MaxDay /\ 0 \in 0..(MaxDay + Horizon)
    BY RunsAreNumbers, VaultAssumption
  <2>2. QED BY <2>1 DEF VaultInit, VaultTypeOK, Idling, Unmade, NoEntry, Entry
<1>2. Versions BY RunsAreNumbers DEF VaultInit, Versions
<1>3. Deliveries BY DEF VaultInit, Deliveries, Idling
<1>4. Journals BY DEF VaultInit, Journals, Journal, Unmade
<1>5. LossesCovered /\ LossJournaled BY DEF VaultInit, LossesCovered, LossJournaled, Catalog
<1>6. DurableKept BY <1>1 DEF VaultInit, DurableKept
<1>7. QED BY <1>1, <1>2, <1>3, <1>4, <1>5, <1>6 DEF VaultInv, VaultBasics

-----------------------------------------------------------------------------
LEMMA VaultTypesKept == VaultBasics /\ [VaultNext]_vaultVars => VaultTypeOK'
<1> SUFFICES ASSUME VaultBasics, [VaultNext]_vaultVars PROVE VaultTypeOK'
  OBVIOUS
<1> USE RunsAreNumbers DEF VaultBasics
<1> DEFINE Del == [pc : {"idle", "verify", "receipt", "confirm"}, run : Runs \cup {0}, version : 0..MaxVersion]
           Plan == [pc : {"unmade", "made", "payload", "receipt", "closed"},
                         at : 0..MaxDay, todo : SUBSET Entry, pending : Entry \cup {NoEntry}]
<1>1. ASSUME NEW d \in Deliverers, NEW r \in Runs, PutPayload(d, r) PROVE VaultTypeOK'
  <2>0. r \in Nat /\ day \in 1..MaxDay /\ issued \in 0..MaxVersion /\ issued < MaxVersion
    BY <1>1 DEF PutPayload, VaultTypeOK
  <2>1. CASE payload[r] = 0 /\ issued' = issued + 1
    <3>1. issued' \in 1..MaxVersion /\ issued' \in 0..MaxVersion /\ day + Horizon \in 0..(MaxDay + Horizon) /\ day \in 0..MaxDay
      BY <2>0, <2>1
    <3>2. [pc |-> "verify", run |-> r, version |-> issued + 1] \in Del BY <3>1, <2>1
    <3>3. payload' = [payload EXCEPT ![r] = issued'] /\ created' = [created EXCEPT ![issued'] = day]
          /\ until' = [until EXCEPT ![issued'] = day + Horizon]
          /\ del' = [del EXCEPT ![d] = [pc |-> "verify", run |-> r, version |-> issued + 1]]
      BY <1>1, <2>1 DEF PutPayload, Deliver
    <3>4. UNCHANGED <<receipt, acked, day, plan>> BY <1>1 DEF PutPayload, DelKeeps
    <3>5. del' \in [Deliverers -> Del] BY <3>2, <3>3 DEF VaultTypeOK
    <3> HIDE DEF Del
    <3>6. payload' \in [Runs -> 0..MaxVersion] BY <3>1, <3>3 DEF VaultTypeOK
    <3>7. until' \in [1..MaxVersion -> 0..(MaxDay + Horizon)] BY <3>1, <3>3 DEF VaultTypeOK
    <3>8. created' \in [1..MaxVersion -> 0..MaxDay] BY <3>1, <3>3 DEF VaultTypeOK
    <3>9. QED BY <3>1, <3>4, <3>5, <3>6, <3>7, <3>8 DEF VaultTypeOK, Del
  <2>2. CASE UNCHANGED <<issued, payload, created, until>> /\ del' = [del EXCEPT ![d] = [pc |-> "verify", run |-> r, version |-> payload[r]]]
    <3>1. payload[r] \in 0..MaxVersion BY DEF VaultTypeOK
    <3>2. [pc |-> "verify", run |-> r, version |-> payload[r]] \in Del BY <3>1
    <3>3. del' \in [Deliverers -> Del] BY <3>2, <2>2 DEF VaultTypeOK
    <3>4. QED BY <1>1, <2>2, <3>3 DEF PutPayload, DelKeeps, VaultTypeOK
  <2>3. QED BY <1>1, <2>1, <2>2 DEF PutPayload, Deliver
<1>2. ASSUME NEW d \in Deliverers,
             VerifyPayload(d) \/ PutReceipt(d) \/ ConfirmReceipt(d) \/ AbandonDelivery(d)
      PROVE VaultTypeOK'
  <2>1. del[d] \in Del /\ Idling \in Del BY DEF VaultTypeOK, Idling
  <2>2. PICK x \in Del : del' = [del EXCEPT ![d] = x]
    <3>1. [del[d] EXCEPT !.pc = "receipt"] \in Del /\ [del[d] EXCEPT !.pc = "confirm"] \in Del BY <2>1
    <3> HIDE DEF Del
    <3>2. QED BY <1>2, <3>1, <2>1 DEF VerifyPayload, PutReceipt, ConfirmReceipt, AbandonDelivery, Deliver
  <2>3. del' \in [Deliverers -> Del] BY <2>2 DEF VaultTypeOK
  <2>4. del[d].pc # "idle" => del[d].run \in Runs /\ del[d].version \in 0..MaxVersion
    BY <2>1 DEF Deliveries
  <2>5. UNCHANGED <<day, plan, payload, until, created, issued>>
    BY <1>2 DEF VerifyPayload, PutReceipt, ConfirmReceipt, AbandonDelivery, DelKeeps, storeVars
  <2>6. receipt' \in [Runs -> 0..MaxVersion]
    BY <1>2, <2>4 DEF VerifyPayload, PutReceipt, ConfirmReceipt, AbandonDelivery, storeVars,
       VaultTypeOK
  <2>7. acked' \subseteq Entry
    BY <1>2, <2>4 DEF VerifyPayload, PutReceipt, ConfirmReceipt, AbandonDelivery, VaultTypeOK, Entry
  <2>8. QED BY <2>3, <2>5, <2>6, <2>7 DEF VaultTypeOK
<1>3. ASSUME NEW p \in Plans,
             MakePlan(p) \/ ApplyPlan(p) \/ DeletePayload(p) \/ DeleteReceipt(p) \/ CloseJournal(p)
      PROVE VaultTypeOK'
  <2>1. plan[p] \in Plan /\ day \in 0..MaxDay BY DEF VaultTypeOK
  <2>2. Selected \subseteq Entry BY DEF Selected, Entry, Catalog, VaultTypeOK
  <2>3. PICK x \in Plan : plan' = [plan EXCEPT ![p] = x]
    <3>1. CASE MakePlan(p)
      <4>1. [pc |-> "made", at |-> day, todo |-> Selected, pending |-> NoEntry] \in Plan BY <2>1, <2>2
      <4>2. QED BY <3>1, <4>1 DEF MakePlan, PlanIs
    <3>2. CASE ApplyPlan(p)
      <4>1. \A c \in {"payload", "closed"} : [plan[p] EXCEPT !.pc = c] \in Plan BY <2>1
      <4> HIDE DEF Plan
      <4>2. QED BY <3>2, <4>1 DEF ApplyPlan, PlanIs
    <3>3. CASE DeletePayload(p)
      <4>1. \A e \in plan[p].todo : [plan[p] EXCEPT !.pc = "receipt", !.pending = e] \in Plan BY <2>1
      <4>2. [plan[p] EXCEPT !.pc = "closed"] \in Plan BY <2>1
      <4> HIDE DEF Plan
      <4>3. QED BY <3>3, <4>1, <4>2 DEF DeletePayload, PlanIs
    <3>4. CASE DeleteReceipt(p)
      <4>1. [plan[p] EXCEPT !.pc = "payload", !.todo = @ \ {plan[p].pending}, !.pending = NoEntry] \in Plan
        BY <2>1
      <4> HIDE DEF Plan
      <4>2. QED BY <3>4, <4>1 DEF DeleteReceipt, PlanIs
    <3>5. CASE CloseJournal(p)
      <4>1. [plan[p] EXCEPT !.pc = "closed", !.todo = {}] \in Plan BY <2>1
      <4> HIDE DEF Plan
      <4>2. QED BY <3>5, <4>1 DEF CloseJournal, PlanIs
    <3>6. QED BY <1>3, <3>1, <3>2, <3>3, <3>4, <3>5
  <2>4. plan' \in [Plans -> Plan] BY <2>3 DEF VaultTypeOK
  <2>5. UNCHANGED <<day, del, acked, until, created, issued>>
    BY <1>3 DEF MakePlan, ApplyPlan, DeletePayload, DeleteReceipt, CloseJournal, PlanIs, storeVars
  <2>6. receipt' \in [Runs -> 0..MaxVersion] /\ payload' \in [Runs -> 0..MaxVersion]
    <3>1. 0 \in 0..MaxVersion OBVIOUS
    <3>2. CASE DeletePayload(p)
      <4>1. PICK e \in plan[p].todo :
              payload' = [payload EXCEPT ![e[1]] = 0] \/ UNCHANGED payload
        BY <3>2 DEF DeletePayload
      <4>2. payload' \in [Runs -> 0..MaxVersion] BY <4>1, <3>1 DEF VaultTypeOK
      <4>3. QED BY <3>2, <4>2 DEF DeletePayload, VaultTypeOK
    <3>3. CASE DeleteReceipt(p) BY <3>1, <3>3 DEF DeleteReceipt, VaultTypeOK
    <3>4. QED BY <1>3, <3>2, <3>3 DEF MakePlan, ApplyPlan, CloseJournal, storeVars, VaultTypeOK
  <2>7. QED BY <2>4, <2>5, <2>6 DEF VaultTypeOK
<1>4. CASE DayPasses
  BY <1>4 DEF DayPasses, VaultTypeOK, storeVars
<1>5. CASE UNCHANGED vaultVars BY <1>5 DEF vaultVars, storeVars, VaultTypeOK
<1>6. QED BY <1>1, <1>2, <1>3, <1>4, <1>5 DEF VaultNext, Delivery, Retention

-----------------------------------------------------------------------------
LEMMA VersionsKept == VaultBasics /\ [VaultNext]_vaultVars => Versions'
<1> SUFFICES ASSUME VaultBasics, [VaultNext]_vaultVars PROVE Versions'
  OBVIOUS
<1> USE RunsAreNumbers DEF VaultBasics
<1>1. ASSUME NEW d \in Deliverers, NEW r \in Runs, PutPayload(d, r) PROVE Versions'
  <2>0. issued \in Nat /\ issued < MaxVersion /\ UNCHANGED <<receipt, acked>> /\ day \in Nat
    BY <1>1 DEF PutPayload, VaultTypeOK
  <2>1. CASE UNCHANGED <<issued, payload, created, until>> BY <2>0, <2>1 DEF Versions
  <2>2. CASE /\ issued' = issued + 1 /\ payload' = [payload EXCEPT ![r] = issued + 1]
             /\ created' = [created EXCEPT ![issued + 1] = day]
             /\ until' = [until EXCEPT ![issued + 1] = day + Horizon]
    <3>1. \A q \in Runs : payload'[q] <= issued' /\ receipt'[q] <= issued'
      BY <2>0, <2>2 DEF Versions, VaultTypeOK
    <3>2. ASSUME NEW v \in 1..issued' PROVE until'[v] = created'[v] + Horizon
      <4>1. v \in 1..MaxVersion BY <2>0, <2>2
      <4>2. CASE v = issued + 1 BY <4>1, <4>2, <2>2 DEF VaultTypeOK
      <4>3. CASE v # issued + 1
        <5>1. v \in 1..issued BY <4>3, <2>0, <2>2
        <5>2. until'[v] = until[v] /\ created'[v] = created[v] BY <4>1, <4>3, <2>2 DEF VaultTypeOK
        <5>3. QED BY <5>1, <5>2 DEF Versions
      <4>4. QED BY <4>2, <4>3
    <3>3. \A e \in acked' : e[2] \in 1..issued' BY <2>0, <2>2 DEF Versions
    <3>4. QED BY <3>1, <3>2, <3>3 DEF Versions
  <2>3. QED BY <1>1, <2>1, <2>2 DEF PutPayload
<1>2. ASSUME NEW d \in Deliverers,
             VerifyPayload(d) \/ PutReceipt(d) \/ ConfirmReceipt(d) \/ AbandonDelivery(d)
      PROVE Versions'
  <2>1. UNCHANGED <<payload, until, created, issued>>
    BY <1>2 DEF VerifyPayload, PutReceipt, ConfirmReceipt, AbandonDelivery, storeVars
  <2>2. del[d].pc # "idle" => del[d].version \in 1..issued BY DEF Deliveries
  <2>3. issued \in Nat /\ receipt \in [Runs -> 0..MaxVersion] BY DEF VaultTypeOK
  <2>4. \A r \in Runs : receipt'[r] <= issued
    BY <1>2, <2>2, <2>3 DEF VerifyPayload, PutReceipt, ConfirmReceipt, AbandonDelivery, storeVars,
       Versions
  <2>5. \A e \in acked' : e[2] \in 1..issued
    BY <1>2, <2>2 DEF VerifyPayload, PutReceipt, ConfirmReceipt, AbandonDelivery, Versions
  <2>6. QED BY <2>1, <2>4, <2>5 DEF Versions
<1>3. ASSUME NEW p \in Plans,
             MakePlan(p) \/ ApplyPlan(p) \/ DeletePayload(p) \/ DeleteReceipt(p) \/ CloseJournal(p)
      PROVE Versions'
  <2>1. UNCHANGED <<acked, until, created, issued>>
    BY <1>3 DEF MakePlan, ApplyPlan, DeletePayload, DeleteReceipt, CloseJournal, PlanIs, storeVars
  <2>2. \A r \in Runs : (payload'[r] = payload[r] \/ payload'[r] = 0) /\ (receipt'[r] = receipt[r] \/ receipt'[r] = 0)
    <3>1. CASE DeletePayload(p)
      <4>1. PICK e \in plan[p].todo :
              payload' = [payload EXCEPT ![e[1]] = 0] \/ UNCHANGED payload
        BY <3>1 DEF DeletePayload
      <4>2. UNCHANGED receipt BY <3>1 DEF DeletePayload
      <4>3. QED BY <4>1, <4>2 DEF VaultTypeOK
    <3>2. CASE DeleteReceipt(p) BY <3>2 DEF DeleteReceipt, VaultTypeOK
    <3>3. QED BY <1>3, <3>1, <3>2 DEF MakePlan, ApplyPlan, CloseJournal, storeVars
  <2>3. issued \in Nat BY DEF VaultTypeOK
  <2>4. QED BY <2>1, <2>2, <2>3 DEF Versions
<1>4. CASE DayPasses BY <1>4 DEF DayPasses, Versions, storeVars
<1>5. CASE UNCHANGED vaultVars BY <1>5 DEF vaultVars, storeVars, Versions
<1>6. QED BY <1>1, <1>2, <1>3, <1>4, <1>5 DEF VaultNext, Delivery, Retention

-----------------------------------------------------------------------------
LEMMA DeliveriesKept == VaultBasics /\ [VaultNext]_vaultVars => Deliveries'
<1> SUFFICES ASSUME VaultBasics, [VaultNext]_vaultVars, NEW f \in Deliverers, (del[f].pc)' # "idle"
             PROVE  /\ (del[f].run)' \in Runs /\ (del[f].version)' \in 1..issued'
                    /\ (del[f].pc)' \in {"receipt", "confirm"} =>
                         payload'[(del[f].run)'] = (del[f].version)' /\ until'[(del[f].version)'] >= day'
  BY DEF Deliveries
<1> USE RunsAreNumbers DEF VaultBasics
<1>0. issued \in Nat /\ day \in Nat BY DEF VaultTypeOK
<1>1. ASSUME NEW d \in Deliverers, NEW r \in Runs, PutPayload(d, r)
      PROVE  /\ (del[f].run)' \in Runs /\ (del[f].version)' \in 1..issued'
             /\ (del[f].pc)' \in {"receipt", "confirm"} =>
                  payload'[(del[f].run)'] = (del[f].version)' /\ until'[(del[f].version)'] >= day'
  <2>1. CASE f = d
    <3>1. PICK v : /\ del' = [del EXCEPT ![d] = [pc |-> "verify", run |-> r, version |-> v]]
                   /\ \/ v = issued + 1 /\ issued' = issued + 1
                      \/ v = payload[r] /\ payload[r] # 0 /\ issued' = issued
      BY <1>1 DEF PutPayload, Deliver
    <3>2. del'[f] = [pc |-> "verify", run |-> r, version |-> v] BY <3>1, <2>1 DEF VaultTypeOK
    <3>3. payload[r] <= issued /\ payload[r] \in Nat BY DEF Versions, VaultTypeOK
    <3>4. QED BY <3>1, <3>2, <3>3, <1>0
  <2>2. CASE f # d
    <3>1. del'[f] = del[f] BY <1>1, <2>2 DEF PutPayload, Deliver, VaultTypeOK
    <3>2. del[f].run \in Runs /\ del[f].version \in 1..issued BY <3>1 DEF Deliveries
    <3>3. issued' \in Nat /\ issued' >= issued /\ issued < MaxVersion /\ day' = day
      BY <1>1, <1>0 DEF PutPayload, DelKeeps
    <3>4. ASSUME NEW v \in 1..issued PROVE until'[v] = until[v]
      <4>1. UNCHANGED until \/ until' = [until EXCEPT ![issued + 1] = day + Horizon]
        BY <1>1 DEF PutPayload
      <4>2. v # issued + 1 /\ v \in 1..MaxVersion BY <1>0, <3>3
      <4>3. QED BY <4>1, <4>2 DEF VaultTypeOK
    <3>5. \A q \in Runs : payload[q] # 0 => payload'[q] = payload[q] BY <1>1 DEF PutPayload, VaultTypeOK
    <3>6. del[f].pc \in {"receipt", "confirm"} =>
                         payload[del[f].run] = del[f].version /\ until[del[f].version] >= day
      BY <3>1 DEF Deliveries
    <3>7. del[f].version \in 1..issued' BY <3>2, <3>3, <1>0
    <3>8. del[f].version # 0 BY <3>2, <1>0
    <3>9. QED BY <3>1, <3>2, <3>3, <3>4, <3>5, <3>6, <3>7, <3>8
  <2>3. QED BY <2>1, <2>2
<1>2. ASSUME NEW d \in Deliverers,
             VerifyPayload(d) \/ PutReceipt(d) \/ ConfirmReceipt(d) \/ AbandonDelivery(d)
      PROVE  /\ (del[f].run)' \in Runs /\ (del[f].version)' \in 1..issued'
             /\ (del[f].pc)' \in {"receipt", "confirm"} =>
                  payload'[(del[f].run)'] = (del[f].version)' /\ until'[(del[f].version)'] >= day'
  <2>1. UNCHANGED <<payload, until, issued, day>>
    BY <1>2 DEF VerifyPayload, PutReceipt, ConfirmReceipt, AbandonDelivery, storeVars, DelKeeps
  <2>2. CASE f = d
    <3>1. CASE VerifyPayload(d)
      <4>9. \/ del' = [del EXCEPT ![d] = [del[d] EXCEPT !.pc = "receipt"]]
               /\ payload[del[d].run] = del[d].version /\ until[del[d].version] >= day
            \/ del' = [del EXCEPT ![d] = Idling]
        BY <3>1 DEF VerifyPayload, Deliver
      <4>1. del'[d] = [del[d] EXCEPT !.pc = "receipt"] /\ payload[del[d].run] = del[d].version
            /\ until[del[d].version] >= day
        <5>1. ASSUME NEW x, del' = [del EXCEPT ![d] = x] PROVE del'[d] = x BY <5>1 DEF VaultTypeOK
        <5>2. del'[d] # Idling BY <2>2 DEF Idling
        <5>3. QED BY <4>9, <5>1, <5>2
      <4>2. del'[d].run = del[d].run /\ del'[d].version = del[d].version BY <4>1 DEF VaultTypeOK
      <4>3. del[d].pc # "idle" BY <3>1 DEF VerifyPayload
      <4>4. QED BY <2>1, <2>2, <4>1, <4>2, <4>3 DEF Deliveries
    <3>2. CASE PutReceipt(d)
      <4>1. del'[d] = [del[d] EXCEPT !.pc = "confirm"] /\ del[d].pc = "receipt"
        BY <3>2 DEF PutReceipt, Deliver, VaultTypeOK
      <4>2. del'[d].run = del[d].run /\ del'[d].version = del[d].version BY <4>1 DEF VaultTypeOK
      <4>3. QED BY <2>1, <2>2, <4>1, <4>2 DEF Deliveries
    <3>3. CASE ConfirmReceipt(d) \/ AbandonDelivery(d)
      BY <2>2, <3>3 DEF ConfirmReceipt, AbandonDelivery, Deliver, VaultTypeOK, Idling
    <3>4. QED BY <1>2, <3>1, <3>2, <3>3
  <2>3. CASE f # d
    <3>1. del'[f] = del[f]
      BY <1>2, <2>3 DEF VerifyPayload, PutReceipt, ConfirmReceipt, AbandonDelivery, Deliver,
         VaultTypeOK
    <3>2. QED BY <2>1, <3>1 DEF Deliveries
  <2>4. QED BY <2>2, <2>3
<1>3. ASSUME NEW p \in Plans,
             MakePlan(p) \/ ApplyPlan(p) \/ DeletePayload(p) \/ DeleteReceipt(p) \/ CloseJournal(p)
      PROVE  /\ (del[f].run)' \in Runs /\ (del[f].version)' \in 1..issued'
             /\ (del[f].pc)' \in {"receipt", "confirm"} =>
                  payload'[(del[f].run)'] = (del[f].version)' /\ until'[(del[f].version)'] >= day'
  <2>1. UNCHANGED <<del, until, issued, day>>
    BY <1>3 DEF MakePlan, ApplyPlan, DeletePayload, DeleteReceipt, CloseJournal, PlanIs, storeVars
  <2>2. CASE ~DeletePayload(p)
    <3>1. UNCHANGED payload
      BY <1>3, <2>2 DEF MakePlan, ApplyPlan, DeleteReceipt, CloseJournal, storeVars
    <3>2. QED BY <2>1, <3>1 DEF Deliveries
  <2>3. CASE DeletePayload(p)
    <3>1. PICK e \in plan[p].todo :
            /\ plan[p].pc = "payload"
            /\ \/ payload' = [payload EXCEPT ![e[1]] = 0] /\ payload[e[1]] = e[2]
               \/ UNCHANGED payload
      BY <2>3 DEF DeletePayload
    <3>2. created[e[2]] + Horizon < day /\ e[2] \in 1..issued BY <3>1 DEF Journals, Journal, Due
    <3>3. until[e[2]] < day BY <3>2 DEF Versions
    <3>4. ASSUME del[f].pc \in {"receipt", "confirm"} PROVE payload'[del[f].run] = del[f].version
      <4>1. payload[del[f].run] = del[f].version /\ until[del[f].version] >= day /\ del[f].run \in Runs
            /\ del[f].version \in 1..issued
        BY <3>4 DEF Deliveries
      <4>2. CASE UNCHANGED payload BY <4>1, <4>2
      <4>3. CASE payload' = [payload EXCEPT ![e[1]] = 0] /\ payload[e[1]] = e[2]
        <5>0. until[e[2]] \in Nat /\ e[2] \in 1..MaxVersion BY <3>2, <1>0 DEF VaultTypeOK
        <5>1. del[f].version # e[2] BY <4>1, <3>3, <1>0, <5>0
        <5>2. del[f].run # e[1] BY <4>1, <4>3, <5>1
        <5>3. QED BY <4>1, <4>3, <5>2 DEF VaultTypeOK
      <4>4. QED BY <3>1, <4>2, <4>3
    <3>5. QED BY <2>1, <3>4 DEF Deliveries
  <2>4. QED BY <2>2, <2>3
<1>4. CASE DayPasses
  <2>1. del[f].pc = "idle" /\ del' = del BY <1>4 DEF DayPasses
  <2>2. QED BY <2>1
<1>5. CASE UNCHANGED vaultVars BY <1>5 DEF vaultVars, storeVars, Deliveries
<1>6. QED BY <1>1, <1>2, <1>3, <1>4, <1>5 DEF VaultNext, Delivery, Retention

-----------------------------------------------------------------------------
(* Deleting the payload of a run of a checked plan leaves what the plan    *)
(* found: enough recoverable runs above every run that had them.           *)
Deletes(p, e) ==
  /\ plan[p].pc = "payload" /\ e \in plan[p].todo
  /\ payload[e[1]] = e[2] /\ until[e[2]] <= day
  /\ PlanIs(p, [plan[p] EXCEPT !.pc = "receipt", !.pending = e])
  /\ payload' = [payload EXCEPT ![e[1]] = 0]
  /\ UNCHANGED <<until, created, receipt, issued>>

GivesUp(p) ==
  /\ plan[p].pc = "payload"
  /\ PlanIs(p, [plan[p] EXCEPT !.pc = "closed"])
  /\ UNCHANGED storeVars

LEMMA DeletePayloadSteps ==
  ASSUME NEW p, DeletePayload(p) PROVE GivesUp(p) \/ \E e \in plan[p].todo : Deletes(p, e)
BY DEF DeletePayload, Deletes, GivesUp, storeVars

\* What a step does to the store, and to what may be recovered from it.
NoLoss == \A s \in Runs : Recoverable(s) => Recoverable(s)'

LEMMA NoLossSteps ==
  ASSUME VaultBasics, [VaultNext]_vaultVars,
         ~\E p \in Plans : \E e \in plan[p].todo : Deletes(p, e)
  PROVE  NoLoss
<1> USE DEF NoLoss, Recoverable, Catalog, Whole, VaultBasics
<1>1. ASSUME NEW d \in Deliverers, NEW r \in Runs, PutPayload(d, r) PROVE NoLoss
  BY <1>1 DEF PutPayload, VaultTypeOK
<1>2. ASSUME NEW d \in Deliverers,
             VerifyPayload(d) \/ PutReceipt(d) \/ ConfirmReceipt(d) \/ AbandonDelivery(d)
      PROVE NoLoss
  BY <1>2 DEF VerifyPayload, PutReceipt, ConfirmReceipt, AbandonDelivery, storeVars, VaultTypeOK
<1>3. ASSUME NEW p \in Plans, MakePlan(p) \/ ApplyPlan(p) \/ CloseJournal(p) PROVE NoLoss
  BY <1>3 DEF MakePlan, ApplyPlan, CloseJournal, storeVars
<1>4. ASSUME NEW p \in Plans, DeletePayload(p) PROVE NoLoss
  BY <1>4, DeletePayloadSteps DEF GivesUp, storeVars
<1>5. ASSUME NEW p \in Plans, DeleteReceipt(p) PROVE NoLoss
  <2> DEFINE e == plan[p].pending
  <2>1. plan[p].pc = "receipt" /\ receipt[e[1]] = e[2] /\ receipt' = [receipt EXCEPT ![e[1]] = 0]
        /\ UNCHANGED payload
    BY <1>5 DEF DeleteReceipt
  <2>2. e \in plan[p].todo /\ \A x \in plan[p].todo : x[2] \in 1..issued BY <2>1 DEF Journals, Journal
  <2>3. e # NoEntry BY <2>2 DEF NoEntry, VaultTypeOK
  <2>4. payload[e[1]] # e[2] BY <2>3 DEF Journals, Journal
  <2> HIDE DEF e
  <2>5. QED BY <2>1, <2>4 DEF VaultTypeOK
<1>6. CASE DayPasses BY <1>6 DEF DayPasses, storeVars
<1>7. CASE UNCHANGED vaultVars BY <1>7 DEF vaultVars, storeVars
<1>8. QED BY <1>1, <1>2, <1>3, <1>4, <1>5, <1>6, <1>7 DEF VaultNext, Delivery, Retention

LEMMA DeletesOnly ==
  ASSUME VaultBasics, NEW p \in Plans, NEW e \in plan[p].todo, Deletes(p, e)
  PROVE  /\ e[1] \in Runs /\ e[2] \in 1..issued /\ Due(e)
         /\ \A s \in Runs \ {e[1]} : Recoverable(s) <=> Recoverable(s)'
<1>1. e \in Entry BY DEF VaultBasics, VaultTypeOK
<1>2. e[1] \in Runs BY <1>1 DEF Entry
<1>3. e[2] \in 1..issued /\ Due(e) BY DEF VaultBasics, Journals, Journal, Deletes
<1>4. QED BY <1>2, <1>3 DEF Deletes, VaultBasics, VaultTypeOK, Recoverable, Catalog, Whole

LEMMA CoverKept ==
  ASSUME VaultBasics, [VaultNext]_vaultVars, NEW x \in Runs, Covered(x)
  PROVE  Covered(x)'
<1>1. CASE \E p \in Plans : \E e \in plan[p].todo : Deletes(p, e)
  <2>0. PICK p \in Plans : \E e \in plan[p].todo : Deletes(p, e) BY <1>1
  <2>1. PICK e \in plan[p].todo : Deletes(p, e) BY <2>0
  <2>2. e[1] \in Runs /\ Covered(e[1]) /\ \A s \in Runs \ {e[1]} : Recoverable(s) => Recoverable(s)'
    BY <2>1, DeletesOnly DEF Due
  <2>3. QED BY <2>2, CoverOutlives
<1>2. CASE ~\E p \in Plans : \E e \in plan[p].todo : Deletes(p, e)
  <2>1. NoLoss BY <1>2, NoLossSteps
  <2>2. QED BY <2>1, CoverGrows DEF NoLoss
<1>3. QED BY <1>1, <1>2

AgesKeptNow ==
  /\ day' \in Nat /\ day' >= day
  /\ issued' \in Nat /\ issued' >= issued
  /\ \A v \in 1..issued : created'[v] = created[v]

LEMMA AgesKept ==
  ASSUME VaultBasics, [VaultNext]_vaultVars
  PROVE  day \in Nat /\ issued \in Nat /\ AgesKeptNow
<1>0. issued \in Nat /\ issued \in 0..MaxVersion /\ day \in Nat /\ created \in [1..MaxVersion -> 0..MaxDay]
  BY DEF VaultBasics, VaultTypeOK
<1>1. ASSUME NEW d \in Deliverers, NEW r \in Runs, PutPayload(d, r) PROVE AgesKeptNow
  <2>1. issued < MaxVersion /\ UNCHANGED day BY <1>1 DEF PutPayload, DelKeeps
  <2>2. CASE payload[r] = 0
    <3>1. issued' = issued + 1 /\ created' = [created EXCEPT ![issued + 1] = day]
      BY <1>1, <2>2 DEF PutPayload
    <3>2. ASSUME NEW v \in 1..issued PROVE created'[v] = created[v]
      <4>1. v # issued + 1 /\ v \in 1..MaxVersion BY <1>0, <2>1, RunsAreNumbers
      <4>2. QED BY <3>1, <4>1, <1>0
    <3>3. QED BY <2>1, <3>1, <3>2, <1>0 DEF AgesKeptNow
  <2>3. CASE payload[r] # 0
    <3>1. UNCHANGED <<issued, created>> BY <1>1, <2>3 DEF PutPayload
    <3>2. QED BY <2>1, <3>1, <1>0 DEF AgesKeptNow
  <2>4. QED BY <2>2, <2>3
<1>2. ASSUME NEW d \in Deliverers,
             VerifyPayload(d) \/ PutReceipt(d) \/ ConfirmReceipt(d) \/ AbandonDelivery(d)
      PROVE AgesKeptNow
  <2>1. UNCHANGED <<day, issued, created>>
    BY <1>2 DEF VerifyPayload, PutReceipt, ConfirmReceipt, AbandonDelivery, storeVars, DelKeeps
  <2>2. QED BY <2>1, <1>0 DEF AgesKeptNow
<1>3. ASSUME NEW p \in Plans,
             MakePlan(p) \/ ApplyPlan(p) \/ DeletePayload(p) \/ DeleteReceipt(p) \/ CloseJournal(p)
      PROVE AgesKeptNow
  <2>1. UNCHANGED <<day, issued, created>>
    BY <1>3 DEF MakePlan, ApplyPlan, DeletePayload, DeleteReceipt, CloseJournal, PlanIs, storeVars
  <2>2. QED BY <2>1, <1>0 DEF AgesKeptNow
<1>4. CASE DayPasses
  <2>1. day' = day + 1 /\ UNCHANGED <<issued, created>> BY <1>4 DEF DayPasses, storeVars
  <2>2. QED BY <2>1, <1>0 DEF AgesKeptNow
<1>5. CASE UNCHANGED vaultVars
  <2>1. UNCHANGED <<day, issued, created>> BY <1>5 DEF vaultVars, storeVars
  <2>2. QED BY <2>1, <1>0 DEF AgesKeptNow
<1>6. QED BY <1>0, <1>1, <1>2, <1>3, <1>4, <1>5 DEF VaultNext, Delivery, Retention

LEMMA DueKept ==
  ASSUME VaultBasics, [VaultNext]_vaultVars, NEW e, e[1] \in Runs, e[2] \in 1..issued, Due(e)
  PROVE  Due(e)'
<1>1. Covered(e[1])' BY CoverKept DEF Due
<1>2. created'[e[2]] = created[e[2]] BY AgesKept DEF AgesKeptNow
<1>3. e[2] \in 1..MaxVersion BY RunsAreNumbers DEF VaultBasics, VaultTypeOK
<1>4. created[e[2]] \in Nat /\ Horizon \in Nat BY <1>3, RunsAreNumbers DEF VaultBasics, VaultTypeOK
<1>5. created[e[2]] + Horizon < day BY DEF Due
<1>6. created'[e[2]] + Horizon < day' BY <1>2, <1>4, <1>5, AgesKept DEF AgesKeptNow
<1>7. QED BY <1>1, <1>6 DEF Due

-----------------------------------------------------------------------------
(* The journals. *)

\* A journal that a step leaves alone.
LEMMA OtherJournals ==
  ASSUME VaultBasics, [VaultNext]_vaultVars, NEW q \in Plans, plan'[q] = plan[q]
  PROVE  Journal(plan[q])'
<1> DEFINE j == plan[q]
<1>0. Journal(j) BY DEF VaultBasics, Journals
<1>1. \A e \in j.todo : e[1] \in Runs /\ e[2] \in 1..issued
  BY <1>0 DEF Journal, VaultBasics, VaultTypeOK, Entry
<1>2. \A e \in j.todo : e[2] \in 1..issued' BY <1>1, AgesKept DEF AgesKeptNow
<1>3. j.pc \in {"payload", "receipt"} => \A e \in j.todo : Due(e)' BY <1>0, <1>1, DueKept DEF Journal
<1>4. ASSUME j.pending # NoEntry
      PROVE  j.pending[1] \in Runs /\ j.pending[2] \in 1..issued' /\ payload'[j.pending[1]] # j.pending[2]
  <2> DEFINE r == j.pending[1]
             v == j.pending[2]
  <2>1. r \in Runs /\ v \in 1..issued /\ payload[r] # v BY <1>0, <1>4 DEF Journal
  <2>2. v \in 1..issued' BY <2>1, AgesKept DEF AgesKeptNow
  <2>3. payload'[r] = payload[r] \/ payload'[r] = 0 \/ payload'[r] = issued + 1
    <3> HIDE DEF r, v, j
    <3>1. ASSUME NEW p \in Plans, DeletePayload(p) PROVE payload'[r] = payload[r] \/ payload'[r] = 0
      <4>1. PICK e \in plan[p].todo : payload' = [payload EXCEPT ![e[1]] = 0] \/ UNCHANGED payload
        BY <3>1 DEF DeletePayload
      <4>2. QED BY <2>1, <4>1 DEF VaultBasics, VaultTypeOK
    <3>2. ASSUME NEW d \in Deliverers, NEW s \in Runs, PutPayload(d, s)
          PROVE  payload'[r] = payload[r] \/ payload'[r] = issued + 1
      BY <3>2, <2>1 DEF PutPayload, VaultBasics, VaultTypeOK
    <3>3. ASSUME NEW d \in Deliverers,
                 VerifyPayload(d) \/ PutReceipt(d) \/ ConfirmReceipt(d) \/ AbandonDelivery(d)
          PROVE UNCHANGED payload
      BY <3>3 DEF VerifyPayload, PutReceipt, ConfirmReceipt, AbandonDelivery, storeVars
    <3>4. ASSUME NEW p \in Plans, MakePlan(p) \/ ApplyPlan(p) \/ DeleteReceipt(p) \/ CloseJournal(p)
          PROVE UNCHANGED payload
      BY <3>4 DEF MakePlan, ApplyPlan, DeleteReceipt, CloseJournal, storeVars
    <3>5. DayPasses \/ UNCHANGED vaultVars => UNCHANGED payload BY DEF DayPasses, vaultVars, storeVars
    <3>6. QED BY <3>1, <3>2, <3>3, <3>4, <3>5 DEF VaultNext, Delivery, Retention
  <2>4. v # 0 /\ v # issued + 1 BY <2>1, AgesKept
  <2>5. QED BY <2>1, <2>2, <2>3, <2>4
<1>5. j' = j OBVIOUS
<1>6. /\ \A e \in j.todo : e[2] \in 1..issued'
      /\ j.pc \in {"payload", "receipt"} => \A e \in j.todo : Due(e)'
      /\ j.pc = "receipt" => j.pending \in j.todo
      /\ j.pc \in {"unmade", "made", "payload"} => j.pending = NoEntry
      /\ j.pending # NoEntry => /\ j.pending[1] \in Runs /\ j.pending[2] \in 1..issued'
                                /\ payload'[j.pending[1]] # j.pending[2]
  BY <1>0, <1>2, <1>3, <1>4 DEF Journal
<1> HIDE DEF j
<1>7. QED BY <1>5, <1>6 DEF Journal, j

\* The journal a step writes: what of Journal does not depend on the step.
Ready(j) ==
  /\ \A e \in j.todo : e[1] \in Runs /\ e[2] \in 1..issued
  /\ j.pc \in {"payload", "receipt"} => \A e \in j.todo : Due(e)
  /\ j.pc = "receipt" => j.pending \in j.todo
  /\ j.pc \in {"unmade", "made", "payload"} => j.pending = NoEntry

Gone(e) == e # NoEntry => e[1] \in Runs /\ e[2] \in 1..issued' /\ payload'[e[1]] # e[2]

LEMMA WrittenJournal ==
  ASSUME VaultBasics, [VaultNext]_vaultVars, NEW q \in Plans, NEW j, plan'[q] = j, Ready(j), Gone(j.pending)
  PROVE  Journal(plan[q])'
<1>1. \A e \in j.todo : e[2] \in 1..issued' BY AgesKept DEF AgesKeptNow, Ready
<1>2. j.pc \in {"payload", "receipt"} => \A e \in j.todo : Due(e)' BY DueKept DEF Ready
<1>3. /\ \A e \in j.todo : e[2] \in 1..issued'
      /\ j.pc \in {"payload", "receipt"} => \A e \in j.todo : Due(e)'
      /\ j.pc = "receipt" => j.pending \in j.todo
      /\ j.pc \in {"unmade", "made", "payload"} => j.pending = NoEntry
      /\ j.pending # NoEntry => /\ j.pending[1] \in Runs /\ j.pending[2] \in 1..issued'
                                /\ payload'[j.pending[1]] # j.pending[2]
  BY <1>1, <1>2 DEF Ready, Gone
<1>4. QED BY <1>3 DEF Journal

LEMMA SelectedIssued ==
  ASSUME VaultBasics, NEW e \in Selected PROVE e[1] \in Runs /\ e[2] \in 1..issued
<1>1. PICK r \in Catalog : e = <<r, receipt[r]>> BY DEF Selected
<1>2. r \in Runs /\ receipt[r] # 0 /\ receipt[r] <= issued /\ receipt[r] \in Nat /\ issued \in Nat
  BY RunsAreNumbers DEF Catalog, VaultBasics, Versions, VaultTypeOK
<1>3. QED BY <1>1, <1>2

LEMMA JournalsKept ==
  VaultBasics /\ LossesCovered /\ [VaultNext]_vaultVars => Journals'
<1> SUFFICES ASSUME VaultBasics, LossesCovered, [VaultNext]_vaultVars, NEW q \in Plans
             PROVE  Journal(plan[q])'
  BY DEF Journals
<1> USE DEF VaultBasics
<1>1. ASSUME UNCHANGED plan PROVE Journal(plan[q])' BY <1>1, OtherJournals
<1>2. ASSUME NEW p \in Plans,
             MakePlan(p) \/ ApplyPlan(p) \/ DeletePayload(p) \/ DeleteReceipt(p) \/ CloseJournal(p)
      PROVE  Journal(plan[q])'
  <2>1. CASE q # p
    <3>1. plan'[q] = plan[q]
      BY <1>2, <2>1 DEF MakePlan, ApplyPlan, DeletePayload, DeleteReceipt, CloseJournal, PlanIs,
         VaultTypeOK
    <3>2. QED BY <3>1, OtherJournals
  <2>2. CASE q = p
    <3> DEFINE j == plan[p]
    <3>0. /\ Journal(j) /\ \A e \in j.todo : e \in Entry /\ e[1] \in Runs /\ e[2] \in 1..issued
          /\ \A x : plan' = [plan EXCEPT ![p] = x] => plan'[q] = x
      BY <2>2 DEF Journals, Journal, VaultTypeOK, Entry
    <3>9. ASSUME UNCHANGED payload PROVE Gone(j.pending)
      <4>1. j.pending # NoEntry => j.pending[2] \in 1..issued' BY <3>0, AgesKept DEF Journal, AgesKeptNow
      <4>2. QED BY <3>0, <3>9, <4>1 DEF Gone, Journal
    <3>1. CASE MakePlan(p)
      <4> DEFINE x == [pc |-> "made", at |-> day, todo |-> Selected, pending |-> NoEntry]
      <4>1. plan'[q] = x BY <3>0, <3>1 DEF MakePlan, PlanIs
      <4>2. Ready(x) BY SelectedIssued DEF Ready
      <4>3. Gone(x.pending) BY DEF Gone
      <4> HIDE DEF x
      <4>4. QED BY <4>1, <4>2, <4>3, WrittenJournal
    <3>2. CASE ApplyPlan(p)
      <4>1. PICK c \in {"payload", "closed"} :
              /\ plan' = [plan EXCEPT ![p] = [plan[p] EXCEPT !.pc = c]]
              /\ c = "payload" => plan[p].todo \subseteq Selected
        BY <3>2 DEF ApplyPlan, PlanIs
      <4> DEFINE x == [plan[p] EXCEPT !.pc = c]
      <4>2. plan'[q] = x BY <3>0, <4>1
      <4>3. x.pc = c /\ x.todo = j.todo /\ x.pending = j.pending BY DEF VaultTypeOK
      <4>4. j.pending = NoEntry BY <3>0, <3>2 DEF ApplyPlan, Journal
      <4>5. c = "payload" => \A e \in j.todo : Due(e) BY <4>1, SelectedCovered
      <4>6. Ready(x) BY <3>0, <4>3, <4>4, <4>5 DEF Ready
      <4>7. Gone(x.pending) BY <4>3, <4>4 DEF Gone
      <4> HIDE DEF x
      <4>8. QED BY <4>2, <4>6, <4>7, WrittenJournal
    <3>3. ASSUME NEW e \in plan[p].todo, Deletes(p, e) PROVE Journal(plan[q])'
      <4> DEFINE x == [plan[p] EXCEPT !.pc = "receipt", !.pending = e]
      <4>1. plan'[q] = x BY <3>0, <3>3 DEF Deletes, PlanIs
      <4>2. x.pc = "receipt" /\ x.todo = j.todo /\ x.pending = e BY DEF VaultTypeOK
      <4>3. Ready(x) BY <3>0, <3>3, <4>2 DEF Ready, Deletes, Journal
      <4>4. payload'[e[1]] = 0 /\ e[2] \in 1..issued' /\ e[2] # 0
        BY <3>0, <3>3, AgesKept DEF Deletes, VaultTypeOK, AgesKeptNow
      <4>5. Gone(x.pending) BY <3>0, <4>2, <4>4 DEF Gone
      <4> HIDE DEF x
      <4>6. QED BY <4>1, <4>3, <4>5, WrittenJournal
    <3>4. CASE GivesUp(p)
      <4> DEFINE x == [plan[p] EXCEPT !.pc = "closed"]
      <4>1. plan'[q] = x BY <3>0, <3>4 DEF GivesUp, PlanIs
      <4>2. x.pc = "closed" /\ x.todo = j.todo /\ x.pending = j.pending BY DEF VaultTypeOK
      <4>3. Ready(x) BY <3>0, <4>2 DEF Ready
      <4>4. Gone(x.pending) BY <3>4, <3>9, <4>2 DEF GivesUp, storeVars
      <4> HIDE DEF x
      <4>5. QED BY <4>1, <4>3, <4>4, WrittenJournal
    <3>5. CASE DeleteReceipt(p)
      <4> DEFINE x == [plan[p] EXCEPT !.pc = "payload", !.todo = @ \ {plan[p].pending}, !.pending = NoEntry]
      <4>1. plan'[q] = x BY <3>0, <3>5 DEF DeleteReceipt, PlanIs
      <4>2. x.pc = "payload" /\ x.todo = j.todo \ {j.pending} /\ x.pending = NoEntry BY DEF VaultTypeOK
      <4>3. \A e \in j.todo : Due(e) BY <3>0, <3>5 DEF DeleteReceipt, Journal
      <4>4. Ready(x) BY <3>0, <4>2, <4>3 DEF Ready
      <4>5. Gone(x.pending) BY <4>2 DEF Gone
      <4> HIDE DEF x
      <4>6. QED BY <4>1, <4>4, <4>5, WrittenJournal
    <3>6. CASE CloseJournal(p)
      <4> DEFINE x == [plan[p] EXCEPT !.pc = "closed", !.todo = {}]
      <4>1. plan'[q] = x BY <3>0, <3>6 DEF CloseJournal, PlanIs
      <4>2. x.pc = "closed" /\ x.todo = {} /\ x.pending = j.pending BY DEF VaultTypeOK
      <4>3. Ready(x) BY <4>2 DEF Ready
      <4>4. Gone(x.pending) BY <3>6, <3>9, <4>2 DEF CloseJournal, storeVars
      <4> HIDE DEF x
      <4>5. QED BY <4>1, <4>3, <4>4, WrittenJournal
    <3>7. QED BY <1>2, <3>1, <3>2, <3>3, <3>4, <3>5, <3>6, DeletePayloadSteps
  <2>3. QED BY <2>1, <2>2
<1>3. ASSUME NEW d \in Deliverers,
             VerifyPayload(d) \/ PutReceipt(d) \/ ConfirmReceipt(d) \/ AbandonDelivery(d) \/ \E r \in Runs : PutPayload(d, r)
      PROVE UNCHANGED plan
  BY <1>3 DEF PutPayload, VerifyPayload, PutReceipt, ConfirmReceipt, AbandonDelivery, DelKeeps
<1>4. DayPasses \/ UNCHANGED vaultVars => UNCHANGED plan BY DEF DayPasses, vaultVars
<1>5. QED BY <1>1, <1>2, <1>3, <1>4 DEF VaultNext, Delivery, Retention

-----------------------------------------------------------------------------
(* A receipt without its bundle, and the deliveries reported durable. *)

(* A receipt appears only over a whole bundle, and never changes.          *)
LEMMA NewReceiptWhole ==
  ASSUME VaultBasics, [VaultNext]_vaultVars, NEW r \in Runs, receipt[r] = 0, receipt'[r] # 0
  PROVE  Whole(r)'
<1> USE DEF VaultBasics
<1>1. PICK d \in Deliverers : PutReceipt(d)
  <2>1. UNCHANGED receipt => FALSE OBVIOUS
  <2>2. ASSUME NEW p \in Plans, DeleteReceipt(p) PROVE FALSE
    BY <2>2 DEF DeleteReceipt, VaultTypeOK
  <2>3. ASSUME NEW p \in Plans,
               MakePlan(p) \/ ApplyPlan(p) \/ DeletePayload(p) \/ CloseJournal(p)
        PROVE  FALSE
    BY <2>1, <2>3 DEF MakePlan, ApplyPlan, DeletePayload, CloseJournal, storeVars
  <2>4. ASSUME NEW d \in Deliverers,
               VerifyPayload(d) \/ ConfirmReceipt(d) \/ AbandonDelivery(d) \/ \E s \in Runs : PutPayload(d, s)
        PROVE FALSE
    BY <2>1, <2>4 DEF VerifyPayload, ConfirmReceipt, AbandonDelivery, PutPayload, storeVars
  <2>5. DayPasses \/ UNCHANGED vaultVars => FALSE BY <2>1 DEF DayPasses, vaultVars, storeVars
  <2>6. QED BY <2>2, <2>3, <2>4, <2>5 DEF VaultNext, Delivery, Retention
<1>2. /\ del[d].pc = "receipt" /\ UNCHANGED payload
      /\ receipt' = receipt \/ receipt' = [receipt EXCEPT ![del[d].run] = del[d].version]
  BY <1>1 DEF PutReceipt
<1>3. r = del[d].run /\ receipt'[r] = del[d].version BY <1>2 DEF VaultTypeOK
<1>4. payload[r] = del[d].version BY <1>2, <1>3 DEF Deliveries
<1>5. QED BY <1>2, <1>3, <1>4 DEF Whole

LEMMA ReceiptStays ==
  ASSUME VaultBasics, [VaultNext]_vaultVars, NEW r \in Runs, receipt[r] # 0, receipt'[r] # 0
  PROVE  receipt'[r] = receipt[r]
<1> USE DEF VaultBasics
<1>1. ASSUME NEW q \in Plans, DeleteReceipt(q) PROVE receipt'[r] = receipt[r]
  <2>1. PICK g : receipt' = [receipt EXCEPT ![g] = 0] BY <1>1 DEF DeleteReceipt
  <2>2. QED BY <2>1 DEF VaultTypeOK
<1>2. ASSUME NEW d \in Deliverers, PutReceipt(d) PROVE receipt'[r] = receipt[r]
  BY <1>2 DEF PutReceipt, VaultTypeOK
<1>3. ASSUME NEW q \in Plans, MakePlan(q) \/ ApplyPlan(q) \/ DeletePayload(q) \/ CloseJournal(q)
      PROVE  UNCHANGED receipt
  BY <1>3 DEF MakePlan, ApplyPlan, DeletePayload, CloseJournal, storeVars
<1>4. ASSUME NEW d \in Deliverers,
             VerifyPayload(d) \/ ConfirmReceipt(d) \/ AbandonDelivery(d) \/ \E s \in Runs : PutPayload(d, s)
      PROVE UNCHANGED receipt
  BY <1>4 DEF VerifyPayload, ConfirmReceipt, AbandonDelivery, PutPayload, storeVars
<1>5. DayPasses \/ UNCHANGED vaultVars => UNCHANGED receipt BY DEF DayPasses, vaultVars, storeVars
<1>6. QED BY <1>1, <1>2, <1>3, <1>4, <1>5 DEF VaultNext, Delivery, Retention

LEMMA LossesKept ==
  VaultBasics /\ LossesCovered /\ [VaultNext]_vaultVars => LossesCovered'
<1> SUFFICES ASSUME VaultBasics, LossesCovered, [VaultNext]_vaultVars, NEW r \in Runs,
                    receipt'[r] # 0, ~Whole(r)'
             PROVE  Covered(r)'
  BY DEF LossesCovered, Catalog
<1> USE DEF VaultBasics
<1>1. CASE r \in Catalog /\ ~Whole(r)
  BY <1>1, CoverKept DEF LossesCovered
<1>2. CASE Whole(r) /\ r \in Catalog
  <2>1. PICK p \in Plans : \E e \in plan[p].todo : Deletes(p, e)
    BY <1>2, NoLossSteps DEF NoLoss, Recoverable
  <2>2. PICK e \in plan[p].todo : Deletes(p, e) BY <2>1
  <2>3. e[1] = r BY <1>2, <2>2, DeletesOnly DEF Recoverable
  <2>4. Covered(r) BY <2>2, <2>3, DeletesOnly DEF Due
  <2>5. QED BY <2>4, CoverKept
<1>3. CASE r \notin Catalog
  BY <1>3, NewReceiptWhole DEF Catalog
<1>4. QED BY <1>1, <1>2, <1>3

LEMMA JournaledKept ==
  VaultBasics /\ LossJournaled /\ [VaultNext]_vaultVars => LossJournaled'
<1> SUFFICES ASSUME VaultBasics, LossJournaled, [VaultNext]_vaultVars, NEW r \in Runs,
                    receipt'[r] # 0, ~Whole(r)'
             PROVE  \E p \in Plans : plan'[p].pending = <<r, receipt'[r]>>
  BY DEF LossJournaled, Catalog
<1> USE DEF VaultBasics
<1>1. CASE Whole(r) /\ r \in Catalog
  <2>1. PICK p \in Plans : \E e \in plan[p].todo : Deletes(p, e)
    BY <1>1, NoLossSteps DEF NoLoss, Recoverable
  <2>2. PICK e \in plan[p].todo : Deletes(p, e) BY <2>1
  <2>3. e[1] = r /\ payload[r] = e[2] BY <1>1, <2>2, DeletesOnly DEF Recoverable, Deletes
  <2>4. e = <<r, receipt[r]>> /\ UNCHANGED receipt
    <3>1. e \in Entry BY DEF VaultTypeOK
    <3>2. e = <<e[1], e[2]>> BY <3>1 DEF Entry
    <3>3. QED BY <1>1, <2>2, <2>3, <3>2 DEF Whole, Deletes
  <2>5. plan'[p].pending = e BY <2>2 DEF Deletes, PlanIs, VaultTypeOK
  <2>6. QED BY <2>4, <2>5
<1>2. CASE r \in Catalog /\ ~Whole(r)
  <2>1. PICK p \in Plans : plan[p].pending = <<r, receipt[r]>> BY <1>2 DEF LossJournaled
  <2>2. receipt[r] # 0 /\ plan[p].pending # NoEntry BY <1>2, <2>1 DEF Catalog, NoEntry
  <2>3. plan[p].pc \notin {"unmade", "made", "payload"} BY <2>2 DEF Journals, Journal
  <2>4. receipt'[r] = receipt[r] BY <2>2, ReceiptStays
  <2>5. ASSUME NEW q \in Plans, MakePlan(q) \/ ApplyPlan(q) \/ DeletePayload(q)
        PROVE  plan'[p].pending = plan[p].pending
    <3>1. q # p BY <2>3, <2>5 DEF MakePlan, ApplyPlan, DeletePayload
    <3>2. plan'[p] = plan[p]
      BY <2>5, <3>1 DEF MakePlan, ApplyPlan, DeletePayload, PlanIs, VaultTypeOK
    <3>3. QED BY <3>2
  <2>6. ASSUME NEW q \in Plans, CloseJournal(q) PROVE plan'[p].pending = plan[p].pending
    BY <2>6 DEF CloseJournal, PlanIs, VaultTypeOK
  <2>7. ASSUME NEW q \in Plans, DeleteReceipt(q) PROVE plan'[p].pending = plan[p].pending
    <3> DEFINE e == plan[q].pending
    <3>1. receipt' = [receipt EXCEPT ![e[1]] = 0]
          /\ plan' = [plan EXCEPT ![q] = [plan[q] EXCEPT !.pc = "payload", !.todo = @ \ {e}, !.pending = NoEntry]]
      BY <2>7 DEF DeleteReceipt, PlanIs
    <3>2. receipt'[r] # 0 OBVIOUS
    <3>3. e[1] # r
      <4> HIDE DEF e
      <4>1. QED BY <3>1, <3>2 DEF VaultTypeOK
    <3>4. q # p BY <2>1, <3>3
    <3> HIDE DEF e
    <3>5. QED BY <3>1, <3>4 DEF VaultTypeOK
  <2>8. ASSUME NEW d \in Deliverers,
               VerifyPayload(d) \/ PutReceipt(d) \/ ConfirmReceipt(d) \/ AbandonDelivery(d)
               \/ \E s \in Runs : PutPayload(d, s)
        PROVE UNCHANGED plan
    BY <2>8 DEF VerifyPayload, PutReceipt, ConfirmReceipt, AbandonDelivery, PutPayload, DelKeeps
  <2>9. DayPasses \/ UNCHANGED vaultVars => UNCHANGED plan BY DEF DayPasses, vaultVars
  <2>10. plan'[p].pending = plan[p].pending
    BY <2>5, <2>6, <2>7, <2>8, <2>9 DEF VaultNext, Delivery, Retention
  <2>11. QED BY <2>1, <2>4, <2>10
<1>3. CASE r \notin Catalog
  BY <1>3, NewReceiptWhole DEF Catalog
<1>4. QED BY <1>1, <1>2, <1>3

Kept(e) ==
  \/ Recoverable(e[1]) /\ receipt[e[1]] = e[2]
  \/ created[e[2]] + Horizon < day /\ Covered(e[1])

LEMMA DurableIsKept == DurableKept <=> VaultTypeOK /\ \A e \in acked : Kept(e)
BY DEF DurableKept, Kept, Covered

LEMMA KeptKept ==
  ASSUME VaultBasics, [VaultNext]_vaultVars, NEW e \in Entry, e[2] \in 1..issued, Kept(e)
  PROVE  Kept(e)'
<1>0. e[1] \in Runs BY DEF Entry
<1>1. CASE created[e[2]] + Horizon < day /\ Covered(e[1])
  <2>1. Due(e)' BY <1>0, <1>1, DueKept DEF Due
  <2>2. QED BY <2>1 DEF Due, Kept
<1>2. CASE Recoverable(e[1]) /\ receipt[e[1]] = e[2]
  <2>1. CASE \E p \in Plans : \E x \in plan[p].todo : Deletes(p, x) /\ x[1] = e[1]
    <3>1. PICK p \in Plans : \E x \in plan[p].todo : Deletes(p, x) /\ x[1] = e[1] BY <2>1
    <3>2. PICK x \in plan[p].todo : Deletes(p, x) /\ x[1] = e[1] BY <3>1
    <3>3. x[2] = e[2] BY <1>2, <3>2 DEF Deletes, Recoverable, Whole
    <3>4. Due(e) BY <3>2, <3>3, DeletesOnly DEF Due
    <3>5. Due(e)' BY <1>0, <3>4, DueKept
    <3>6. QED BY <3>5 DEF Due, Kept
  <2>2. CASE ~\E p \in Plans : \E x \in plan[p].todo : Deletes(p, x) /\ x[1] = e[1]
    <3>1. Recoverable(e[1])'
      <4>1. CASE \E p \in Plans : \E x \in plan[p].todo : Deletes(p, x)
        <5>1. PICK p \in Plans : \E x \in plan[p].todo : Deletes(p, x) BY <4>1
        <5>2. PICK x \in plan[p].todo : Deletes(p, x) BY <5>1
        <5>3. x[1] # e[1] BY <2>2, <5>2
        <5>4. QED BY <1>0, <1>2, <5>2, <5>3, DeletesOnly
      <4>2. CASE ~\E p \in Plans : \E x \in plan[p].todo : Deletes(p, x)
        BY <1>0, <1>2, <4>2, NoLossSteps DEF NoLoss
      <4>3. QED BY <4>1, <4>2
    <3>2. receipt'[e[1]] = e[2] BY <1>0, <1>2, <3>1, ReceiptStays DEF Recoverable, Catalog
    <3>3. QED BY <3>1, <3>2 DEF Kept
  <2>3. QED BY <2>1, <2>2
<1>3. QED BY <1>1, <1>2 DEF Kept

LEMMA DurablesKept ==
  VaultBasics /\ DurableKept /\ [VaultNext]_vaultVars => DurableKept'
<1> SUFFICES ASSUME VaultBasics, DurableKept, [VaultNext]_vaultVars PROVE DurableKept'
  OBVIOUS
<1>1. VaultTypeOK' BY VaultTypesKept DEF VaultBasics
<1>2. ASSUME NEW e \in acked PROVE Kept(e)'
  <2>1. e \in Entry /\ e[2] \in 1..issued BY DEF VaultBasics, VaultTypeOK, Versions
  <2>2. Kept(e) BY DurableIsKept
  <2>3. QED BY <2>1, <2>2, KeptKept
<1>3. ASSUME NEW e \in acked', e \notin acked PROVE Kept(e)'
  <2>1. PICK d \in Deliverers : ConfirmReceipt(d)
    <3>1. UNCHANGED acked => FALSE BY <1>3
    <3>2. ASSUME NEW d \in Deliverers,
                 VerifyPayload(d) \/ PutReceipt(d) \/ AbandonDelivery(d) \/ \E s \in Runs : PutPayload(d, s)
          PROVE FALSE
      BY <3>1, <3>2 DEF VerifyPayload, PutReceipt, AbandonDelivery, PutPayload
    <3>3. ASSUME NEW p \in Plans,
                 MakePlan(p) \/ ApplyPlan(p) \/ DeletePayload(p) \/ DeleteReceipt(p) \/ CloseJournal(p)
          PROVE FALSE
      BY <3>1, <3>3 DEF MakePlan, ApplyPlan, DeletePayload, DeleteReceipt, CloseJournal, PlanIs
    <3>4. DayPasses \/ UNCHANGED vaultVars => FALSE BY <3>1 DEF DayPasses, vaultVars
    <3>5. QED BY <3>2, <3>3, <3>4 DEF VaultNext, Delivery, Retention
  <2> DEFINE r == del[d].run
             v == del[d].version
  <2>2. del[d].pc = "confirm" /\ e = <<r, v>> /\ receipt[r] = v /\ UNCHANGED storeVars
    BY <1>3, <2>1 DEF ConfirmReceipt
  <2>3. r \in Runs /\ v \in 1..issued /\ payload[r] = v BY <2>2 DEF VaultBasics, Deliveries
  <2>4. v # 0 BY <2>3 DEF VaultBasics, VaultTypeOK
  <2>5. receipt'[r] = v /\ payload'[r] = v BY <2>2, <2>3 DEF storeVars
  <2>6. e[1] = r /\ e[2] = v BY <2>2
  <2> HIDE DEF r, v
  <2>7. QED BY <2>3, <2>4, <2>5, <2>6 DEF Kept, Recoverable, Catalog, Whole
<1>4. DurableKept' <=> VaultTypeOK' /\ \A e \in acked' : Kept(e)' BY DEF DurableKept, Kept, Covered
<1>5. QED BY <1>1, <1>2, <1>3, <1>4

-----------------------------------------------------------------------------
(* The inductive invariant of the store, for any number of captures,       *)
(* deliveries, plans and days, and every policy of retention.              *)
THEOREM VaultInvariant == VaultSpec => []VaultInv
<1>1. VaultInv /\ [VaultNext]_vaultVars => VaultInv'
  <2> SUFFICES ASSUME VaultInv, [VaultNext]_vaultVars PROVE VaultInv' OBVIOUS
  <2>1. VaultBasics /\ LossesCovered /\ LossJournaled /\ DurableKept BY DEF VaultInv
  <2>2. VaultTypeOK' BY <2>1, VaultTypesKept
  <2>3. QED
    BY <2>1, <2>2, VersionsKept, DeliveriesKept, JournalsKept, LossesKept, JournaledKept,
       DurablesKept
    DEF VaultInv, VaultBasics
<1>2. QED BY VaultInitHolds, <1>1, PTL DEF VaultSpec

(* What a delivery reported durable is there until its horizon has passed, *)
(* and goes only while keep_minimum later captures can be restored         *)
(* (deliver, retention_plan and retention_apply together).                 *)
THEOREM DurableStaysKept == VaultSpec => []DurableKept
<1>1. VaultInv => DurableKept BY DEF VaultInv
<1>2. QED BY VaultInvariant, <1>1, PTL

(* Wherever retention is killed, the receipt of a bundle that is gone is   *)
(* the entry its journal left pending (retention_apply).                   *)
THEOREM LossesStayJournaled == VaultSpec => []LossJournaled
<1>1. VaultInv => LossJournaled BY DEF VaultInv
<1>2. QED BY VaultInvariant, <1>1, PTL

-----------------------------------------------------------------------------
(***************************************************************************)
(* Hosted processes: the capture of a running server and the restore       *)
(* drill, then the daily cycle of captures, deliveries and retention.      *)
(***************************************************************************)
(* The capture: the shape of its state.                                    *)
PauseBasics == PauseTypeOK /\ (pause \notin Paused => halted = {})

(* While the bundle is made the server has either stood still since it was *)
(* confirmed stopped, or its master has run or gone since; a master that   *)
(* has run is never stopped again in this pause, so the last check sees it.*)
Disturbed == Master \notin group \/ ~stopped[Master]

(* No request in flight holds a file of the bundle.                        *)
Paired ==
  /\ rows = files \cap committed /\ files \subseteq fs
  /\ \A p \in Procs : tx[p] # NoAttachment => tx[p] \notin files

TxInGroup == \A p \in Procs : tx[p] # NoAttachment => p \in group

BundleMade ==
  /\ pause \in {"dump", "copy", "check"} /\ ~Disturbed => group = known /\ AllStopped
  /\ pause \in {"copy", "check"} /\ ~Disturbed => rows = committed /\ Idle
  /\ pause = "check" /\ ~Disturbed => files = fs /\ committed \subseteq fs
  /\ pause = "leave" /\ Master \in group => Paired
  /\ pause \in {"kept", "done"} => Paired

PauseInv ==
  /\ PauseBasics /\ TxInGroup /\ (pause \in Paused => Master \in known)
  /\ BundleMade

LEMMA ServerBasics ==
  ASSUME PauseBasics, Requests \/ ServerExits \/ RestartServer
  PROVE  PauseBasics'
<1> USE DEF PauseBasics, PauseTypeOK, hostVars, pauseVars
<1>1. ASSUME NEW p \in Procs, StoreFile(p) \/ CommitRow(p) PROVE PauseBasics'
  BY <1>1 DEF StoreFile, CommitRow
<1>2. ASSUME NEW p \in Procs, ForkWorker(p) \/ RetireWorker(p) PROVE PauseBasics'
  BY <1>2 DEF ForkWorker, RetireWorker
<1>3. CASE ServerExits \/ RestartServer
  BY <1>3 DEF ServerExits, RestartServer, Procs
<1>4. QED
  BY <1>1, <1>2, <1>3 DEF Requests

LEMMA CapturerBasics ==
  ASSUME PauseBasics, Capturer \/ DeadlinePasses \/ BeginPause
  PROVE  PauseBasics'
<1> USE DEF PauseBasics, PauseTypeOK, hostVars, GoTo, Keep, Paused, Steps
<1>1. CASE Enter \/ ClearToStop \/ DeadlinePasses \/ BeginPause
  BY <1>1 DEF Enter, ClearToStop, DeadlinePasses, BeginPause
<1>2. CASE SendStop
  BY <1>2 DEF SendStop, NextToStop
<1>3. CASE Confirm \/ DumpDatabase \/ CopyFilestore \/ CheckStillStopped
  BY <1>3 DEF Confirm, DumpDatabase, CopyFilestore, CheckStillStopped
<1>4. CASE LeavePause \/ ReleaseLocks
  BY <1>4 DEF LeavePause, ReleaseLocks, Resumed
<1>5. QED
  BY <1>1, <1>2, <1>3, <1>4 DEF Capturer

LEMMA GoneBasics ==
  ASSUME PauseBasics, CapturerGone
  PROVE  PauseBasics'
BY DEF PauseBasics, PauseTypeOK, hostVars, Keep, Paused, Steps, CapturerGone

LEMMA WatchdogBasics ==
  ASSUME PauseBasics, Watchdog
  PROVE  PauseBasics'
<1> USE DEF PauseBasics, PauseTypeOK, hostVars, pauseVars
<1>1. CASE WatchdogFires \/ WatchdogUndoesLateStop
  BY <1>1 DEF WatchdogFires, WatchdogUndoesLateStop, Resumed
<1>2. CASE WatchdogEnds
  BY <1>2 DEF WatchdogEnds, Resumed
<1>3. QED
  BY <1>1, <1>2 DEF Watchdog

(* The bundle, step by step.                                               *)
LEMMA ServerKeeps ==
  ASSUME PauseInv, Requests \/ ServerExits \/ RestartServer
  PROVE  PauseInv'
<1>1. PauseBasics'
  BY ServerBasics DEF PauseInv
<1> USE DEF PauseInv, PauseBasics, PauseTypeOK, pauseVars, TxInGroup, BundleMade, Disturbed, Paired,
            Idle, AllStopped, Running, Procs
<1>2. ASSUME NEW p \in Procs, StoreFile(p) PROVE PauseInv'
  BY <1>1, <1>2 DEF StoreFile
<1>3. ASSUME NEW p \in Procs, CommitRow(p) PROVE PauseInv'
  BY <1>1, <1>3 DEF CommitRow
<1>4. ASSUME NEW p \in Procs, ForkWorker(p) PROVE PauseInv'
  BY <1>1, <1>4 DEF ForkWorker
<1>5. ASSUME NEW p \in Procs, RetireWorker(p) PROVE PauseInv'
  BY <1>1, <1>5 DEF RetireWorker
<1>6. CASE ServerExits
  BY <1>1, <1>6 DEF ServerExits
<1>7. CASE RestartServer
  BY <1>1, <1>7 DEF RestartServer, Paused
<1>8. QED
  BY <1>2, <1>3, <1>4, <1>5, <1>6, <1>7 DEF Requests

LEMMA CapturerKeeps ==
  ASSUME PauseInv, Capturer \/ DeadlinePasses \/ BeginPause \/ KillCapturer
  PROVE  PauseInv'
<1>1. PauseBasics'
  BY CapturerBasics, GoneBasics DEF PauseInv, KillCapturer
<1> USE <1>1 DEF PauseInv, TxInGroup, BundleMade, GoTo, Keep, hostVars, Paused
<1>2. CASE Enter
  BY <1>2 DEF Enter
<1>3. CASE ClearToStop
  BY <1>3 DEF ClearToStop
<1>4. CASE SendStop
  BY <1>4 DEF SendStop
<1>5. CASE Confirm
  BY <1>5 DEF Confirm, AllStopped
<1>6. CASE DumpDatabase
  BY <1>6 DEF DumpDatabase, Disturbed, AllStopped, Idle
<1>7. CASE CopyFilestore
  BY <1>7 DEF CopyFilestore, Disturbed, AllStopped, Idle
<1>8. CASE CheckStillStopped
  BY <1>8 DEF CheckStillStopped, Disturbed, AllStopped, Idle, Paired
<1>9. CASE LeavePause
  BY <1>9 DEF LeavePause, Paired
<1>10. CASE ReleaseLocks
  BY <1>10 DEF ReleaseLocks, Paired
<1>11. CASE DeadlinePasses
  BY <1>11 DEF DeadlinePasses, Disturbed, AllStopped, Idle, Paired
<1>12. CASE BeginPause
  BY <1>12 DEF BeginPause
<1>13. CASE KillCapturer
  BY <1>13 DEF KillCapturer, CapturerGone
<1>14. QED
  BY <1>2, <1>3, <1>4, <1>5, <1>6, <1>7, <1>8, <1>9, <1>10, <1>11, <1>12, <1>13 DEF Capturer

LEMMA WatchdogKeeps ==
  ASSUME PauseInv, Watchdog
  PROVE  PauseInv'
<1>1. PauseBasics'
  BY WatchdogBasics DEF PauseInv
<1> USE <1>1 DEF PauseInv, PauseBasics, PauseTypeOK, TxInGroup, BundleMade, hostVars, pauseVars,
                 Disturbed, AllStopped, Idle, Paired, Resumed, Procs
<1>2. CASE WatchdogFires \/ WatchdogUndoesLateStop
  BY <1>2 DEF WatchdogFires, WatchdogUndoesLateStop, Paused
<1>3. CASE WatchdogEnds
  BY <1>3 DEF WatchdogEnds, Paused
<1>4. QED
  BY <1>2, <1>3 DEF Watchdog

LEMMA PauseStutters ==
  ASSUME PauseInv, UNCHANGED wpVars
  PROVE  PauseInv'
BY DEF PauseInv, PauseBasics, PauseTypeOK, TxInGroup, BundleMade, Disturbed, Paired, AllStopped,
   Idle,
       wpVars, hostVars, pauseVars

(* The drill: who is running at which stage, and what a judgement rests on.*)
DrillInv ==
  /\ DrillTypeOK
  /\ stage \in {"fetch", "prepared", "ended", "verified"} => alive \cap {"guard", "restore"} = {}
  /\ stage \notin {"loading", "probing", "failed"} => alive \cap {"keeper", "tool"} = {}
  /\ judged = "verified" => stage \in {"results", "ended", "verified", "failed"}
  /\ judged = "verified" /\ stage # "failed" => target = "captured" /\ ~jobs
  /\ stage = "verified" => judged = "verified"

LEMMA DrillKeeps ==
  ASSUME KillsAssumption, DrillInv, DrillNext
  PROVE  DrillInv'
<1> USE KillsAssumption DEF DrillInv, DrillTypeOK, Processes, Stages, Over, Data
<1>1. CASE FetchBundle \/ RunRestore
  BY <1>1 DEF FetchBundle, RunRestore
<1>2. CASE ReadResults
  BY <1>2 DEF ReadResults
<1>3. CASE CreateTarget
  BY <1>3 DEF CreateTarget, RestoreStep
<1>4. CASE RestoreFails
  BY <1>4 DEF RestoreFails
<1>5. CASE RestoreEnds
  BY <1>5 DEF RestoreEnds
<1>6. CASE RunTool("load", "loading") \/ RunTool("probe", "probing")
  BY <1>6 DEF RunTool, RestoreStep
<1>7. CASE ToolSucceeded("loading", "compare") \/ ToolSucceeded("probing", "recheck")
  BY <1>7 DEF ToolSucceeded, RestoreStep
<1>8. CASE CompareAndNeutralize
  BY <1>8 DEF CompareAndNeutralize, RestoreStep
<1>9. CASE Recheck
  BY <1>9 DEF Recheck, RestoreStep, Conserved
<1>10. CASE Tool
  BY <1>10 DEF Tool, LoadCommits, ProbeWrites, ProbeEnds
<1>11. CASE Watchers
  <2>1. alive' \subseteq alive /\ UNCHANGED <<stage, target, jobs, judged, kills>>
    BY <1>11 DEF Watchers, GuardActs, KeeperActs
  <2>2. QED
    BY <2>1
<1>12. ASSUME NEW p \in Processes, Kill(p) PROVE DrillInv'
  <2>1. alive' \subseteq alive /\ kills' \in 0 .. MaxKills
    BY <1>12 DEF Kill
  <2>2. QED
    BY <1>12, <2>1 DEF Kill
<1>13. QED
  BY <1>1, <1>2, <1>3, <1>4, <1>5, <1>6, <1>7, <1>8, <1>9, <1>10, <1>11, <1>12
     DEF DrillNext, Drill, Restore

LEMMA DrillStutters ==
  ASSUME DrillInv, UNCHANGED drillVars
  PROVE  DrillInv'
BY DEF DrillInv, DrillTypeOK, drillVars

LEMMA HostedStarts ==
  ASSUME KillsAssumption, HostedInit
  PROVE  PauseInv /\ DrillInv
<1>1. PauseInv
  BY DEF HostedInit, InitPause, PauseInv, PauseBasics, PauseTypeOK, TxInGroup, BundleMade, Procs,
         Steps, Paused
<1>2. DrillInv
  <2>1. DrillInit({}) \/ DrillInit({"drill"})
    BY DEF HostedInit
  <2>2. /\ alive \subseteq {"drill"} /\ stage = "fetch" /\ kills = 0
        /\ target = "absent" /\ jobs = FALSE /\ judged = "none"
    BY <2>1 DEF DrillInit
  <2>3. kills \in 0 .. MaxKills
    BY <2>2, KillsAssumption
  <2>4. DrillTypeOK
    BY <2>2, <2>3 DEF DrillTypeOK, Processes, Stages
  <2>5. QED
    BY <2>2, <2>4 DEF DrillInv
<1>3. QED
  BY <1>1, <1>2

LEMMA HostedKeeps ==
  ASSUME KillsAssumption, PauseInv, DrillInv, [HostedNext]_hostedVars
  PROVE  PauseInv' /\ DrillInv'
<1>1. CASE CaptureRuns(PauseNext)
  BY <1>1, ServerKeeps, CapturerKeeps, WatchdogKeeps, DrillStutters DEF CaptureRuns, PauseNext
<1>2. CASE DrillRuns(DrillNext)
  BY <1>2, DrillKeeps, PauseStutters DEF DrillRuns
<1>3. CASE UNCHANGED hostedVars
  BY <1>3, PauseStutters, DrillStutters DEF hostedVars
<1>4. QED
  BY <1>1, <1>2, <1>3 DEF HostedNext

(* A bundle that is kept is paired, for any number of workers and          *)
(* attachments: between the confirmation that the server stands still and  *)
(* the last check its master has not run, or the check sees that it has.   *)
THEOREM KeptBundlesPaired == HostedSpec => []BundlePaired
<1>1. PauseInv => BundlePaired
  BY DEF PauseInv, PauseBasics, BundleMade, Paired, BundlePaired
<1>2. QED
  BY <1>1, HostedStarts, HostedKeeps, KillsAssumption, PTL DEF HostedSpec

(* A drill says verified only of the captured accounting, with no job and  *)
(* no process of its own left to change it, whatever is killed.            *)
THEOREM VerifiedDrillsCaptured == HostedSpec => []VerifiedIsCaptured
<1>1. DrillInv => VerifiedIsCaptured
  BY DEF DrillInv, DrillTypeOK, Processes, VerifiedIsCaptured
<1>2. QED
  BY <1>1, HostedStarts, HostedKeeps, KillsAssumption, PTL DEF HostedSpec

-----------------------------------------------------------------------------
(* The daily cycle.  A run that has an object, a receipt or the place of   *)
(* the last success has uploaded.                                          *)
Uploaded(r) == r \in 1 .. run /\ (phase \in {"snapshot", "upload"} => r # run)

CaptureRests == phase # "snapshot" => pause \in {"off", "done", "failed"}

CycleShape == CycleTypeOK /\ PauseBasics /\ CaptureRests /\ cycleDay <= MaxCycleDay

RunOrder ==
  /\ phase # "none" => run # 0
  /\ phase \in {"receipt", "status", "prune", "ack"} => run \in object
  /\ phase \in {"status", "prune", "ack"} => run \in receipted
  /\ \A r \in object \cup receipted : Uploaded(r)
  /\ local.success # 0 => Uploaded(local.success)

RunDates ==
  /\ \A r \in Runs0 : taken[r] <= cycleDay
  /\ \A r \in object : taken[r] <= at[r]
  /\ local.success # 0 => taken[local.success] <= at[local.success]

(* Only what has expired goes, and never the run just delivered, which is  *)
(* the one the status names by then.                                       *)
Pruning ==
  /\ pruning # 0 => phase = "prune" /\ pruning # run /\ Expired(pruning)
  /\ phase \in {"prune", "ack"} /\ remote.kind = "success" => remote.run = run
  /\ remote.kind = "success" => remote.run \in receipted \cap object
  /\ local.success # 0 => local.success \in receipted \cap object \/ Expired(local.success)
  /\ \A r \in receipted : r \in object \/ Expired(r)

CycleInv == CycleShape /\ RunOrder /\ RunDates /\ Pruning

LEMMA CyclePauseBasics ==
  ASSUME PauseBasics, CaptureRests, CycleNext
  PROVE  PauseBasics' /\ CaptureRests'
<1> USE DEF CaptureRests
<1>1. UNCHANGED wpVars => PauseBasics' /\ pause' = pause
  BY DEF wpVars, hostVars, pauseVars, PauseBasics, PauseTypeOK
<1>2. CASE Wake \/ AttemptRefused \/ RestartScheduler \/ SchedulerDies \/ NextMorning \/ MonitorAlerts
  BY <1>1, <1>2 DEF Wake, AttemptRefused, RestartScheduler, SchedulerDies, NextMorning,
                    MonitorAlerts, runVars
<1>3. CASE SealBundle \/ Fail
  BY <1>1, <1>3 DEF SealBundle, Fail, Delivering
<1>4. CASE Upload \/ WriteReceipt \/ WriteStatus \/ PruneObject \/ PruneReceipt \/ PruneDone
  BY <1>1, <1>4 DEF Upload, WriteReceipt, WriteStatus, PruneObject, PruneReceipt, PruneDone,
     DeliveryStep
<1>5. CASE Succeed \/ Alert \/ CaptureKilled
  <2>1. CapturerGone
    BY <1>5 DEF Succeed, Alert, CaptureKilled
  <2>2. QED
    BY <2>1, GoneBasics DEF CapturerGone
<1>6. CASE Capturer /\ UNCHANGED <<cycleDay, schedVars, runVars, local, remoteVars, deaths>>
  <2>1. pause \notin {"off", "done", "failed"}
    BY <1>6 DEF Capturer, Enter, ClearToStop, SendStop, Confirm, DumpDatabase, CopyFilestore,
                CheckStillStopped, LeavePause, ReleaseLocks
  <2>2. phase' = phase
    BY <1>6 DEF runVars
  <2>3. QED
    BY <1>6, <2>1, <2>2, CapturerBasics
<1>7. CASE HostSteps
  <2>1. PauseBasics'
    BY <1>7, CapturerBasics, ServerBasics DEF HostSteps
  <2>2. pause' = pause
    BY <1>7 DEF HostSteps, ServerExits, DeadlinePasses, Requests, StoreFile, CommitRow, ForkWorker,
                RetireWorker, pauseVars, Keep
  <2>3. QED
    BY <1>7, <2>1, <2>2 DEF HostSteps, HostKeeps, runVars
<1>8. CASE WatchdogSteps
  <2>1. PauseBasics' /\ pause' = pause
    BY <1>8, WatchdogBasics DEF WatchdogSteps, Watchdog, WatchdogFires, WatchdogUndoesLateStop,
                                WatchdogEnds, pauseVars
  <2>2. QED
    BY <1>8, <2>1 DEF WatchdogSteps, HostKeeps, runVars
<1>9. CASE ReapScheduler
  BY <1>9 DEF ReapScheduler, Interrupted, GoTo, hostVars, PauseBasics, PauseTypeOK, Paused, Steps
<1>10. CASE ScheduledCapture \/ OperatorCapture
  BY <1>10 DEF ScheduledCapture, OperatorCapture, BeginCapture, LockFree, hostVars, PauseBasics,
               PauseTypeOK, Paused, Steps
<1>11. CASE RestartContainer
  BY <1>11 DEF RestartContainer, PauseBasics, PauseTypeOK, Paused, Steps, Procs
<1>12. QED
  BY <1>2, <1>3, <1>4, <1>5, <1>6, <1>7, <1>8, <1>9, <1>10, <1>11
     DEF CycleNext, SchedulerSteps, Supervise, CaptureSteps

(* The fields of the records are what the actions name.                    *)
CycleFields ==
  /\ cycleDay \in 0 .. MaxCycleDay /\ dueDay \in Days /\ attempt \in 0 .. Attempts
  /\ sched \in {"waiting", "attempt", "running", "dead", "backoff"}
  /\ phase \in {"none", "snapshot", "failed"} \cup Delivering
  /\ owner \in {"none", "scheduler", "operator"} /\ run \in Runs0
  /\ taken \in [Runs0 -> Days] /\ at \in [Runs0 -> Days]
  /\ local \in [status : {"none", "running", "success", "failed"}, success : Runs0]
  /\ remote \in [kind : {"none", "success", "attention"}, run : Runs0]
  /\ object \subseteq Runs0 /\ receipted \subseteq Runs0
  /\ pruning \in Runs0 /\ deaths \in 0 .. MaxDeaths

LEMMA ShapeFields ==
  ASSUME BackupAssumption
  PROVE  CycleShape <=> CycleFields /\ PauseBasics /\ CaptureRests
<1>1. cycleDay \in Days /\ cycleDay <= MaxCycleDay <=> cycleDay \in 0 .. MaxCycleDay
  BY BackupAssumption DEF Days
<1>2. QED
  BY <1>1 DEF CycleShape, CycleTypeOK, CycleFields, PauseBasics

LEMMA AttemptTyped ==
  ASSUME BackupAssumption, CycleFields, NEW done \in BOOLEAN, Attempted(done) \/ NextDay
  PROVE  /\ dueDay' \in Days /\ attempt' \in 0 .. Attempts
         /\ sched' \in {"waiting", "attempt"}
<1>1. cycleDay + 1 \in Days
  BY BackupAssumption DEF CycleFields, Days
<1>2. attempt # Attempts => attempt + 1 \in 0 .. Attempts
  BY BackupAssumption DEF CycleFields
<1>3. 0 \in 0 .. Attempts
  BY BackupAssumption
<1>4. QED
  BY <1>1, <1>2, <1>3 DEF Attempted, NextDay, CycleFields

LEMMA EndsTyped ==
  ASSUME BackupAssumption, CycleFields, NEW done \in BOOLEAN, CaptureEnds(done)
  PROVE  /\ dueDay' \in Days /\ attempt' \in 0 .. Attempts
         /\ sched' \in {"waiting", "attempt", "running", "dead", "backoff"}
         /\ phase' = "none" /\ owner' = "none"
<1>1. CASE Attempted(done)
  BY <1>1, AttemptTyped DEF CaptureEnds
<1>2. CASE UNCHANGED schedVars
  BY <1>2 DEF CaptureEnds, schedVars, CycleFields
<1>3. QED
  BY <1>1, <1>2 DEF CaptureEnds

LEMMA FieldsKept ==
  ASSUME BackupAssumption, CycleFields, CycleNext
  PROVE  CycleFields'
<1> USE DEF CycleFields, schedVars, runVars, remoteVars
<1>1. CASE Wake \/ SchedulerDies
  <2>1. 1 \in 0 .. Attempts
    BY BackupAssumption
  <2>2. deaths < MaxDeaths => deaths + 1 \in 0 .. MaxDeaths
    BY BackupAssumption
  <2>3. QED
    BY <1>1, <2>1, <2>2 DEF Wake, SchedulerDies
<1>2. CASE ScheduledCapture \/ OperatorCapture
  <2>1. PICK who \in {"scheduler", "operator"} : BeginCapture(who)
    BY <1>2 DEF ScheduledCapture, OperatorCapture
  <2>2. run + 1 \in Runs0 /\ cycleDay \in Days
    <3>1. MaxCaptures \in Nat /\ MaxCycleDay \in Nat
      BY BackupAssumption
    <3>2. run < MaxCaptures
      BY <2>1 DEF BeginCapture
    <3>3. run \in 0 .. MaxCaptures /\ cycleDay \in 0 .. MaxCycleDay
      BY DEF Runs0
    <3>4. QED
      BY <3>1, <3>2, <3>3 DEF Runs0, Days
  <2>3. /\ taken' \in [Runs0 -> Days]
        /\ local' \in [status : {"none", "running", "success", "failed"}, success : Runs0]
    BY <2>1, <2>2 DEF BeginCapture
  <2>4. UNCHANGED <<attempt, dueDay>> /\ sched' \in {sched, "running"}
    BY <1>2 DEF ScheduledCapture, OperatorCapture
  <2>5. QED
    BY <2>1, <2>2, <2>3, <2>4 DEF BeginCapture
<1>3. CASE AttemptRefused
  BY <1>3, AttemptTyped DEF AttemptRefused
<1>4. CASE ReapScheduler
  <2>1. 0 \in Runs0
    BY BackupAssumption DEF Runs0
  <2>2. QED
    BY <1>4, <2>1 DEF ReapScheduler, Interrupted, Delivering
<1>5. CASE RestartScheduler
  BY <1>5, AttemptTyped DEF RestartScheduler
<1>6. CASE Capturer /\ UNCHANGED <<cycleDay, schedVars, runVars, local, remoteVars, deaths>>
  BY <1>6
<1>7. CASE SealBundle \/ WriteReceipt \/ WriteStatus \/ PruneDone
  BY <1>7 DEF SealBundle, WriteReceipt, WriteStatus, PruneDone, DeliveryStep, Delivering
<1>8. CASE Upload
  <2>1. cycleDay \in Days
    BY BackupAssumption DEF Days
  <2>2. QED
    BY <1>8, <2>1 DEF Upload, DeliveryStep, Delivering
<1>9. CASE PruneObject \/ PruneReceipt
  <2>1. 0 \in Runs0
    BY BackupAssumption DEF Runs0
  <2>2. QED
    BY <1>9, <2>1 DEF PruneObject, PruneReceipt, Prunable, DeliveryStep, Delivering
<1>10. CASE Succeed
  BY <1>10, EndsTyped DEF Succeed
<1>11. CASE Fail
  <2>1. 0 \in Runs0
    BY BackupAssumption DEF Runs0
  <2>2. QED
    BY <1>11, <2>1 DEF Fail
<1>12. CASE Alert
  <2>1. remote' \in [kind : {"none", "success", "attention"}, run : Runs0]
    BY <1>12 DEF Alert
  <2>2. CaptureEnds(FALSE)
    BY <1>12 DEF Alert
  <2>3. QED
    BY <1>12, <2>1, <2>2, EndsTyped DEF Alert
<1>13. CASE CaptureKilled
  <2>1. 0 \in Runs0 /\ (deaths < MaxDeaths => deaths + 1 \in 0 .. MaxDeaths)
    BY BackupAssumption DEF Runs0
  <2>2. QED
    BY <1>13, <2>1, EndsTyped DEF CaptureKilled
<1>14. CASE HostSteps \/ WatchdogSteps
  <2>1. deaths < MaxDeaths => deaths + 1 \in 0 .. MaxDeaths
    BY BackupAssumption
  <2>2. QED
    BY <1>14, <2>1 DEF HostSteps, WatchdogSteps, HostKeeps
<1>15. CASE RestartContainer
  <2>1. 0 \in Runs0
    BY BackupAssumption DEF Runs0
  <2>2. QED
    BY <1>15, <2>1, AttemptTyped DEF RestartContainer
<1>16. CASE NextMorning \/ MonitorAlerts
  <2>1. 0 \in Runs0 /\ (cycleDay < MaxCycleDay => cycleDay + 1 \in 0 .. MaxCycleDay)
    BY BackupAssumption DEF Runs0
  <2>2. QED
    BY <1>16, <2>1 DEF NextMorning, MonitorAlerts
<1>17. QED
  BY <1>1, <1>2, <1>3, <1>4, <1>5, <1>6, <1>7, <1>8, <1>9, <1>10, <1>11, <1>12, <1>13, <1>14,
     <1>15, <1>16 DEF CycleNext, SchedulerSteps, Supervise, CaptureSteps

(* Steps that leave the deliveries alone, and the end of a capture.        *)
DeliveryData == <<cycleDay, run, taken, at, local.success, remote, object, receipted>>

CycleKept == RunOrder /\ RunDates /\ Pruning

LEMMA QuietKept ==
  ASSUME CycleKept, UNCHANGED DeliveryData,
         \/ phase' = phase /\ pruning' = pruning
         \/ /\ phase' \in {"none", "failed"} /\ pruning' \in {0, pruning}
            /\ phase = "prune" => pruning' = 0
         \/ phase = "snapshot" /\ phase' = "upload" /\ pruning' = pruning,
         phase' # "none" => run # 0
  PROVE  CycleKept'
BY DEF CycleKept, RunOrder, RunDates, Pruning, Uploaded, Expired, DeliveryData

LEMMA StepKept ==
  ASSUME BackupAssumption, CycleFields, CycleKept, CycleNext
  PROVE  CycleKept'
<1> USE DEF schedVars, runVars, remoteVars, Delivering
<1>1. CASE Wake \/ AttemptRefused \/ RestartScheduler \/ SchedulerDies
  BY <1>1, QuietKept DEF Wake, AttemptRefused, RestartScheduler, SchedulerDies, DeliveryData,
                         CycleKept, RunOrder
<1>2. CASE \/ Capturer /\ UNCHANGED <<cycleDay, schedVars, runVars, local, remoteVars, deaths>>
           \/ HostSteps \/ WatchdogSteps
  BY <1>2, QuietKept DEF HostSteps, WatchdogSteps, HostKeeps, DeliveryData, CycleKept, RunOrder
<1>3. CASE ReapScheduler
  <2>1. CASE phase' = phase /\ pruning' = pruning /\ UNCHANGED local
    BY <1>3, <2>1, QuietKept DEF ReapScheduler, DeliveryData, CycleKept, RunOrder
  <2>2. CASE phase' = "failed" /\ pruning' = 0 /\ local' = [local EXCEPT !.status = "failed"]
             /\ phase \in Delivering
    <3>1. local'.success = local.success
      BY <2>2 DEF CycleFields
    <3>2. QED
      BY <1>3, <2>2, <3>1, QuietKept DEF ReapScheduler, DeliveryData, CycleKept, RunOrder
  <2>3. QED
    BY <1>3, <2>1, <2>2 DEF ReapScheduler, Interrupted
<1>4. CASE ScheduledCapture \/ OperatorCapture
  <2>1. PICK who : BeginCapture(who)
    BY <1>4 DEF ScheduledCapture, OperatorCapture
  <2>2. /\ phase = "none" /\ phase' = "snapshot" /\ run' = run + 1 /\ run + 1 \in Runs0
        /\ taken' = [taken EXCEPT ![run + 1] = cycleDay]
        /\ UNCHANGED <<cycleDay, at, remote, object, receipted, pruning>>
    <3>1. MaxCaptures \in Nat
      BY BackupAssumption
    <3>2. run \in 0 .. MaxCaptures /\ run < MaxCaptures
      BY <2>1 DEF BeginCapture, CycleFields, Runs0
    <3>3. QED
      BY <2>1, <3>1, <3>2 DEF BeginCapture, LockFree, Runs0
  <2>3. local'.success = local.success
    BY <2>1 DEF BeginCapture, CycleFields
  <2>4. run \in Nat /\ cycleDay \in Nat
    BY <2>2, BackupAssumption DEF CycleFields, Runs0
  <2>5. \A r : Uploaded(r) => Uploaded(r)' /\ r \in Runs0 /\ r # run + 1
    BY <2>2, <2>4 DEF Uploaded, CycleFields, Runs0
  <2>6. \A r \in Runs0 : taken'[r] = IF r = run + 1 THEN cycleDay ELSE taken[r]
    BY <2>2 DEF CycleFields
  <2>7. RunOrder'
    BY <2>2, <2>3, <2>4, <2>5 DEF CycleKept, RunOrder
  <2>8. RunDates'
    BY <2>2, <2>3, <2>4, <2>5, <2>6 DEF CycleKept, RunOrder, RunDates
  <2>9. Pruning'
    BY <2>2, <2>3 DEF CycleKept, Pruning, Expired
  <2>10. QED
    BY <2>7, <2>8, <2>9 DEF CycleKept
<1>5. CASE SealBundle
  BY <1>5, QuietKept DEF SealBundle, DeliveryData, CycleKept, RunOrder
<1>6. CASE Upload
  <2>1. /\ phase = "upload" /\ phase' = "receipt" /\ object' = object \cup {run}
        /\ at' = [at EXCEPT ![run] = cycleDay]
        /\ UNCHANGED <<cycleDay, run, taken, local, remote, receipted, pruning>>
    BY <1>6 DEF Upload, DeliveryStep
  <2>2. run \in 1 .. run /\ run \in Runs0
    BY <2>1, BackupAssumption DEF CycleFields, Runs0, CycleKept, RunOrder
  <2>3. \A r : Uploaded(r) => Uploaded(r)' /\ r \in Runs0 /\ r # run /\ at'[r] = at[r]
    BY <2>1, <2>2 DEF Uploaded, CycleFields, Runs0
  <2>4. at'[run] = cycleDay /\ Uploaded(run)'
    BY <2>1, <2>2 DEF CycleFields, Uploaded
  <2>5. RunOrder'
    BY <2>1, <2>2, <2>3, <2>4 DEF CycleKept, RunOrder
  <2>6. RunDates'
    BY <2>1, <2>2, <2>3, <2>4 DEF CycleKept, RunOrder, RunDates
  <2>7. \A r : Uploaded(r) => (Expired(r)' <=> Expired(r))
    BY <2>1, <2>3 DEF Expired
  <2>8. Pruning'
    BY <2>1, <2>7 DEF CycleKept, RunOrder, Pruning
  <2>9. QED
    BY <2>5, <2>6, <2>8 DEF CycleKept
<1>7. CASE WriteReceipt
  BY <1>7 DEF WriteReceipt, DeliveryStep, CycleKept, RunOrder, RunDates, Pruning, Uploaded, Expired
<1>8. CASE WriteStatus
  BY <1>8 DEF WriteStatus, DeliveryStep, CycleKept, RunOrder, RunDates, Pruning, Uploaded, Expired
<1>9. CASE PruneObject
  <2>1. PICK r \in Prunable : object' = object \ {r} /\ pruning' = r
    BY <1>9 DEF PruneObject
  <2>2. r # run /\ Expired(r)
    BY <2>1 DEF Prunable
  <2>3. phase = "prune" /\ UNCHANGED <<cycleDay, phase, run, taken, at, local, remote, receipted>>
    BY <1>9 DEF PruneObject, DeliveryStep
  <2>4. QED
    BY <2>1, <2>2, <2>3 DEF CycleKept, RunOrder, RunDates, Pruning, Uploaded, Expired
<1>10. CASE PruneReceipt
  BY <1>10 DEF PruneReceipt, DeliveryStep, CycleKept, RunOrder, RunDates, Pruning, Uploaded, Expired
<1>11. CASE PruneDone
  BY <1>11 DEF PruneDone, DeliveryStep, CycleKept, RunOrder, RunDates, Pruning, Uploaded, Expired
<1>12. CASE Succeed
  <2>1. phase = "ack" /\ phase' = "none" /\ local'.success = run
        /\ UNCHANGED <<cycleDay, run, taken, at, remote, object, receipted, pruning>>
    BY <1>12 DEF Succeed, CaptureEnds
  <2>2. QED
    BY <2>1 DEF CycleKept, RunOrder, RunDates, Pruning, Uploaded, Expired
<1>13. CASE Fail
  <2>1. local'.success = local.success
    BY <1>13 DEF Fail, CycleFields
  <2>2. QED
    BY <1>13, <2>1, QuietKept DEF Fail, DeliveryData, CycleKept, RunOrder
<1>14. CASE Alert
  BY <1>14 DEF Alert, CaptureEnds, CycleKept, RunOrder, RunDates, Pruning, Uploaded, Expired
<1>15. CASE CaptureKilled \/ RestartContainer
  BY <1>15, QuietKept DEF CaptureKilled, CaptureEnds, RestartContainer, DeliveryData
<1>16. CASE NextMorning
  <2>1. cycleDay' = cycleDay + 1
        /\ UNCHANGED <<phase, run, taken, at, local, remote, object, receipted, pruning>>
    BY <1>16 DEF NextMorning
  <2>2. cycleDay \in Int /\ RetainDays \in Int /\ \A r \in Runs0 : at[r] \in Int /\ taken[r] \in Int
    BY BackupAssumption DEF CycleFields, Days
  <2>3. \A r \in Runs0 : Expired(r) => Expired(r)'
    BY <2>1, <2>2 DEF Expired
  <2>4. RunOrder' /\ Pruning'
    BY <2>1, <2>3 DEF CycleKept, RunOrder, Pruning, Uploaded, CycleFields
  <2>5. RunDates'
    BY <2>1, <2>2 DEF CycleKept, RunDates
  <2>6. QED
    BY <2>4, <2>5 DEF CycleKept
<1>17. CASE MonitorAlerts
  BY <1>17 DEF MonitorAlerts, CycleKept, RunOrder, RunDates, Pruning, Uploaded, Expired
<1>18. QED
  BY <1>1, <1>2, <1>3, <1>4, <1>5, <1>6, <1>7, <1>8, <1>9, <1>10, <1>11, <1>12, <1>13, <1>14,
     <1>15, <1>16, <1>17 DEF CycleNext, SchedulerSteps, Supervise, CaptureSteps

LEMMA CycleStarts ==
  ASSUME BackupAssumption, CycleInit
  PROVE  CycleInv
<1>1. PauseBasics /\ CaptureRests
  BY DEF CycleInit, InitPause, PauseBasics, PauseTypeOK, CaptureRests, Procs, Steps, Paused
<1>2. CycleFields
  <2>1. 0 \in Runs0 /\ 0 \in Days /\ 1 \in Days /\ 0 \in 0 .. Attempts /\ 0 \in 0 .. MaxDeaths
        /\ 0 \in 0 .. MaxCycleDay
    BY BackupAssumption DEF Runs0, Days
  <2>2. QED
    BY <2>1 DEF CycleInit, CycleFields
<1>3. RunOrder /\ RunDates /\ Pruning
  BY BackupAssumption DEF CycleInit, RunOrder, RunDates, Pruning, Runs0
<1>4. QED
  BY <1>1, <1>2, <1>3, ShapeFields DEF CycleInv

LEMMA CycleKeeps ==
  ASSUME BackupAssumption, CycleInv, [CycleNext]_cycleVars
  PROVE  CycleInv'
<1>1. CycleFields /\ PauseBasics /\ CaptureRests /\ CycleKept
  BY ShapeFields DEF CycleInv, CycleKept
<1>2. CASE CycleNext
  <2>1. CycleFields' /\ PauseBasics' /\ CaptureRests' /\ CycleKept'
    BY <1>1, <1>2, FieldsKept, CyclePauseBasics, StepKept
  <2>2. QED
    BY <2>1, ShapeFields DEF CycleInv, CycleKept, CycleShape, CycleTypeOK, CycleFields,
       PauseBasics, Days
<1>3. CASE UNCHANGED cycleVars
  BY <1>3 DEF cycleVars, wpVars, hostVars, pauseVars, schedVars, runVars, remoteVars, CycleInv,
              CycleShape, CycleTypeOK, PauseBasics, PauseTypeOK, CaptureRests, RunOrder, RunDates,
              Pruning, Uploaded, Expired
<1>4. QED
  BY <1>2, <1>3

(* What a status names is there, for any number of days, captures and      *)
(* deaths: retention deletes what has expired and never the run just       *)
(* delivered, which the remote status names by the time anything goes.     *)
THEOREM StatusesNameBackups == CycleSpec => []StatusNamesBackup
<1>1. CycleInv => StatusNamesBackup
  <2> SUFFICES ASSUME CycleInv PROVE StatusNamesBackup
    OBVIOUS
  <2>1. CycleTypeOK /\ RunOrder /\ RunDates /\ Pruning /\ CycleFields
    BY BackupAssumption, ShapeFields DEF CycleInv, CycleShape
  <2>2. RemoteHealthy => \E r \in receipted \cap object : Fresh(at[r])
    BY <2>1 DEF RemoteHealthy, Pruning
  <2>3. LocalHealthy => \E r \in receipted \cap object : Fresh(taken[r])
    <3> SUFFICES ASSUME LocalHealthy PROVE ~Expired(local.success)
      BY <2>1 DEF LocalHealthy, Pruning
    <3>1. local.success # 0 /\ Fresh(taken[local.success]) /\ taken[local.success] <= at[local.success]
      BY <2>1 DEF LocalHealthy, RunDates
    <3>2. local.success \in Runs0
      BY <2>1 DEF CycleFields
    <3>3. cycleDay \in Int /\ taken[local.success] \in Int /\ at[local.success] \in Int
      BY <2>1, <3>2 DEF CycleFields, Days
    <3>4. RetainDays \in Nat \ {0}
      BY BackupAssumption
    <3>5. QED
      BY <3>1, <3>3, <3>4 DEF Fresh, Expired
  <2>4. QED
    BY <2>1, <2>2, <2>3 DEF StatusNamesBackup, Pruning
<1>2. QED
  BY <1>1, CycleStarts, CycleKeeps, BackupAssumption, PTL DEF CycleSpec
=============================================================================
