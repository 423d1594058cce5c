----------------------------- MODULE BackupCycle -----------------------------
(***************************************************************************)
(* The daily backup of a hosted server: the supervisor                     *)
(* (docker/odoo/hosted_runtime.py) keeps a scheduler alive                 *)
(* (backup_runtime.py), the scheduler starts captures (hosted_backup.py),  *)
(* a capture takes a snapshot (WriterPause), delivers it to the object     *)
(* store and records the outcome (backup_store.py); two monitors read the  *)
(* records.  A day begins at 03:00, the hour of the scheduled capture.     *)
(***************************************************************************)
EXTENDS WriterPause

CONSTANTS MaxCycleDay,     \* bound: days of a behaviour
          MaxCaptures,     \* bound: captures begun
          MaxDeaths,       \* bound: processes killed or ended
          Attempts,        \* capture_with_retries makes this many
          RetainDays       \* age in days up to which retain keeps a backup

ASSUME BackupAssumption ==
  /\ {MaxCycleDay, MaxCaptures, MaxDeaths} \subseteq Nat
  /\ Attempts \in Nat \ {0} /\ RetainDays \in Nat \ {0}

VARIABLES
  cycleDay,
  sched, attempt, dueDay, \* the scheduler, the attempt it makes, its next day
  phase, owner, run,     \* the capture: where it is, who started it, its run_id
  taken, at,             \* [run -> day]: started_at, and "at" of its receipt
  local,                 \* status.json on the host: [status, success]
  remote,                \* status.json in the store: [kind, run]
  object, receipted,     \* runs with an object, and with a receipt, in the store
  pruning,               \* the run whose object retain has just deleted
  deaths

schedVars  == <<sched, attempt, dueDay>>
runVars    == <<phase, owner, run, taken, at>>
remoteVars == <<remote, object, receipted, pruning>>
cycleVars  == <<wpVars, cycleDay, schedVars, runVars, local, remoteVars, deaths>>

Runs0 == 0..MaxCaptures        \* 0 stands for no run
Days  == 0..(MaxCycleDay + 1)
Fresh(day)   == cycleDay - day <= 1           \* 27 hours
Expired(r)   == cycleDay - at[r] > RetainDays  \* 30 days
Delivering   == {"upload", "receipt", "status", "prune", "ack"}

CycleTypeOK ==
  /\ PauseTypeOK
  /\ cycleDay \in Days /\ dueDay \in Days /\ attempt \in 0..Attempts
  /\ sched \in {"waiting", "attempt", "running", "dead", "backoff"}
  /\ phase \in {"none", "snapshot", "failed"} \cup Delivering
  /\ owner \in {"none", "scheduler", "operator"} /\ run \in Runs0
  /\ taken \in [Runs0 -> Days] /\ at \in [Runs0 -> Days]
  /\ local \in [status : {"none", "running", "success", "failed"}, success : Runs0]
  /\ remote \in [kind : {"none", "success", "attention"}, run : Runs0]
  /\ object \subseteq Runs0 /\ receipted \subseteq Runs0
  /\ pruning \in Runs0 /\ deaths \in 0..MaxDeaths

CycleInit ==
  /\ InitPause
  /\ cycleDay = 0 /\ dueDay = 1 /\ sched = "waiting" /\ attempt = 0
  /\ phase = "none" /\ owner = "none" /\ run = 0
  /\ taken = [r \in Runs0 |-> 0] /\ at = [r \in Runs0 |-> 0]
  /\ local = [status |-> "none", success |-> 0]
  /\ remote = [kind |-> "none", run |-> 0]
  /\ object = {} /\ receipted = {} /\ pruning = 0 /\ deaths = 0

-----------------------------------------------------------------------------
(* The scheduler and its supervisor. *)

\* flock: the watchdog inherited the descriptor, so it holds the lock too.
LockFree == phase = "none" /\ dog = "none"

NextDay == /\ sched' = "waiting" /\ attempt' = 0 /\ dueDay' = cycleDay + 1

\* Mutant: an attempt that fails is made again without being counted.
AttemptedUncounted(succeeded) ==
  IF succeeded THEN NextDay ELSE sched' = "attempt" /\ UNCHANGED <<attempt, dueDay>>

\* What the scheduler does when the capture it waits for has ended.
Attempted(succeeded) ==
  IF succeeded \/ attempt = Attempts THEN NextDay
  ELSE sched' = "attempt" /\ attempt' = attempt + 1 /\ UNCHANGED dueDay

\* subprocess.run returns, if it is still there to return to.
CaptureEnds(succeeded) ==
  /\ phase' = "none" /\ owner' = "none"
  /\ IF owner = "scheduler" /\ sched = "running"
       THEN Attempted(succeeded) ELSE UNCHANGED schedVars

Wake ==
  /\ sched = "waiting" /\ dueDay <= cycleDay
  /\ sched' = "attempt" /\ attempt' = 1
  /\ UNCHANGED <<wpVars, cycleDay, dueDay, runVars, local, remoteVars, deaths>>

SchedulerDies ==
  /\ sched \notin {"dead", "backoff"} /\ deaths < MaxDeaths
  /\ sched' = "dead" /\ deaths' = deaths + 1
  /\ UNCHANGED <<wpVars, cycleDay, attempt, dueDay, runVars, local, remoteVars>>

\* SIGTERM becomes "interrupted" in a capture, wherever it is.
Interrupted ==
  IF phase = "snapshot"
    THEN /\ GoTo(CASE pause \in Paused -> "abort"
                   [] pause = "kept" -> "dropped"
                   [] pause = "dropped" -> "dropped"
                   [] OTHER -> "failed")
         /\ UNCHANGED <<phase, local, pruning>>
    ELSE /\ phase' = "failed" /\ local' = [local EXCEPT !.status = "failed"]
         /\ pruning' = 0 /\ UNCHANGED pause

\* serve finds its optional child gone and ends the session it left behind.
ReapScheduler ==
  /\ sched = "dead"
  /\ sched' = "backoff"
  /\ IF owner = "scheduler" /\ phase \in Delivering \cup {"snapshot"}
       THEN Interrupted ELSE UNCHANGED <<phase, local, pause, pruning>>
  /\ UNCHANGED <<hostVars, stopped, known, halted, late, locked, rows, files, dog, cycleDay,
                 attempt, dueDay, owner, run, taken, at, remote, object, receipted, deaths>>

RestartScheduler ==
  /\ sched = "backoff" /\ NextDay
  /\ UNCHANGED <<wpVars, cycleDay, runVars, local, remoteVars, deaths>>

Supervise == ReapScheduler \/ RestartScheduler

-----------------------------------------------------------------------------
(* One capture. *)

BeginCapture(who) ==
  /\ LockFree /\ run < MaxCaptures
  /\ phase' = "snapshot" /\ owner' = who /\ run' = run + 1
  /\ taken' = [taken EXCEPT ![run + 1] = cycleDay]
  /\ local' = [local EXCEPT !.status = "running"]
  /\ pause' = "enter"
  /\ UNCHANGED <<hostVars, stopped, known, halted, late, locked, rows, files, dog,
                 cycleDay, at, remoteVars, deaths>>

ScheduledCapture ==
  /\ sched = "attempt" /\ BeginCapture("scheduler")
  /\ sched' = "running" /\ UNCHANGED <<attempt, dueDay>>

OperatorCapture == BeginCapture("operator") /\ UNCHANGED schedVars

\* "capture_already_running" leaves no trace; the bound on runs ends attempts too.
AttemptRefused ==
  /\ sched = "attempt" /\ (~LockFree \/ run = MaxCaptures)
  /\ Attempted(FALSE)
  /\ UNCHANGED <<wpVars, cycleDay, runVars, local, remoteVars, deaths>>

\* The manifest is written and verified, the bundle encrypted.
SealBundle ==
  /\ phase = "snapshot" /\ pause = "done"
  /\ phase' = "upload"
  /\ UNCHANGED <<wpVars, cycleDay, schedVars, owner, run, taken, at, local, remoteVars, deaths>>

DeliveryStep(from, to) ==
  /\ phase = from /\ phase' = to
  /\ UNCHANGED <<wpVars, cycleDay, schedVars, owner, run, taken, local, deaths>>

Upload ==
  /\ DeliveryStep("upload", "receipt")
  /\ object' = object \cup {run} /\ at' = [at EXCEPT ![run] = cycleDay]
  /\ UNCHANGED <<remote, receipted, pruning>>

WriteReceipt ==
  /\ run \in object                        \* the whole object was read back
  /\ DeliveryStep("receipt", "status")
  /\ receipted' = receipted \cup {run}
  /\ UNCHANGED <<at, remote, object, pruning>>

WriteStatus ==
  /\ DeliveryStep("status", "prune")
  /\ remote' = [kind |-> "success", run |-> run]
  /\ UNCHANGED <<at, object, receipted, pruning>>

\* Mutant: every expired backup goes, the one just delivered too.
PrunableAny == {r \in receipted : Expired(r)}

Prunable == {r \in receipted \ {run} : Expired(r)}

PruneObject ==
  /\ pruning = 0 /\ \E r \in Prunable : object' = object \ {r} /\ pruning' = r
  /\ DeliveryStep("prune", "prune")
  /\ UNCHANGED <<at, remote, receipted>>

PruneReceipt ==
  /\ pruning # 0 /\ receipted' = receipted \ {pruning} /\ pruning' = 0
  /\ DeliveryStep("prune", "prune")
  /\ UNCHANGED <<at, remote, object>>

PruneDone ==
  /\ pruning = 0 /\ Prunable = {}
  /\ DeliveryStep("prune", "ack")
  /\ UNCHANGED <<at, remoteVars>>

Succeed ==
  /\ phase = "ack"
  /\ local' = [status |-> "success", success |-> run]
  /\ CapturerGone /\ CaptureEnds(TRUE)
  /\ UNCHANGED <<cycleDay, run, taken, at, remoteVars, deaths>>

\* A step fails, or the adapter overruns its time and its group is killed.
Fail ==
  /\ \/ phase = "snapshot" /\ pause \in {"failed", "done"}
     \/ phase \in Delivering
  /\ phase' = "failed" /\ local' = [local EXCEPT !.status = "failed"]
  /\ pruning' = 0
  /\ UNCHANGED <<wpVars, cycleDay, schedVars, owner, run, taken, at, remote, object,
                 receipted, deaths>>

Alert ==
  /\ phase = "failed"
  /\ \/ remote' = [kind |-> "attention", run |-> run]
     \/ UNCHANGED remote                  \* alert_failed
  /\ CapturerGone /\ CaptureEnds(FALSE)
  /\ UNCHANGED <<cycleDay, run, taken, at, local, object, receipted, pruning, deaths>>

CaptureSteps == \/ Capturer /\ UNCHANGED <<cycleDay, schedVars, runVars, local, remoteVars, deaths>>
                \/ SealBundle \/ Upload \/ WriteReceipt \/ WriteStatus \/ PruneObject
                \/ PruneReceipt \/ PruneDone \/ Succeed \/ Fail \/ Alert

\* SIGKILL: the pipe closes, the connection and its locks go, the status stays.
CaptureKilled ==
  /\ phase # "none" /\ deaths < MaxDeaths /\ deaths' = deaths + 1
  /\ CapturerGone /\ pruning' = 0 /\ CaptureEnds(FALSE)
  /\ UNCHANGED <<cycleDay, run, taken, at, local, remote, object, receipted>>

-----------------------------------------------------------------------------
(* The container, the clock and the host's monitor. *)

\* serve ends everything once the server has exited; the platform starts anew.
RestartContainer ==
  /\ group = {}
  /\ \E S \in SUBSET Workers : group' = {Master} \cup S
  /\ stopped' = [p \in Procs |-> FALSE]
  /\ dog' = "none" /\ pause' = "off" /\ locked' = FALSE
  /\ known' = {} /\ halted' = {} /\ late' = FALSE /\ rows' = {} /\ files' = {}
  /\ phase' = "none" /\ owner' = "none" /\ pruning' = 0 /\ NextDay
  /\ UNCHANGED <<tx, committed, fs, cycleDay, run, taken, at, local, remote, object, receipted,
                 deaths>>

HostKeeps == UNCHANGED <<cycleDay, schedVars, runVars, local, remoteVars>>

HostSteps ==
  /\ \/ ServerExits /\ deaths < MaxDeaths /\ deaths' = deaths + 1
     \/ (Requests \/ DeadlinePasses) /\ UNCHANGED deaths
  /\ HostKeeps

WatchdogSteps == Watchdog /\ HostKeeps /\ UNCHANGED deaths

NextMorning ==
  /\ cycleDay < MaxCycleDay /\ cycleDay' = cycleDay + 1
  /\ UNCHANGED <<wpVars, schedVars, runVars, local, remoteVars, deaths>>

LocalHealthy == /\ local.status \in {"running", "success"}
                /\ local.success # 0 /\ Fresh(taken[local.success])

MonitorAlerts ==
  /\ ~LocalHealthy
  /\ remote' = [kind |-> "attention", run |-> 0]
  /\ UNCHANGED <<wpVars, cycleDay, schedVars, runVars, local, object, receipted, pruning, deaths>>

\* The operator's remote check.
RemoteHealthy == /\ remote.kind = "success" /\ Fresh(at[remote.run])
                 /\ remote.run \in receipted \cap object

SchedulerSteps == Wake \/ ScheduledCapture \/ AttemptRefused \/ Supervise

CycleNext == \/ SchedulerSteps \/ SchedulerDies \/ OperatorCapture
             \/ CaptureSteps \/ CaptureKilled
             \/ HostSteps \/ WatchdogSteps \/ RestartContainer
             \/ NextMorning \/ MonitorAlerts

\* Every call of a capture has a timeout, the supervisor polls, the watchdog and
\* the deadline are timers; requests, kills and monitors may never come.
CycleFairness == /\ WF_cycleVars(WatchdogSteps) /\ WF_cycleVars(CaptureSteps)
                 /\ WF_cycleVars(SchedulerSteps) /\ WF_cycleVars(RestartContainer)
                 /\ WF_cycleVars(DeadlinePasses /\ HostKeeps /\ UNCHANGED deaths)

CycleSpec == CycleInit /\ [][CycleNext]_cycleVars /\ CycleFairness

-----------------------------------------------------------------------------
(* Properties. *)

\* What a status names is there: the run of a remote success has its receipt
\* and its object whatever retain deletes, and so has the run the host
\* remembers as its last success, as long as it has not expired.  So either
\* monitor says healthy only while a backup delivered within its window can
\* be fetched.
StatusNamesBackup ==
  /\ CycleTypeOK
  /\ remote.kind = "success" => remote.run \in receipted \cap object
  /\ local.success # 0 =>
       local.success \in receipted \cap object \/ Expired(local.success)
  /\ \A r \in receipted : r \in object \/ Expired(r)
  /\ RemoteHealthy \/ LocalHealthy =>
       \E r \in receipted \cap object : Fresh(at[r]) \/ Fresh(taken[r])

\* The attempts of a day end, in a success or not, and the scheduler waits for
\* a later day, whatever is killed and whoever else holds the capture lock.
DueDayEnds == (dueDay <= cycleDay) ~> (dueDay > cycleDay)
=============================================================================
