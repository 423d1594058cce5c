----------------------------- MODULE WriterPause -----------------------------
(***************************************************************************)
(* The capture of one paired snapshot: scripts/hosted_backup.py stops the  *)
(* process group of the hosted Odoo, dumps the database under table locks, *)
(* copies the filestore and lets the group run again.  A forked watchdog   *)
(* lets it run even when the capturing process stalls or is killed.        *)
(*                                                                         *)
(* The capturing process has no fairness here: it may stall between any    *)
(* two of its steps for as long as it likes.  Its own deadline and the     *)
(* watchdog's timer are independent, since either process may be           *)
(* descheduled while it starts its clock.                                  *)
(***************************************************************************)
EXTENDS Naturals, FiniteSets

CONSTANTS Master,        \* the prefork server, leader of the process group
          Workers,       \* pids its workers may have
          Attachments,   \* files of the filestore, each with a database row
          NoAttachment

Procs == {Master} \cup Workers

VARIABLES
  group,     \* pids alive in the server's process group
  stopped,   \* [Procs -> BOOLEAN], state T in /proc
  tx,        \* [Procs -> attachment of the transaction in flight, if any]
  committed, fs,    \* attachments with a committed row, and with a file
  pause,     \* the step of the capturing process
  known,     \* pids it holds a pidfd of
  halted,    \* those it has sent SIGSTOP
  late,      \* its deadline has passed
  dog,       \* "none", "watching" or "resuming"
  locked,    \* it holds SHARE locks on every table
  rows, files \* what the bundle holds

hostVars  == <<group, tx, committed, fs>>
pauseVars == <<pause, known, halted, late, locked, rows, files>>
wpVars    == <<hostVars, stopped, pauseVars, dog>>

\* The steps between the fork of the watchdog and the close of its pipe.
Paused == {"clear", "stop", "confirm", "dump", "copy", "check", "leave", "abort"}
Steps  == Paused \cup {"off", "enter", "kept", "dropped", "done", "failed"}

Idle       == \A p \in group : tx[p] = NoAttachment
AllStopped == \A p \in group : stopped[p]
Resumed(S) == [p \in Procs |-> IF p \in S THEN FALSE ELSE stopped[p]]

PauseTypeOK ==
  /\ group \subseteq Procs /\ known \subseteq Procs /\ halted \subseteq known
  /\ stopped \in [Procs -> BOOLEAN]
  /\ tx \in [Procs -> Attachments \cup {NoAttachment}]
  /\ {committed, fs, rows, files} \subseteq SUBSET Attachments
  /\ pause \in Steps /\ dog \in {"none", "watching", "resuming"}
  /\ late \in BOOLEAN /\ locked \in BOOLEAN

InitPause ==
  /\ \E S \in SUBSET Workers : group = {Master} \cup S
  /\ stopped = [p \in Procs |-> FALSE]
  /\ tx = [p \in Procs |-> NoAttachment]
  /\ committed = {} /\ fs = {} /\ rows = {} /\ files = {}
  /\ pause = "off" /\ dog = "none" /\ known = {} /\ halted = {}
  /\ late = FALSE /\ locked = FALSE

-----------------------------------------------------------------------------
(* The server.  A request stores the file before its row commits; workers  *)
(* are recycled between requests.                                          *)

Running(p) == p \in group /\ ~stopped[p]

StoreFile(p) ==
  /\ p # Master /\ Running(p) /\ tx[p] = NoAttachment
  /\ \E a \in Attachments \ fs :
       fs' = fs \cup {a} /\ tx' = [tx EXCEPT ![p] = a]
  /\ UNCHANGED <<group, committed, stopped, pauseVars, dog>>

CommitRow(p) ==
  /\ Running(p) /\ tx[p] # NoAttachment /\ ~locked
  /\ committed' = committed \cup {tx[p]}
  /\ tx' = [tx EXCEPT ![p] = NoAttachment]
  /\ UNCHANGED <<group, fs, stopped, pauseVars, dog>>

ForkWorker(p) ==
  /\ Running(Master) /\ p \notin group
  /\ pause \in Paused => p \notin known   \* no pid comes back within one pause
  /\ group' = group \cup {p}
  /\ UNCHANGED <<tx, committed, fs, stopped, pauseVars, dog>>

RetireWorker(p) ==
  /\ p # Master /\ Running(p) /\ tx[p] = NoAttachment
  /\ group' = group \ {p}
  /\ UNCHANGED <<tx, committed, fs, stopped, pauseVars, dog>>

\* The server ends on its own: every worker ends with it.
ServerExits ==
  /\ Running(Master)
  /\ group' = {}
  /\ tx' = [p \in Procs |-> NoAttachment]
  /\ stopped' = [p \in Procs |-> FALSE]
  /\ UNCHANGED <<committed, fs, pauseVars, dog>>

Requests == \E p \in Procs : \/ StoreFile(p) \/ CommitRow(p)
                             \/ ForkWorker(p) \/ RetireWorker(p)

-----------------------------------------------------------------------------
(* The capturing process. *)

GoTo(step) == pause' = step
Keep(vs)   == UNCHANGED <<hostVars, vs>>

\* discover, the first idle check, the pidfds of the group and the fork.
Enter ==
  /\ pause = "enter"
  /\ IF Master \in group /\ Idle
       THEN GoTo("clear") /\ known' = group /\ dog' = "watching"
       ELSE GoTo("failed") /\ UNCHANGED <<known, dog>>
  /\ Keep(<<stopped, halted, late, locked, rows, files>>)

\* The deadline is read before each SIGSTOP, the signal is sent after.
ClearToStop ==
  /\ pause = "clear"
  /\ GoTo(IF late \/ Master \notin group THEN "abort"
          ELSE IF halted = known THEN "confirm" ELSE "stop")
  /\ Keep(<<stopped, known, halted, late, locked, rows, files, dog>>)

NextToStop == IF Master \in known \ halted THEN {Master} ELSE known \ halted

SendStop ==
  /\ pause = "stop"
  /\ \E p \in NextToStop :
       /\ halted' = halted \cup {p}
       /\ stopped' = [stopped EXCEPT ![p] = p \in group]
       /\ GoTo(IF p \in group THEN "clear" ELSE "abort")
  /\ Keep(<<known, late, locked, rows, files, dog>>)

\* Polls until every known process is stopped; an unknown one aborts.
Confirm ==
  /\ pause = "confirm"
  /\ IF late \/ group # known THEN GoTo("abort")
                               ELSE AllStopped /\ GoTo("dump")
  /\ Keep(<<stopped, known, halted, late, locked, rows, files, dog>>)

DumpDatabase ==
  /\ pause = "dump"
  /\ \/ Idle /\ locked' = TRUE /\ rows' = committed /\ GoTo("copy")
     \/ GoTo("abort") /\ UNCHANGED <<locked, rows>>   \* not idle, or pg_dump fails
  /\ Keep(<<stopped, known, halted, late, files, dog>>)

\* copy_tree, and the fingerprint that reads every attachment of the copy.
CopyFilestore ==
  /\ pause = "copy"
  /\ IF ~late /\ committed \subseteq fs THEN files' = fs /\ GoTo("check")
                                 ELSE GoTo("abort") /\ UNCHANGED files
  /\ Keep(<<stopped, known, halted, late, locked, rows, dog>>)

\* Mutant: nothing is checked after the copy.
CheckLeftOut ==
  /\ pause = "check"
  /\ GoTo("leave")
  /\ Keep(<<stopped, known, halted, late, locked, rows, files, dog>>)

\* The second idle check and "writers_resumed_early".
CheckStillStopped ==
  /\ pause = "check"
  /\ GoTo(IF Idle /\ AllStopped THEN "leave" ELSE "abort")
  /\ Keep(<<stopped, known, halted, late, locked, rows, files, dog>>)

\* The end of the with block: resume, close the pipe, wait for the watchdog.
LeavePause ==
  /\ pause \in {"leave", "abort"}
  /\ GoTo(IF pause = "leave" /\ ~late /\ Master \in group THEN "kept" ELSE "dropped")
  /\ stopped' = Resumed(known) /\ dog' = "none"
  /\ known' = {} /\ halted' = {} /\ late' = FALSE
  /\ Keep(<<locked, rows, files>>)

\* Rollback releases the table locks; a dump pg_restore cannot list fails.
ReleaseLocks ==
  /\ pause \in {"kept", "dropped"}
  /\ locked' = FALSE
  /\ \/ GoTo("failed")
     \/ pause = "kept" /\ GoTo("done")
  /\ Keep(<<stopped, known, halted, late, rows, files, dog>>)

\* The process is gone, with its temporary directory and its connection; the
\* watchdog keeps its own pidfds.
CapturerGone ==
  /\ pause' = "off" /\ halted' = {} /\ late' = FALSE /\ locked' = FALSE
  /\ rows' = {} /\ files' = {}
  /\ Keep(<<stopped, known, dog>>)

Capturer == \/ Enter \/ ClearToStop \/ SendStop \/ Confirm \/ DumpDatabase
            \/ CopyFilestore \/ CheckStillStopped \/ LeavePause \/ ReleaseLocks

DeadlinePasses ==
  /\ pause \in Paused /\ ~late
  /\ late' = TRUE
  /\ Keep(<<stopped, pause, known, halted, locked, rows, files, dog>>)

-----------------------------------------------------------------------------
(* The watchdog. *)

\* Mutant: the watchdog resumes the group once and ends.
WatchdogFiresOnce ==
  /\ dog = "watching" /\ pause \in Paused
  /\ dog' = "none"
  /\ stopped' = Resumed(known)
  /\ UNCHANGED <<hostVars, pauseVars>>

WatchdogFires ==
  /\ dog = "watching" /\ pause \in Paused
  /\ dog' = "resuming"
  /\ stopped' = Resumed(known)
  /\ UNCHANGED <<hostVars, pauseVars>>

\* Until the pipe closes it keeps undoing any stop that came late.
WatchdogUndoesLateStop ==
  /\ dog = "resuming" /\ \E p \in known : stopped[p]
  /\ stopped' = Resumed(known)
  /\ UNCHANGED <<hostVars, pauseVars, dog>>

\* The pipe of a killed parent is closed: one last resume.
WatchdogEnds ==
  /\ dog # "none" /\ pause \notin Paused
  /\ stopped' = Resumed(known) /\ dog' = "none" /\ known' = {}
  /\ UNCHANGED <<hostVars, pause, halted, late, locked, rows, files>>

Watchdog == WatchdogFires \/ WatchdogUndoesLateStop \/ WatchdogEnds

-----------------------------------------------------------------------------
(* The module on its own: one capture after another.  The lock of a new    *)
(* capture is free once the watchdog, which inherited it, has ended.       *)

BeginPause ==
  /\ pause \in {"off", "done", "failed"} /\ dog = "none"
  /\ pause' = "enter" /\ rows' = {} /\ files' = {}
  /\ Keep(<<stopped, known, halted, late, locked, dog>>)

KillCapturer == pause \in Steps \ {"off", "done", "failed"} /\ CapturerGone

RestartServer ==
  /\ group = {} /\ pause \notin Paused \cup {"enter"} /\ dog = "none"
  /\ \E S \in SUBSET Workers : group' = {Master} \cup S
  /\ UNCHANGED <<tx, committed, fs, stopped, pauseVars, dog>>

PauseNext == \/ Requests \/ ServerExits \/ RestartServer
             \/ BeginPause \/ Capturer \/ KillCapturer \/ DeadlinePasses
             \/ Watchdog

\* A bundle that is kept holds the file of every row it holds, and no file
\* whose row is committed outside it: no request was cut in two by the pause
\* and none ran between the dump and the end of the copy.
BundlePaired ==
  /\ PauseTypeOK
  /\ pause \in {"kept", "done"} => rows = files \cap committed

\* No process of the server stays stopped, though the capture may stall for
\* ever or be killed: the watchdog alone lets it run again.
WritersResume == \A p \in Procs : stopped[p] ~> ~stopped[p]
=============================================================================
