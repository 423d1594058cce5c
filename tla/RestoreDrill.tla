----------------------------- MODULE RestoreDrill -----------------------------
(***************************************************************************)
(* A recovery drill on a separate host.  hosted_recovery_drill.py fetches  *)
(* the bundle a receipt of the RecoveryVault names and runs                *)
(* hosted_recovery_restore.py, which loads it into a database of its own,  *)
(* starts Odoo on it once and judges the result by the fingerprints taken  *)
(* at capture.                                                             *)
(*                                                                         *)
(* Every command is run by run_owned: a watcher in a session of its own    *)
(* starts it, holds one end of a lease pipe and kills the command's group  *)
(* when the caller's end closes or its time is over; the command dies with *)
(* its watcher (PR_SET_PDEATHSIG).  The two levels make a tree:            *)
(*                                                                         *)
(*     drill -- guard -- restore -- keeper -- tool                         *)
(***************************************************************************)
EXTENDS Naturals

CONSTANT MaxKills   \* bound: processes killed from outside

ASSUME KillsAssumption == MaxKills \in Nat

VARIABLES
  alive,    \* processes of the tree
  stage,    \* of the drill and of the restore it runs
  target,   \* the database: "absent", "empty", "captured", "altered"
  jobs,     \* scheduled jobs or mail servers are active in it
  judged,   \* status in restore-results.json, "none" before there is one
  kills

drillVars == <<alive, stage, target, jobs, judged, kills>>

Processes == {"drill", "guard", "restore", "keeper", "tool"}
Stages == {"fetch", "prepared", "create", "load", "loading", "compare", "probe",
           "probing", "recheck", "results", "ended", "verified", "failed"}
Over == {"verified", "failed"}

DrillTypeOK ==
  /\ alive \subseteq Processes /\ stage \in Stages
  /\ target \in {"absent", "empty", "captured", "altered"} /\ jobs \in BOOLEAN
  /\ judged \in {"none", "failed", "verified"} /\ kills \in 0..MaxKills

DrillInit(running) ==
  /\ alive = running /\ stage = "fetch" /\ kills = 0
  /\ target = "absent" /\ jobs = FALSE /\ judged = "none"

\* A step of the restore process: at one stage, on to the next.
RestoreStep(from, to) ==
  /\ "restore" \in alive /\ stage = from /\ stage' = to /\ UNCHANGED kills

Data == <<target, jobs, judged>>

-----------------------------------------------------------------------------
(* The drill. *)

\* The receipt, the exact version it names, its hash, its members, its capture.
FetchBundle ==
  /\ "drill" \in alive /\ stage = "fetch"
  /\ stage' \in {"prepared", "failed"}
  /\ UNCHANGED <<alive, Data, kills>>

RunRestore ==
  /\ "drill" \in alive /\ stage = "prepared"
  /\ stage' = "create" /\ alive' = alive \cup {"guard", "restore"}
  /\ UNCHANGED <<Data, kills>>

\* The guard has reported: the drill reads the results, which count only if
\* the command ended by itself.
ReadResults ==
  /\ "drill" \in alive /\ alive \cap {"guard", "restore"} = {}
  /\ stage \notin {"fetch", "prepared"} \cup Over
  /\ stage' = IF stage = "ended" /\ judged = "verified" THEN "verified" ELSE "failed"
  /\ UNCHANGED <<alive, Data, kills>>

-----------------------------------------------------------------------------
(* The restore. *)

CreateTarget ==
  /\ RestoreStep("create", "load") /\ target = "absent" /\ target' = "empty"
  /\ UNCHANGED <<alive, jobs, judged>>

RunTool(from, to) ==
  /\ RestoreStep(from, to) /\ alive' = alive \cup {"keeper", "tool"} /\ UNCHANGED Data

\* The keeper has reported a tool that ended well: copy_tree follows the load.
ToolSucceeded(from, to) ==
  /\ RestoreStep(from, to) /\ alive \cap {"keeper", "tool"} = {"keeper"}
  /\ alive' = alive \ {"keeper"} /\ UNCHANGED Data

Conserved == target = "captured"

\* The fingerprint of the loaded database, then neutralize.
CompareAndNeutralize ==
  /\ RestoreStep("compare", "probe") /\ Conserved
  /\ jobs' = FALSE
  /\ UNCHANGED <<alive, target, judged>>

\* Mutant: the fingerprint is not taken again.
RecheckJobs ==
  /\ RestoreStep("recheck", "results")
  /\ judged' = IF jobs THEN "failed" ELSE "verified"
  /\ UNCHANGED <<alive, target, jobs>>

\* The fingerprint again, and no job active.
Recheck ==
  /\ RestoreStep("recheck", "results")
  /\ judged' = IF Conserved /\ ~jobs THEN "verified" ELSE "failed"
  /\ UNCHANGED <<alive, target, jobs>>

\* Anything raised on the way, a killed or failed tool among it; the results
\* are written once the directory for them is there.
RestoreFails ==
  /\ "restore" \in alive /\ stage \notin Over \cup {"results"}
  /\ judged' \in {judged, "failed"}
  /\ alive' = alive \ {"guard", "restore"}
  /\ UNCHANGED <<stage, target, jobs, kills>>

\* It ends; its guard sees the exit status and ends too.
RestoreEnds ==
  /\ "restore" \in alive /\ stage = "results"
  /\ alive' = alive \ {"guard", "restore"}
  /\ stage' = "ended"
  /\ UNCHANGED <<Data, kills>>

-----------------------------------------------------------------------------
(* The tools: pg_restore in one transaction, and Odoo loading its registry, *)
(* which may write to the database it is loaded from.                       *)

LoadCommits ==
  /\ "tool" \in alive /\ stage = "loading"
  /\ target' = "captured" /\ jobs' \in BOOLEAN /\ alive' = alive \ {"tool"}
  /\ UNCHANGED <<stage, judged, kills>>

ProbeWrites ==
  /\ "tool" \in alive /\ stage = "probing"
  /\ \/ target' = "altered" /\ UNCHANGED jobs
     \/ jobs' = TRUE /\ UNCHANGED target
  /\ UNCHANGED <<alive, stage, judged, kills>>

ProbeEnds ==
  /\ "tool" \in alive /\ stage = "probing"
  /\ alive' = alive \ {"tool"}
  /\ UNCHANGED <<stage, Data, kills>>

Tool == LoadCommits \/ ProbeWrites \/ ProbeEnds

-----------------------------------------------------------------------------
(* Ownership. *)

\* Mutant: a command that overruns its time is left alone.
GuardWaits(overrun) ==
  /\ "guard" \in alive /\ ("drill" \notin alive \/ "restore" \notin alive)
  /\ alive' = alive \ {"guard", "restore"}
  /\ UNCHANGED <<stage, Data, kills>>

\* A watcher sees the end of its caller, or the end of its time, and takes its
\* command with it.  A restore that dies leaves its tool to the keeper.
GuardActs(overrun) ==
  /\ "guard" \in alive /\ ("drill" \notin alive \/ "restore" \notin alive \/ overrun)
  /\ alive' = alive \ {"guard", "restore"}
  /\ UNCHANGED <<stage, Data, kills>>

\* The fetch before it has an alarm, the tool within it a shorter time.
KeeperActs(overrun) ==
  /\ "keeper" \in alive /\ ("restore" \notin alive \/ (overrun /\ "tool" \in alive))
  /\ alive' = alive \ {"keeper", "tool"}
  /\ UNCHANGED <<stage, Data, kills>>

Watchers == \E overrun \in BOOLEAN : GuardActs(overrun) \/ KeeperActs(overrun)

\* SIGKILL from outside; a command dies with its watcher.
Kill(p) ==
  /\ p \in alive /\ stage \notin Over /\ kills < MaxKills /\ kills' = kills + 1
  /\ alive' = alive \ (CASE p = "guard" -> {"guard", "restore"}
                         [] p = "keeper" -> {"keeper", "tool"}
                         [] OTHER -> {p})
  /\ UNCHANGED <<stage, Data>>

Drill   == FetchBundle \/ RunRestore \/ ReadResults
Restore == \/ CreateTarget \/ RunTool("load", "loading") \/ ToolSucceeded("loading", "compare")
           \/ CompareAndNeutralize \/ RunTool("probe", "probing")
           \/ ToolSucceeded("probing", "recheck") \/ Recheck \/ RestoreFails \/ RestoreEnds

DrillNext == Drill \/ Restore \/ Tool \/ Watchers \/ \E p \in Processes \ {"tool"} : Kill(p)

-----------------------------------------------------------------------------
(* Properties. *)

\* A drill is reported verified only with the captured accounting in its
\* database and no job active there, and with nothing left that could still
\* change either.
VerifiedIsCaptured ==
  /\ DrillTypeOK
  /\ stage = "verified" => /\ target = "captured" /\ ~jobs
                           /\ alive \subseteq {"drill"}

\* A drill that is not killed comes to an end, though its commands may hang;
\* and nothing outlives a drill: whichever of its processes is killed, or
\* hangs, all that it started ends.
DrillEnds ==
  /\ <>(stage \in Over \/ "drill" \notin alive)
  /\ "drill" \notin alive ~> alive = {}
=============================================================================
