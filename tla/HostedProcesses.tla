--------------------------- MODULE HostedProcesses ---------------------------
(***************************************************************************)
(* The two jobs of the operators that supervise processes: the capture     *)
(* that stops the server (WriterPause) and the drill that restores what a  *)
(* capture made (RestoreDrill).  They run on hosts of their own, so each   *)
(* behaviour is one of either.                                             *)
(***************************************************************************)
EXTENDS WriterPause, RestoreDrill

VARIABLE hosted   \* "capture" or "drill"

hostedVars == <<hosted, wpVars, drillVars>>

HostedInit ==
  /\ InitPause
  /\ \/ hosted = "capture" /\ DrillInit({})
     \/ hosted = "drill" /\ DrillInit({"drill"})

CaptureRuns(A) == hosted = "capture" /\ A /\ UNCHANGED <<hosted, drillVars>>
DrillRuns(A)   == hosted = "drill" /\ A /\ UNCHANGED <<hosted, wpVars>>

HostedNext == CaptureRuns(PauseNext) \/ DrillRuns(DrillNext)

\* Of the capture only the watchdog is sure to run: it waits for a timer or a
\* closed pipe.  The drill and its watchers run; the restore and its tools
\* may hang.
HostedFairness == /\ WF_hostedVars(CaptureRuns(Watchdog))
                  /\ WF_hostedVars(DrillRuns(Drill)) /\ WF_hostedVars(DrillRuns(Watchers))

HostedSpec == HostedInit /\ [][HostedNext]_hostedVars /\ HostedFairness
===============================================================================
