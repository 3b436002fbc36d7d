------------------------------ MODULE Service ------------------------------
(***************************************************************************)
(* The agent as a resident service, and what it leaves for others to read. *)
(*                                                                         *)
(*   handler     answers the service manager: start, stop, drain;          *)
(*   Loop.Run    the schedule, on its own goroutine until its context ends *)
(*   reportOnce  one cycle: authenticate (waiting out an approval), scan,  *)
(*               upload, remember the outcome in last-run.json;            *)
(*   publish     writes status.json, which the notification icon shows,    *)
(*               worked out from the cycle or, at rest, from the disk.     *)
(*                                                                         *)
(* Beside it an administrator enrolls the machine or wipes its state, and  *)
(* may run `dtp-agent run`, which writes the same last-run.json.           *)
(***************************************************************************)

CONSTANT ManualRuns   \* whether anybody runs `dtp-agent run` beside the service
ASSUME ManualRunsAssumption == ManualRuns \in BOOLEAN

VARIABLES
  config,     \* config.json can be read: the machine is enrolled
  scm,        \* what the service manager knows of the service
  ctxDone,    \* the context of the loop has been cancelled
  loop,       \* where the loop's goroutine stands; "off" without a process
  wait,       \* what the loop sleeps for
  failed,     \* the error of the cycle that just ended is not nil
  lastRun,    \* last-run.json: "none", "ok" or "error"
  shown,      \* the phase in status.json
  published,  \* lastPublishErr = "": the last publishing worked
  real        \* history: how the last cycle that no stop interrupted ended

processVars == <<scm, ctxDone>>
loopVars == <<loop, wait, failed>>
diskVars == <<lastRun, real>>
statusVars == <<shown, published>>
vars == <<config, processVars, loopVars, diskVars, statusVars>>

Phase == {"not_enrolled", "pending", "scheduled", "scanning", "reporting", "failed"}

Init ==
  /\ config \in BOOLEAN
  /\ scm = "stopped" /\ ctxDone = FALSE
  /\ loop = "off" /\ wait = "now" /\ failed = FALSE
  /\ lastRun = "none" /\ real = "none"
  /\ shown = "nothing" /\ published = TRUE

\* Publishing is best effort: the file keeps its phase when it fails.
Publish(phase) ==
  \/ shown' = phase /\ published' = TRUE
  \/ UNCHANGED shown /\ published' = FALSE

\* What publishResting works out from the disk.
Resting ==
  CASE ~config            -> "not_enrolled"
    [] config /\ lastRun = "none"  -> "scheduled"
    [] config /\ lastRun = "error" -> "failed"
    [] config /\ lastRun = "ok"    -> "reporting"

\* publishResting and enrolled say nothing when the directory cannot be opened.
ShowAtRest(phase) == Publish(phase) \/ UNCHANGED statusVars

-----------------------------------------------------------------------------
(* The administrator and the service manager.                              *)

\* `dtp-agent enroll`, or the state directory wiped.
Enroll ==
  /\ config' = ~config
  /\ UNCHANGED <<processVars, loopVars, diskVars, statusVars>>

\* `dtp-agent run` in another process reached its upload.
ManualRun ==
  /\ ManualRuns /\ config
  /\ lastRun' \in {"ok", "error"}
  /\ UNCHANGED <<config, processVars, loopVars, real, statusVars>>

\* runService publishes what is at rest, then Execute starts the loop.
Start ==
  /\ scm = "stopped"
  /\ scm' = "running" /\ ctxDone' = FALSE
  /\ loop' = "first" /\ failed' = FALSE /\ UNCHANGED wait
  /\ Publish(Resting)
  /\ UNCHANGED <<config, diskVars>>

StopRequested ==
  /\ scm = "running"
  /\ scm' = "stopping" /\ ctxDone' = TRUE
  /\ UNCHANGED <<config, loopVars, diskVars, statusVars>>

Exit ==
  /\ scm' = "stopped" /\ loop' = "off"
  /\ UNCHANGED <<config, ctxDone, wait, failed, diskVars, statusVars>>

\* A mutant of StopCompleted: drain waits for the scan however long it takes.
DrainedOnly == scm # "stopped" /\ loop = "ended" /\ Exit

\* drain returns when the loop has finished, or when the grace is over; the
\* process exits and takes a loop still running with it.
StopCompleted ==
  /\ scm = "stopping" \/ (scm = "running" /\ loop = "ended")
  /\ Exit

\* The process is killed, or the machine goes down.
Killed == scm # "stopped" /\ Exit

-----------------------------------------------------------------------------
(* The schedule.                                                           *)

\* enrolled, asked before the first sleep: the first run is immediate when
\* the agent was not enrolled, and delayed when it was.
First ==
  /\ loop = "first"
  /\ loop' = "sleep"
  /\ \/ config /\ wait' = "boot" /\ UNCHANGED statusVars
     \/ ~config /\ wait' = "now" /\ ShowAtRest("not_enrolled")
  /\ UNCHANGED <<config, processVars, failed, diskVars>>

\* The timer fires, even as the context ends: select takes either.
Wake ==
  /\ loop = "sleep"
  /\ wait = "now" => ~ctxDone
  /\ loop' = "check"
  /\ UNCHANGED <<config, processVars, wait, failed, diskVars, statusVars>>

SleepStopped ==
  /\ loop = "sleep" /\ ctxDone
  /\ loop' = "ended"
  /\ UNCHANGED <<config, processVars, wait, failed, diskVars, statusVars>>

\* A mutant of Check: enrollment asked once, before the first sleep.
CheckedAtStart ==
  /\ loop = "check"
  /\ \/ wait \in {"boot", "hour"} /\ loop' = "auth" /\ UNCHANGED <<wait, statusVars>>
     \/ wait \in {"now", "poll"} /\ loop' = "sleep" /\ wait' = "poll" /\ ShowAtRest("not_enrolled")
  /\ UNCHANGED <<config, processVars, failed, diskVars>>

Check ==
  /\ loop = "check"
  /\ \/ config /\ loop' = "auth" /\ UNCHANGED <<wait, statusVars>>
     \/ ~config /\ loop' = "sleep" /\ wait' = "poll" /\ ShowAtRest("not_enrolled")
  /\ UNCHANGED <<config, processVars, failed, diskVars>>

\* A mutant of Worked: a cycle that failed ends the loop.
WorkedOrDone ==
  /\ loop = "worked"
  /\ IF failed THEN loop' = "ended" /\ UNCHANGED wait
                ELSE loop' = "sleep" /\ wait' = "hour"
  /\ UNCHANGED <<config, processVars, failed, diskVars, statusVars>>

\* work returned: only a stop ends the loop, any other error waits an hour.
Worked ==
  /\ loop = "worked"
  /\ IF failed /\ ctxDone THEN loop' = "ended" /\ UNCHANGED wait
                          ELSE loop' = "sleep" /\ wait' = "hour"
  /\ UNCHANGED <<config, processVars, failed, diskVars, statusVars>>

-----------------------------------------------------------------------------
(* One cycle.                                                              *)

\* The cycle is over with an error; one under a cancelled context is not an
\* outcome but an interruption.
Fail ==
  /\ loop' = "publish" /\ failed' = TRUE
  /\ real' = IF ctxDone THEN real ELSE "failed"

\* Refused, unreachable, or the state directory, the config or the key could
\* not be read.  Nothing is remembered.
AuthFails ==
  /\ loop = "auth"
  /\ Fail
  /\ UNCHANGED <<config, processVars, wait, lastRun, statusVars>>

NotApproved ==
  /\ loop = "auth" /\ ~ctxDone
  /\ loop' = "pending"
  /\ Publish("pending")
  /\ UNCHANGED <<config, processVars, wait, failed, diskVars>>

Retry ==
  /\ loop = "pending"
  /\ loop' = "auth"
  /\ UNCHANGED <<config, processVars, wait, failed, diskVars, statusVars>>

PendingStopped ==
  /\ loop = "pending" /\ ctxDone
  /\ Fail
  /\ UNCHANGED <<config, processVars, wait, lastRun, statusVars>>

Authenticated ==
  /\ loop = "auth" /\ ~ctxDone
  /\ loop' = "scan"
  /\ Publish("scanning")
  /\ UNCHANGED <<config, processVars, wait, failed, diskVars>>

ScanEnds ==
  /\ loop = "scan"
  /\ loop' = "upload"
  /\ UNCHANGED <<config, processVars, wait, failed, diskVars, statusVars>>

\* Report succeeded and the outcome is remembered; when it cannot be, the
\* cycle has failed.
Uploaded ==
  /\ loop = "upload" /\ ~ctxDone
  /\ \/ /\ lastRun' = "ok" /\ real' = "ok"
        /\ loop' = "publish" /\ failed' = FALSE
     \/ Fail /\ UNCHANGED lastRun
  /\ UNCHANGED <<config, processVars, wait, statusVars>>

\* Report failed, the context's end included; that it cannot be remembered
\* is ignored.
UploadFails ==
  /\ loop = "upload"
  /\ lastRun' \in {lastRun, "error"}
  /\ Fail
  /\ UNCHANGED <<config, processVars, wait, statusVars>>

\* A mutant of PublishOutcome: what is on disk, whether interrupted or not.
PublishResting ==
  /\ loop = "publish"
  /\ loop' = "worked"
  /\ Publish(Resting)
  /\ UNCHANGED <<config, processVars, wait, failed, diskVars>>

\* outcome: what is at rest when a stop has come, else how the cycle ended.
PublishOutcome ==
  /\ loop = "publish"
  /\ loop' = "worked"
  /\ \/ ctxDone /\ ShowAtRest(Resting)
     \/ ~ctxDone /\ failed /\ Publish("failed")
     \/ ~ctxDone /\ ~failed /\ Publish("reporting")
  /\ UNCHANGED <<config, processVars, wait, failed, diskVars>>

-----------------------------------------------------------------------------
Cycle == AuthFails \/ NotApproved \/ Retry \/ PendingStopped \/ Authenticated \/ Uploaded
           \/ UploadFails \/ PublishOutcome
Schedule == First \/ Wake \/ SleepStopped \/ Check \/ Worked

Next ==
  \/ Enroll \/ ManualRun
  \/ Start \/ StopRequested \/ StopCompleted \/ Killed
  \/ Schedule \/ Cycle \/ ScanEnds

(***************************************************************************)
(* Timers fire and requests end by their timeout, so the loop goes on; a   *)
(* scan may not, reading from a file system that never answers.  The       *)
(* manager's goroutine drains by its own clock.                            *)
(***************************************************************************)
Fairness == WF_vars(Schedule \/ Cycle) /\ WF_vars(StopCompleted)

Spec == Init /\ [][Next]_vars /\ Fairness

-----------------------------------------------------------------------------
(* Properties.                                                             *)

\* Every variable keeps its shape, and there is a loop exactly while there is
\* a process, stopping only with its context cancelled (Execute, drain).
TypeOK ==
  /\ config \in BOOLEAN /\ ctxDone \in BOOLEAN /\ failed \in BOOLEAN
  /\ published \in BOOLEAN
  /\ scm \in {"stopped", "running", "stopping"}
  /\ loop \in {"off", "first", "sleep", "check", "auth", "pending", "scan", "upload",
               "publish", "worked", "ended"}
  /\ wait \in {"now", "boot", "poll", "hour"}
  /\ lastRun \in {"none", "ok", "error"} /\ real \in {"none", "ok", "failed"}
  /\ shown \in Phase \cup {"nothing"}
  /\ loop = "off" <=> scm = "stopped"
  /\ loop = "ended" => scm = "stopping"

\* Asleep between cycles, the service shows how its last cycle ended, whatever
\* other processes wrote to last-run.json and whatever could not be written
\* (handler.scan, outcome, publish).
StatusTellsLastCycle ==
  loop = "sleep" /\ wait = "hour" /\ ~ctxDone /\ published =>
    /\ shown = "reporting" => real = "ok"
    /\ shown = "failed" => real = "failed"
    /\ shown \in {"reporting", "failed"}

\* A stop that was asked for completes, even when a scan hangs (drain).
StopCompletes == scm = "stopping" ~> scm = "stopped"

\* An enrolled agent whose service runs comes to a cycle again and again: no
\* failure ends the loop, and no state of the approval (Loop.Run).
KeepsReporting ==
  scm = "running" /\ config ~> loop \in {"auth", "scan"} \/ scm # "running" \/ ~config
=============================================================================
