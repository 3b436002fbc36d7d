-------------------------------- MODULE Icon --------------------------------
(***************************************************************************)
(* The notification-area icon, and the status file it goes by.             *)
(*                                                                         *)
(*   service   writes public/status.json at every phase and every poll     *)
(*             (publish, WritePublicStatus); it may hang at any point      *)
(*   icon      reads the file and asks the service manager, every few      *)
(*             seconds (refresh, Describe), and speaks up                  *)
(*                                                                         *)
(* Time passes in ticks; the constants keep the order of the code's times. *)
(* What the icon says of a status depends on its phase and on one time in  *)
(* it: LastRunAt of a "reporting" one, UpdatedAt of the others.            *)
(***************************************************************************)
EXTENDS Integers

CONSTANTS
  Limit,       \* the longest a status may go unwritten: heartbeat, and StaleAfter
               \* for the report of a "reporting" one
  Due,         \* the longest a service ordinarily stays in a phase before it writes again
  Longer,      \* of a phase nothing bounds, how much longer it may last: a pending
               \* agent waits for as long as the server asks, a scan has no timeout
  Oldest       \* bound: times are told apart up to here

Phase == {"not_enrolled", "pending", "scheduled", "scanning", "reporting", "failed"}
None == -1   \* no such time
Nothing == [phase |-> "nothing", age |-> None]

ASSUME TimesAssumption ==
  /\ Limit \in [Phase \ {"failed"} -> Nat] /\ Due \in [Phase -> Nat]
  /\ \A p \in DOMAIN Limit : Due[p] <= Limit[p] /\ Limit[p] < Oldest
  /\ Longer \in [{"pending", "scanning"} -> Nat] /\ Oldest \in Nat

VARIABLES
  scm,       \* what the service manager says of the service
  phase,     \* what the service is doing ...
  rested,    \* ... as worked out from the disk
  left,      \* ticks until it goes on at the latest ...
  late,      \* ... which is more than is due
  wedged,    \* it hangs
  writing,   \* "no", or the temporary file waits for its "first" or "second" rename
  publishing,\* the last attempt: "ok"; "said", it failed and lastPublishErr has it;
             \* "unopened", the state directory could not be opened
  status,    \* status.json: [phase, age]
  reading,   \* some icon has status.json open
  health,    \* the icon's: "none" without a view
  added,     \* it is in the notification area
  turned,    \* history of the trouble that lasts: in place, it saw it come,
  warned,    \* the warnings it gave of it, and
  blind      \* whether either source failed it at some look since

service == <<scm, phase, rested, left, late, wedged>>
file == <<writing, publishing, status>>
trouble == <<turned, warned, blind>>
icon == <<health, added, trouble>>
vars == <<service, file, reading, icon>>

Init ==
  /\ scm = "stopped" /\ phase = "scheduled" /\ rested = TRUE /\ left = 0 /\ late = FALSE /\ wedged = FALSE
  /\ writing = "no" /\ publishing = "ok" /\ status = Nothing /\ reading = FALSE
  /\ health = "none" /\ added = FALSE /\ turned = FALSE /\ warned = 0 /\ blind = FALSE

-----------------------------------------------------------------------------
(* Publishing.                                                             *)

Free == scm # "stopped" /\ ~wedged

\* A time of the status as it is written, that of the last report if need be:
\* none when last-run.json could not be read.
Ages(p) == IF p # "reporting" THEN {0} ELSE IF rested THEN 0..Oldest \cup {None} ELSE {0, None}

\* publish: the phase is begun and its status is on the way, unless the directory
\* could not be opened, or the temporary file not written.
Begin(p, resting) ==
  /\ phase' = p /\ rested' = resting
  /\ left' \in {Due[p]} \cup IF p \in DOMAIN Longer THEN {Longer[p]} ELSE {}
  /\ late' = (left' > Due[p])
  /\ \/ writing' = "first" /\ UNCHANGED publishing
     \/ writing' = "no" /\ publishing' = "said"
     \/ writing' = "no" /\ publishing' = "unopened" /\ (resting \/ p = "not_enrolled")
  /\ UNCHANGED status

\* The rename fails while an icon has the file open; the old one stays whole.
RenameWorks ==
  /\ Free /\ writing # "no" /\ ~reading
  /\ writing' = "no" /\ publishing' = "ok"
  /\ \E age \in Ages(phase) : status' = [phase |-> phase, age |-> age]
  /\ UNCHANGED <<service, reading, icon>>

\* A mutant of RenameFails: the second failure is passed over.
RenameFailsQuietly ==
  /\ Free /\ writing # "no" /\ reading
  /\ IF writing = "first" THEN writing' = "second" /\ UNCHANGED publishing
                          ELSE writing' = "no" /\ publishing' = "ok"
  /\ UNCHANGED <<service, status, reading, icon>>

\* One retry; then publishFailed.
RenameFails ==
  /\ Free /\ writing # "no" /\ reading
  /\ IF writing = "first" THEN writing' = "second" /\ UNCHANGED publishing
                          ELSE writing' = "no" /\ publishing' = "said"
  /\ UNCHANGED <<service, status, reading, icon>>

-----------------------------------------------------------------------------
(* The service: what Service says of it, with the times.                   *)

\* runService publishes what is at rest before it becomes a service.
Start ==
  /\ scm = "stopped" /\ scm' = "starting"
  /\ \E p \in {"not_enrolled", "scheduled", "reporting", "failed"} : Begin(p, TRUE)
  /\ UNCHANGED <<wedged, reading, icon>>

Running ==
  /\ scm = "starting" /\ writing = "no" /\ ~wedged
  /\ scm' = "running"
  /\ UNCHANGED <<phase, rested, left, late, wedged, file, reading, icon>>

\* What may follow a phase: a wait ends in a poll or a cycle, an approval in
\* another or a scan, a scan in its outcome.
After(p) ==
  CASE p = "pending" -> {"pending", "scanning", "failed"}
    [] p = "scanning" -> {"reporting", "failed"}
    [] OTHER -> {"not_enrolled", "pending", "scanning", "failed"}

GoOn ==
  /\ scm = "running" /\ writing = "no" /\ ~wedged
  /\ \E p \in After(phase) : Begin(p, FALSE)
  /\ UNCHANGED <<scm, wedged, reading, icon>>

\* A scan or a request that never ends.
Hang ==
  /\ scm = "running" /\ ~wedged
  /\ wedged' = TRUE
  /\ UNCHANGED <<scm, phase, rested, left, late, file, reading, icon>>

\* Interrupted in a cycle, the service publishes what is at rest.
StopRequested ==
  /\ scm = "running" /\ scm' = "stopping"
  /\ \/ UNCHANGED <<phase, rested, left, late, file>>
     \/ /\ ~wedged /\ writing = "no" /\ phase \in {"pending", "scanning"}
        /\ \E p \in {"not_enrolled", "scheduled", "reporting", "failed"} : Begin(p, TRUE)
  /\ UNCHANGED <<wedged, reading, icon>>

\* Stopped, at the latest when the grace is over, or killed.
Exit ==
  /\ scm # "stopped"
  /\ scm' = "stopped" /\ wedged' = FALSE /\ writing' = "no" /\ left' = 0
  /\ UNCHANGED <<phase, rested, late, publishing, status, reading, icon>>

-----------------------------------------------------------------------------
(* The icon.                                                               *)

Stale(st) == st.phase \in DOMAIN Limit /\ st.age # None /\ st.age > Limit[st.phase]

\* A mutant of Called: only the last report is looked at.
CalledByReport(answer, st) ==
  answer \notin {"stopped", "stopping"} /\ Stale(st) /\ st.phase = "reporting"

\* The file stopped moving under a service that runs, or there was no report.
Called(answer, st) ==
  /\ answer \notin {"stopped", "stopping"}
  /\ Stale(st) /\ (st.phase = "reporting" \/ answer = "running")

\* Describe: the manager's answer first, then what could be read.
Describe(answer, readable, st) ==
  CASE answer = "stopped" -> "problem"
    [] answer = "stopping" -> "attention"
    [] answer \notin {"stopped", "stopping"} /\ (~readable \/ st = Nothing) -> "unknown"
    [] OTHER ->
         IF st.phase = "failed" THEN "problem"
         ELSE IF \/ st.phase \in {"not_enrolled", "pending"}
                 \/ Called(answer, st)
                 \/ answer \notin {"running", "starting"}
              THEN "attention" ELSE "good"

\* A mutant of Speak: at every look.
SpeakAlways(before, now) == before # "none" /\ now = "problem"

\* Spoken up once per transition.
Speak(before, now) == before # "none" /\ now = "problem" /\ before # "problem"

Open ==
  /\ ~reading /\ reading' = TRUE
  /\ UNCHANGED <<service, file, icon>>

\* The trouble is over when a look that neither source failed finds none.
Follow(failed) ==
  IF health' # "problem" /\ ~failed THEN turned' = FALSE /\ warned' = 0 /\ blind' = FALSE
  ELSE /\ turned' = (turned \/ (added /\ health \notin {"none", "problem"} /\ health' = "problem"))
       /\ warned' = IF added /\ Speak(health, health') /\ warned < 2 THEN warned + 1 ELSE warned
       /\ blind' = (blind \/ failed)

\* refresh.  The manager may not answer, the file not be readable; an icon that
\* is not there yet is added now, if Explorer is ready, and says nothing.
Refresh ==
  /\ reading /\ reading' = FALSE
  /\ IF added THEN UNCHANGED added ELSE added' \in BOOLEAN
  /\ \E answer \in {scm, "unknown"}, readable \in BOOLEAN :
       /\ health' = Describe(answer, readable, status)
       /\ Follow(answer # scm \/ ~readable)
  /\ UNCHANGED <<service, file>>

\* Another user's icon, or anybody else, reads the file.
OtherReads == reading /\ reading' = FALSE /\ UNCHANGED <<service, file, icon>>

\* Explorer started again and broadcasts TaskbarCreated.
TaskbarCreated ==
  /\ health # "none"
  /\ added' \in BOOLEAN
  /\ UNCHANGED <<service, file, reading, health, trouble>>

\* Closed from its menu, or its user signed out.
Leave ==
  /\ health # "none"
  /\ health' = "none" /\ added' = FALSE /\ turned' = FALSE /\ warned' = 0 /\ blind' = FALSE
  /\ UNCHANGED <<service, file, reading>>

-----------------------------------------------------------------------------
\* A service that is not wedged goes on when it is due.
Older(age) == IF age = None \/ age = Oldest THEN age ELSE age + 1
Tick ==
  /\ scm = "stopped" \/ wedged \/ (scm = "running" /\ writing = "no" /\ left > 0)
  /\ left' = IF left > 0 /\ ~wedged THEN left - 1 ELSE left
  /\ status' = IF status.phase \notin DOMAIN Limit THEN status ELSE [status EXCEPT !.age = Older(@)]
  /\ UNCHANGED <<scm, phase, rested, late, wedged, writing, publishing, reading, icon>>

Publish == RenameWorks \/ RenameFails
Next ==
  \/ Start \/ Running \/ GoOn \/ Hang \/ StopRequested \/ Exit \/ Publish
  \/ Open \/ Refresh \/ OtherReads \/ TaskbarCreated \/ Leave \/ Tick

\* Time passes, and the icon's timer goes off.
Spec == Init /\ [][Next]_vars /\ WF_vars(Tick) /\ WF_vars(Open) /\ SF_vars(Refresh)

-----------------------------------------------------------------------------
(* Properties.                                                             *)

\* A healthy service is never called stuck, whoever looks and when, as long as
\* its status could be published or the log says why not (heartbeat, StaleAfter,
\* WritePublicStatus).  But for a machine that just started, whose last report may
\* be of any age, a server that asks for a longer wait than the heartbeat, a scan
\* that is longer than it, and a state directory that cannot be opened.
HealthyIsNotCalledStuck ==
  scm \in {"starting", "running"} /\ Called(scm, status) =>
    \/ wedged \/ writing # "no" \/ publishing # "ok"
    \/ status.phase = "reporting" /\ rested
    \/ status.phase \in DOMAIN Longer /\ late

\* A service that hangs for good does not stay green, whatever it published last,
\* unless that has no time of a report in it (Describe).
StuckIsShown ==
  <>[](scm = "running" /\ wedged /\ status.age # None) => <>[](health # "good")

\* A trouble that comes before the icon's eyes is spoken of, and once: again only
\* after a look at which the manager did not answer or the file could not be read,
\* which passes for a change (refresh).
OneWarning == (turned => warned # 0) /\ (warned <= 1 \/ blind)
=============================================================================
