----------------------------- MODULE ServiceLog -----------------------------
(***************************************************************************)
(* The service's log (service.Log): agent.log and the one file before it.  *)
(*                                                                         *)
(* A service that waits says the same thing every minute, so a repeat is   *)
(* counted and not written until the window has passed; the next line      *)
(* carries the count.  A file at the cap is moved aside.  Whatever fails   *)
(* costs the log and not the scan: the caller is never told.               *)
(*                                                                         *)
(* Files are measured in lines and time in parts of the window.            *)
(***************************************************************************)
EXTENDS Integers

CONSTANTS
  Messages,
  Max,         \* lines at which the file is rotated
  Window,      \* parts of RepeatWindow
  MaxRepeats   \* bound: repeats are counted up to here

ASSUME LogAssumption == {Max, Window, MaxRepeats} \subseteq Nat \ {0}

None == "none"
ASSUME None \notin Messages

VARIABLES
  up,          \* the service has its log open
  open,        \* f is not nil (while the service is up)
  live, old,   \* lines in agent.log and in agent.log.old
  last, lastAt,\* the last message, and how long ago it was written, up to Window
  suppressed,
  behind,      \* history: calls of Printf that no line accounts for ...
  lost,        \* ... and whether a failure is the reason
  silence      \* history: how long ago a line came into the file, up to Window

files == <<live, old>>
repeats == <<last, lastAt, suppressed>>
logVars == <<up, open, files, repeats, behind, lost, silence>>

LogInit ==
  /\ up = FALSE /\ open = FALSE /\ live = 0 /\ old = 0
  /\ last = None /\ lastAt = 0 /\ suppressed = 0
  /\ behind = 0 /\ lost = FALSE /\ silence = 0

UpTo(n, most) == IF n < most THEN n ELSE most

-----------------------------------------------------------------------------
(* Files.                                                                  *)

\* rotate: the old file makes room and the live one takes its name.  Either may
\* fail, with somebody reading one of them.
Rotate(lines) ==
  \/ live' = 0 /\ old' = lines
  \/ live' = lines /\ old' \in {0, old}

\* OpenLog: a file at the cap is rotated first, and when that fails, or no file
\* can be opened, the service does not start.
OpenLog ==
  /\ ~up
  /\ IF live >= Max THEN Rotate(live) ELSE UNCHANGED files
  /\ open' \in BOOLEAN /\ (open' => live' < Max)
  /\ up' = open'
  /\ last' = None /\ lastAt' = 0 /\ suppressed' = 0
  /\ behind' = 0 /\ lost' = FALSE /\ silence' = 0

\* A mutant of AddLine: a rotation that failed is forgotten.
AddLineRegardless ==
  IF live + 1 < Max THEN live' = live + 1 /\ open' = TRUE /\ UNCHANGED old
  ELSE Rotate(live + 1) /\ open' \in BOOLEAN

\* A line in the file; one that fills it has it rotated and opened anew, and
\* when either fails there is no file any more.
AddLine ==
  IF live + 1 < Max THEN live' = live + 1 /\ open' = TRUE /\ UNCHANGED old
  ELSE Rotate(live + 1) /\ open' \in BOOLEAN /\ (open' => live' = 0)

\* Counted only while nothing was lost.
Owe(calls) == behind' = IF lost THEN 0 ELSE UpTo(behind + calls, MaxRepeats)

\* One line that stands for so many calls made before, if it can be written.
Write(calls) ==
  \/ open /\ AddLine /\ Owe(-calls) /\ silence' = 0 /\ lost' = (lost \/ ~open')
  \/ lost' = TRUE /\ behind' = 0 /\ UNCHANGED <<files, open, silence>>

-----------------------------------------------------------------------------
(* Lines.                                                                  *)

Repeat(m) == m = last /\ lastAt < Window

\* A mutant of Suppress: the window starts again with every repeat.
SuppressAnew(m) ==
  /\ up /\ Repeat(m)
  /\ suppressed' = UpTo(suppressed + 1, MaxRepeats) /\ Owe(1) /\ lastAt' = 0
  /\ UNCHANGED <<up, open, files, last, lost, silence>>

Suppress(m) ==
  /\ up /\ Repeat(m)
  /\ suppressed' = UpTo(suppressed + 1, MaxRepeats) /\ Owe(1)
  /\ UNCHANGED <<up, open, files, last, lastAt, lost, silence>>

\* The line carries the count of what was suppressed, of whichever message.
Say(m) ==
  /\ up /\ ~Repeat(m)
  /\ last' = m /\ lastAt' = 0 /\ suppressed' = 0
  /\ Write(suppressed)
  /\ UNCHANGED up

Printf == \E m \in Messages : Suppress(m) \/ Say(m)

\* A mutant of Close: the count is not written.
CloseAtOnce ==
  /\ up
  /\ up' = FALSE /\ suppressed' = 0
  /\ UNCHANGED <<open, files, last, lastAt, behind, lost, silence>>

\* The service stops.
Close ==
  /\ up /\ up' = FALSE /\ suppressed' = 0
  /\ IF suppressed = 0 \/ ~open THEN UNCHANGED <<files, open, behind, lost, silence>> ELSE Write(suppressed)
  /\ UNCHANGED <<last, lastAt>>

LogKilled ==
  /\ up /\ up' = FALSE /\ suppressed' = 0 /\ behind' = 0
  /\ UNCHANGED <<open, files, last, lastAt, lost, silence>>

Tick ==
  /\ up /\ lastAt' = UpTo(lastAt + 1, Window) /\ silence' = UpTo(silence + 1, Window)
  /\ UNCHANGED <<up, open, files, last, suppressed, behind, lost>>

LogNext == OpenLog \/ Printf \/ Close \/ LogKilled \/ Tick

\* A service that runs goes on saying what it does, at least once a minute while
\* it waits, and time passes.
LogSpec == LogInit /\ [][LogNext]_logVars /\ WF_logVars(Printf) /\ WF_logVars(Tick)
-----------------------------------------------------------------------------
(* Properties.                                                             *)

\* Every variable keeps its shape; and no file grows past the cap by more than
\* the line that reached it, whatever cannot be removed, renamed or opened, and
\* however often the service starts again (open, rotate, writeLocked).
LogTypeOK ==
  /\ {up, open, lost} \subseteq BOOLEAN
  /\ live \in 0..Max /\ old \in 0..Max
  /\ last \in Messages \cup {None}
  /\ lastAt \in 0..Window /\ silence \in 0..Window
  /\ suppressed \in 0..MaxRepeats

\* No line goes unaccounted for: as long as nothing failed, the counts on the
\* lines written and the count kept add up to the calls made, a service that
\* stopped having kept none (Printf, Close).
CountsAddUp == ~lost => behind = IF up THEN suppressed ELSE 0

\* A service that says the same for ever is not taken for one that died: as
\* long as nothing failed, a line comes into the log again and again (Printf).
LogKeepsMoving == []<>(silence = 0 \/ lost \/ ~up)
=============================================================================
