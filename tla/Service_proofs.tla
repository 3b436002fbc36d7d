--------------------------- MODULE Service_proofs ---------------------------
(***************************************************************************)
(* Proofs about the service and its log, with manual runs beside it or     *)
(* not, for any messages, cap and window:                                  *)
(*                                                                         *)
(*   TypeCorrect      the shapes; the loop ends only under a stop          *)
(*   Truthful         between cycles the service shows how its last cycle  *)
(*                    ended                                                *)
(*   LogTypeCorrect   the log's shapes, and the cap on both files          *)
(*   Accounted        no line goes unaccounted for                         *)
(*                                                                         *)
(* The inductive invariant follows the outcome of a cycle from where it is *)
(* decided (loop = "publish") through where it is shown ("worked") to the  *)
(* sleep the property speaks of.  The cap holds because a file that is     *)
(* open has room for another line, whatever failed before; the counts      *)
(* because a log that lost its file knows that it did.                     *)
(***************************************************************************)
EXTENDS Service, ServiceLog, TLAPS

\* The context ends only by a stop, and with the process.
StopOnly == scm = "running" => ~ctxDone

\* A cycle no stop has interrupted ended as `failed` says.
Decided == loop = "publish" /\ ~ctxDone => real = IF failed THEN "failed" ELSE "ok"

\* And that is what it put on show, unless it could not be written.
Told == loop = "worked" \/ (loop = "sleep" /\ wait = "hour")
Shown ==
  Told /\ ~ctxDone /\ published =>
    \/ shown = "reporting" /\ real = "ok"
    \/ shown = "failed" /\ real = "failed"

Inv == TypeOK /\ StopOnly /\ Decided /\ Shown

LEMMA InitInv == Init => Inv
BY DEF Init, Inv, TypeOK, StopOnly, Decided, Shown, Told, Phase

\* Publishing keeps what is shown a phase.
LEMMA PublishType ==
  ASSUME TypeOK, NEW phase \in Phase, Publish(phase)
  PROVE  shown' \in Phase \cup {"nothing"} /\ published' \in BOOLEAN
BY DEF TypeOK, Publish

LEMMA RestingPhase == ASSUME TypeOK PROVE Resting \in Phase
BY DEF TypeOK, Resting, Phase

LEMMA ShowAtRestType ==
  ASSUME TypeOK, NEW phase \in Phase, ShowAtRest(phase)
  PROVE  shown' \in Phase \cup {"nothing"} /\ published' \in BOOLEAN
BY PublishType DEF TypeOK, ShowAtRest, statusVars

-----------------------------------------------------------------------------
(* One lemma for the steps around the loop, one for the schedule, one for  *)
(* the cycle.                                                              *)

LEMMA AroundStep ==
  ASSUME Inv,
         \/ Enroll \/ ManualRun \/ Start \/ StopRequested \/ StopCompleted \/ Killed
  PROVE  Inv'
<1> USE DEF Inv, TypeOK, StopOnly, Decided, Shown, Told, processVars, loopVars, diskVars, statusVars
<1>1. CASE Enroll BY <1>1 DEF Enroll
<1>2. CASE ManualRun BY <1>2 DEF ManualRun
<1>3. CASE Start
  <2>1. shown' \in Phase \cup {"nothing"} /\ published' \in BOOLEAN
    BY <1>3, RestingPhase, PublishType DEF Start
  <2>2. QED BY <1>3, <2>1 DEF Start
<1>4. CASE StopRequested BY <1>4 DEF StopRequested
<1>5. CASE StopCompleted BY <1>5 DEF StopCompleted, Exit
<1>6. CASE Killed BY <1>6 DEF Killed, Exit
<1>7. QED BY <1>1, <1>2, <1>3, <1>4, <1>5, <1>6

LEMMA ScheduleStep ==
  ASSUME Inv, Schedule
  PROVE  Inv'
<1> USE DEF Inv, TypeOK, StopOnly, Decided, Shown, Told, processVars, loopVars, diskVars, statusVars
<1>1. "not_enrolled" \in Phase BY DEF Phase
<1>2. CASE First
  <2>1. shown' \in Phase \cup {"nothing"} /\ published' \in BOOLEAN
    BY <1>1, <1>2, ShowAtRestType DEF First
  <2>2. QED BY <1>2, <2>1 DEF First
<1>3. CASE Wake BY <1>3 DEF Wake
<1>4. CASE SleepStopped BY <1>4 DEF SleepStopped
<1>5. CASE Check
  <2>1. shown' \in Phase \cup {"nothing"} /\ published' \in BOOLEAN
    BY <1>1, <1>5, ShowAtRestType DEF Check
  <2>2. QED BY <1>5, <2>1 DEF Check
<1>6. CASE Worked BY <1>6 DEF Worked
<1>7. QED BY <1>2, <1>3, <1>4, <1>5, <1>6 DEF Schedule

LEMMA CycleStep ==
  ASSUME Inv, Cycle \/ ScanEnds
  PROVE  Inv'
<1> USE DEF Inv, TypeOK, StopOnly, Decided, Shown, Told, processVars, loopVars, diskVars, statusVars
<1>1. {"pending", "scanning", "failed", "reporting"} \subseteq Phase BY DEF Phase
<1>2. CASE AuthFails BY <1>2 DEF AuthFails, Fail
<1>3. CASE NotApproved
  <2>1. shown' \in Phase \cup {"nothing"} /\ published' \in BOOLEAN
    BY <1>1, <1>3, PublishType DEF NotApproved
  <2>2. QED BY <1>3, <2>1 DEF NotApproved
<1>4. CASE Retry BY <1>4 DEF Retry
<1>5. CASE PendingStopped BY <1>5 DEF PendingStopped, Fail
<1>6. CASE Authenticated
  <2>1. shown' \in Phase \cup {"nothing"} /\ published' \in BOOLEAN
    BY <1>1, <1>6, PublishType DEF Authenticated
  <2>2. QED BY <1>6, <2>1 DEF Authenticated
<1>7. CASE ScanEnds BY <1>7 DEF ScanEnds
<1>8. CASE Uploaded BY <1>8 DEF Uploaded, Fail
<1>9. CASE UploadFails BY <1>9 DEF UploadFails, Fail
<1>10. CASE PublishOutcome
  <2>1. shown' \in Phase \cup {"nothing"} /\ published' \in BOOLEAN
    BY <1>1, <1>10, RestingPhase, PublishType, ShowAtRestType DEF PublishOutcome
  <2>2. ~ctxDone' /\ published' =>
          \/ shown' = "reporting" /\ real' = "ok"
          \/ shown' = "failed" /\ real' = "failed"
    BY <1>10 DEF PublishOutcome, Publish
  <2>3. QED BY <1>10, <2>1, <2>2 DEF PublishOutcome
<1>11. QED BY <1>2, <1>3, <1>4, <1>5, <1>6, <1>7, <1>8, <1>9, <1>10 DEF Cycle

LEMMA InvStep == Inv /\ [Next]_vars => Inv'
<1>1. CASE UNCHANGED vars
  BY <1>1 DEF Inv, TypeOK, StopOnly, Decided, Shown, Told, vars, processVars, loopVars, diskVars,
              statusVars
<1>2. QED BY <1>1, AroundStep, ScheduleStep, CycleStep DEF Next

-----------------------------------------------------------------------------
(* The theorems.                                                           *)

LEMMA Invariance == Spec => []Inv
BY InitInv, InvStep, PTL DEF Spec

\* Every variable keeps its shape; in particular the loop of Execute never
\* ends while the service is running and no stop was asked for.
THEOREM TypeCorrect == Spec => []TypeOK
<1>1. Inv => TypeOK BY DEF Inv
<1>2. QED BY <1>1, Invariance, PTL

\* Between cycles status.json shows how the last cycle ended, whatever other
\* processes wrote to last-run.json meanwhile (handler.scan, outcome).
THEOREM Truthful == Spec => []StatusTellsLastCycle
<1>1. Inv => StatusTellsLastCycle BY DEF Inv, Shown, Told, StatusTellsLastCycle
<1>2. QED BY <1>1, Invariance, PTL

-----------------------------------------------------------------------------
(* The log.                                                                *)

\* The file that lines go to has room for one.
RoomForOne == open => live < Max

\* The shapes: flags, and what is counted.
Flags == up \in BOOLEAN /\ open \in BOOLEAN /\ lost \in BOOLEAN
Sizes ==
  /\ live \in 0..Max /\ old \in 0..Max
  /\ last \in Messages \cup {None}
  /\ lastAt \in 0..Window /\ silence \in 0..Window
  /\ suppressed \in 0..MaxRepeats

LogInv1 == Flags /\ Sizes /\ RoomForOne

\* A service without a file says so, in what is lost.
NoFileIsALoss == up /\ ~open => lost

LogInv == LogInv1 /\ NoFileIsALoss /\ CountsAddUp

LEMMA Bounds ==
  /\ Max \in Nat /\ Window \in Nat /\ MaxRepeats \in Nat
  /\ Max > 0 /\ Window > 0 /\ MaxRepeats > 0
BY LogAssumption

\* UpTo keeps a number below its bound.
LEMMA UpToBound ==
  ASSUME NEW n \in Nat, NEW most \in Nat
  PROVE  UpTo(n, most) \in 0..most
BY DEF UpTo

-----------------------------------------------------------------------------
(* The cap.                                                                *)

\* Moved aside or not, no file is longer than the one there was to move.
LEMMA RotateBound ==
  ASSUME NEW lines \in 0..Max, old \in 0..Max, Rotate(lines)
  PROVE  live' \in {0, lines} /\ live' \in 0..Max /\ old' \in 0..Max
BY Bounds DEF Rotate

LEMMA AddLineBound ==
  ASSUME LogInv1, open, AddLine
  PROVE  live' \in 0..Max /\ old' \in 0..Max /\ open' \in BOOLEAN /\ RoomForOne'
<1> USE Bounds DEF LogInv1, Flags, Sizes, RoomForOne
<1>1. live + 1 \in 0..Max
  OBVIOUS
<1>2. CASE live + 1 < Max
  BY <1>2 DEF AddLine
<1>3. CASE ~(live + 1 < Max)
  <2>1. Rotate(live + 1) /\ open' \in BOOLEAN /\ (open' => live' = 0)
    BY <1>3 DEF AddLine
  <2>2. QED BY <1>1, <2>1, RotateBound
<1>4. QED BY <1>2, <1>3

LEMMA WriteBound ==
  ASSUME LogInv1, NEW calls, Write(calls)
  PROVE  /\ live' \in 0..Max /\ old' \in 0..Max /\ open' \in BOOLEAN /\ RoomForOne'
         /\ silence' \in 0..Window /\ lost' \in BOOLEAN
<1>1. CASE open /\ AddLine /\ silence' = 0 /\ lost' = (lost \/ ~open')
  BY <1>1, AddLineBound, Bounds
<1>2. CASE lost' = TRUE /\ UNCHANGED <<files, open, silence>>
  BY <1>2 DEF LogInv1, Flags, Sizes, RoomForOne, files
<1>3. QED BY <1>1, <1>2 DEF Write

LEMMA InitLogInv1 == LogInit => LogInv1
<1> SUFFICES ASSUME LogInit PROVE LogInv1
  OBVIOUS
<1>1. Flags BY DEF LogInit, Flags
<1>2. Sizes BY Bounds DEF LogInit, Sizes
<1>3. RoomForOne BY DEF LogInit, RoomForOne
<1>4. QED BY <1>1, <1>2, <1>3 DEF LogInv1

LEMMA StepLogInv1 == LogInv1 /\ [LogNext]_logVars => LogInv1'
<1> SUFFICES ASSUME LogInv1, [LogNext]_logVars PROVE LogInv1'
  OBVIOUS
<1> USE DEF LogInv1, None
<1>1. CASE OpenLog
  <2>1. live' \in 0..Max /\ old' \in 0..Max
    BY <1>1, RotateBound DEF OpenLog, files, Sizes
  <2>2. Flags' BY <1>1 DEF OpenLog, Flags
  <2>3. Sizes' BY <1>1, <2>1, Bounds DEF OpenLog, Sizes
  <2>4. RoomForOne' BY <1>1 DEF OpenLog, RoomForOne
  <2>5. QED BY <2>2, <2>3, <2>4
<1>2. ASSUME NEW m \in Messages, Suppress(m) PROVE LogInv1'
  <2>1. suppressed' \in 0..MaxRepeats
    BY <1>2, UpToBound, Bounds DEF Suppress, Sizes
  <2>2. Flags' BY <1>2 DEF Suppress, Flags
  <2>3. Sizes' BY <1>2, <2>1 DEF Suppress, files, Sizes
  <2>4. RoomForOne' BY <1>2 DEF Suppress, files, RoomForOne
  <2>5. QED BY <2>2, <2>3, <2>4
<1>3. ASSUME NEW m \in Messages, Say(m) PROVE LogInv1'
  <2>1. Flags' BY <1>3, WriteBound DEF Say, Flags
  <2>2. Sizes' BY <1>3, WriteBound, Bounds DEF Say, Sizes
  <2>3. RoomForOne' BY <1>3, WriteBound DEF Say
  <2>4. QED BY <2>1, <2>2, <2>3
<1>4. CASE Close
  <2>1. CASE suppressed = 0 \/ ~open
    <3>1. UNCHANGED <<files, open, lost, silence, last, lastAt>> /\ up' = FALSE /\ suppressed' = 0
      BY <1>4, <2>1 DEF Close
    <3>2. Flags' BY <3>1 DEF Flags
    <3>3. Sizes' BY <3>1, Bounds DEF Sizes, files
    <3>4. RoomForOne' BY <3>1 DEF RoomForOne, files
    <3>5. QED BY <3>2, <3>3, <3>4
  <2>2. CASE ~(suppressed = 0 \/ ~open)
    <3>1. Flags' BY <1>4, <2>2, WriteBound DEF Close, Flags
    <3>2. Sizes' BY <1>4, <2>2, WriteBound, Bounds DEF Close, Sizes
    <3>3. RoomForOne' BY <1>4, <2>2, WriteBound DEF Close
    <3>4. QED BY <3>1, <3>2, <3>3
  <2>3. QED BY <2>1, <2>2
<1>5. CASE LogKilled
  <2>1. Flags' BY <1>5 DEF LogKilled, Flags
  <2>2. Sizes' BY <1>5, Bounds DEF LogKilled, files, Sizes
  <2>3. RoomForOne' BY <1>5 DEF LogKilled, files, RoomForOne
  <2>4. QED BY <2>1, <2>2, <2>3
<1>6. CASE Tick
  <2>1. lastAt' \in 0..Window /\ silence' \in 0..Window
    BY <1>6, UpToBound, Bounds DEF Tick, Sizes
  <2>2. Flags' BY <1>6 DEF Tick, Flags
  <2>3. Sizes' BY <1>6, <2>1 DEF Tick, files, Sizes
  <2>4. RoomForOne' BY <1>6 DEF Tick, files, RoomForOne
  <2>5. QED BY <2>2, <2>3, <2>4
<1>7. CASE UNCHANGED logVars
  <2>1. Flags' BY <1>7 DEF logVars, files, repeats, Flags
  <2>2. Sizes' BY <1>7 DEF logVars, files, repeats, Sizes
  <2>3. RoomForOne' BY <1>7 DEF logVars, files, repeats, RoomForOne
  <2>4. QED BY <2>1, <2>2, <2>3
<1>8. QED BY <1>1, <1>2, <1>3, <1>4, <1>5, <1>6, <1>7 DEF LogNext, Printf

\* Every variable keeps its shape, and neither file grows past the cap, whatever
\* cannot be removed, renamed or opened and however often the service starts
\* again (open, rotate, writeLocked).
THEOREM LogTypeCorrect == LogSpec => []LogTypeOK
<1>1. LogInv1 => LogTypeOK BY DEF LogInv1, Flags, Sizes, LogTypeOK
<1>2. QED BY <1>1, InitLogInv1, StepLogInv1, PTL DEF LogSpec

-----------------------------------------------------------------------------
(* The counts.                                                             *)

\* A line written accounts for what is owed; one that is not is a loss.
LEMMA WriteAccounts ==
  ASSUME LogInv, up, Write(suppressed)
  PROVE  (~open' => lost') /\ (~lost' => behind' = 0)
<1>1. CASE open /\ Owe(-suppressed) /\ lost' = (lost \/ ~open')
  <2>1. suppressed \in Nat
    BY Bounds DEF LogInv, LogInv1, Sizes
  <2>2. CASE ~lost
    <3>1. behind = suppressed
      BY <2>2 DEF LogInv, CountsAddUp
    <3>2. UpTo(behind + (-suppressed), MaxRepeats) = 0
      BY <2>1, <3>1, Bounds DEF UpTo
    <3>3. QED BY <1>1, <2>2, <3>2 DEF Owe
  <2>3. CASE lost
    BY <1>1, <2>3
  <2>4. QED BY <2>2, <2>3
<1>2. CASE lost' = TRUE
  BY <1>2
<1>3. QED BY <1>1, <1>2 DEF Write

LEMMA StepCounts ==
  ASSUME LogInv, [LogNext]_logVars
  PROVE  NoFileIsALoss' /\ CountsAddUp'
<1> USE DEF LogInv, NoFileIsALoss, CountsAddUp
<1>1. CASE OpenLog
  BY <1>1 DEF OpenLog
<1>2. ASSUME NEW m \in Messages, Suppress(m) PROVE NoFileIsALoss' /\ CountsAddUp'
  BY <1>2 DEF Suppress, Owe
<1>3. ASSUME NEW m \in Messages, Say(m) PROVE NoFileIsALoss' /\ CountsAddUp'
  BY <1>3, WriteAccounts DEF Say
<1>4. CASE Close
  <2>1. CASE suppressed = 0 \/ ~open
    BY <1>4, <2>1 DEF Close
  <2>2. CASE ~(suppressed = 0 \/ ~open)
    BY <1>4, <2>2, WriteAccounts DEF Close
  <2>3. QED BY <2>1, <2>2
<1>5. CASE LogKilled
  BY <1>5 DEF LogKilled
<1>6. CASE Tick
  BY <1>6 DEF Tick
<1>7. CASE UNCHANGED logVars
  BY <1>7 DEF logVars, repeats
<1>8. QED BY <1>1, <1>2, <1>3, <1>4, <1>5, <1>6, <1>7 DEF LogNext, Printf

\* As long as nothing failed, the counts on the lines written and the count kept
\* add up to the calls made (Printf, Close).
THEOREM Accounted == LogSpec => []CountsAddUp
<1>1. LogInit => LogInv
  BY InitLogInv1 DEF LogInit, LogInv, NoFileIsALoss, CountsAddUp
<1>2. LogInv /\ [LogNext]_logVars => LogInv'
  BY StepLogInv1, StepCounts DEF LogInv
<1>3. LogInv => CountsAddUp
  BY DEF LogInv
<1>4. QED BY <1>1, <1>2, <1>3, PTL DEF LogSpec
=============================================================================
