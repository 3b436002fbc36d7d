----------------------------- MODULE Icon_proofs -----------------------------
(***************************************************************************)
(* Proofs about Icon, for any order of the code's times that keeps every   *)
(* phase within its limit:                                                 *)
(*                                                                         *)
(*   Healthy   a healthy service is never called stuck                     *)
(*   Spoken    a trouble the icon sees come is spoken of, and once         *)
(*                                                                         *)
(* A status is not stale while the time it has not been written for and    *)
(* the time the service has left come to no more than is due (Fresh); and  *)
(* the warnings of a trouble are told by the health at the last look       *)
(* (Warned).                                                               *)
(***************************************************************************)
EXTENDS Icon, TLAPS

-----------------------------------------------------------------------------
(* The invariant.                                                          *)

Health == {"none", "good", "attention", "problem", "unknown"}

\* The shapes: what is a flag, and what is a time.
Flags ==
  /\ scm \in {"stopped", "starting", "running", "stopping"} /\ phase \in Phase
  /\ rested \in BOOLEAN /\ late \in BOOLEAN /\ wedged \in BOOLEAN
  /\ writing \in {"no", "first", "second"} /\ publishing \in {"ok", "said", "unopened"}
  /\ reading \in BOOLEAN /\ health \in Health
  /\ added \in BOOLEAN /\ turned \in BOOLEAN /\ blind \in BOOLEAN
Times ==
  /\ left \in Nat
  /\ status \in [phase : Phase \cup {"nothing"}, age : 0..Oldest \cup {None}]
Types == Flags /\ Times

\* Only a wait for approval or a scan is longer than is due.
InTime ==
  /\ late => phase \in DOMAIN Longer
  /\ late \/ left <= Due[phase]

\* What a service that goes on has published is its phase, and the time since and
\* the time it has left are within what is due.
Excused == (phase = "reporting" /\ rested) \/ late
Fresh ==
  scm \in {"starting", "running"} /\ ~wedged /\ writing = "no" /\ publishing = "ok" =>
    /\ status.phase = phase
    /\ phase \in DOMAIN Limit /\ status.age # None /\ ~Excused => status.age + left <= Due[phase]

\* A trouble that was warned of is in place since, but for a look that failed.
Warned ==
  /\ warned \in 0..2
  /\ turned => warned # 0
  /\ warned = 0 \/ blind \/ health = "problem"
  /\ warned <= 1 \/ blind

Inv == Types /\ InTime /\ Fresh

-----------------------------------------------------------------------------
(* The constants.                                                          *)

LEMMA Limits ==
  /\ DOMAIN Limit = Phase \ {"failed"}
  /\ \A p \in Phase : Due[p] \in Nat
  /\ \A p \in DOMAIN Limit : Limit[p] \in Nat /\ Due[p] <= Limit[p] /\ Limit[p] < Oldest
  /\ Oldest \in Nat
BY TimesAssumption

\* A phase is begun with the time that is due to it, or with longer.
LEMMA Begun ==
  ASSUME NEW p \in Phase, NEW resting \in BOOLEAN, Begin(p, resting)
  PROVE  /\ phase' = p /\ rested' = resting /\ late' \in BOOLEAN /\ left' \in Nat
         /\ late' => p \in DOMAIN Longer
         /\ late' \/ left' <= Due[p]
         /\ writing' \in {"no", "first"} /\ publishing' \in {publishing, "said", "unopened"}
         /\ writing' # "no" \/ publishing' # "ok"
         /\ UNCHANGED status
<1>1. left' \in {Due[p]} \cup (IF p \in DOMAIN Longer THEN {Longer[p]} ELSE {}) /\ late' = (left' > Due[p])
  BY DEF Begin
<1>2. Due[p] \in Nat /\ \A q \in DOMAIN Longer : Longer[q] \in Nat
  BY Limits, TimesAssumption
<1>3. /\ left' \in Nat /\ late' \in BOOLEAN
      /\ late' => p \in DOMAIN Longer
      /\ late' \/ left' <= Due[p]
  <2>1. left' \in Nat /\ (p \notin DOMAIN Longer => left' = Due[p])
    BY <1>1, <1>2
  <2>2. (left' > Due[p]) \in BOOLEAN
    OBVIOUS
  <2>3. late' \in BOOLEAN
    BY <1>1, <2>2
  <2>4. late' <=> left' > Due[p]
    BY <1>1
  <2>5. QED BY <1>2, <2>1, <2>3, <2>4
<1>4. QED BY <1>3 DEF Begin

\* The steps that begin a phase.
BeginsOne ==
  \E p \in Phase, resting \in BOOLEAN :
    /\ Begin(p, resting)
    /\ UNCHANGED <<reading, icon>>
    /\ scm' \in {"starting", "running", "stopping"} /\ wedged' = wedged

LEMMA Beginnings ==
  ASSUME Types, Start \/ GoOn \/ (StopRequested /\ ~UNCHANGED <<phase, rested, left, late, file>>)
  PROVE  BeginsOne
<1>1. {"not_enrolled", "scheduled", "reporting", "failed"} \subseteq Phase /\ TRUE \in BOOLEAN /\ FALSE \in BOOLEAN
  BY DEF Phase
<1>2. CASE Start
  BY <1>1, <1>2 DEF Start, BeginsOne
<1>3. CASE GoOn
  <2>1. After(phase) \subseteq Phase
    BY DEF After, Phase
  <2>2. QED BY <1>1, <1>3, <2>1 DEF GoOn, BeginsOne
<1>4. CASE StopRequested /\ ~UNCHANGED <<phase, rested, left, late, file>>
  BY <1>1, <1>4 DEF StopRequested, BeginsOne
<1>5. QED BY <1>2, <1>3, <1>4

-----------------------------------------------------------------------------
(* The shapes.                                                             *)

LEMMA DescribeHealth ==
  ASSUME NEW answer, NEW readable, NEW st
  PROVE  Describe(answer, readable, st) \in Health
BY DEF Describe, Health

LEMMA StepFlags == ASSUME Types, [Next]_vars PROVE Flags'
<1> USE DEF Types, Flags
<1>1. CASE BeginsOne
  <2>1. PICK p \in Phase, resting \in BOOLEAN :
          /\ Begin(p, resting) /\ UNCHANGED <<reading, icon>>
          /\ scm' \in {"starting", "running", "stopping"} /\ wedged' = wedged
    BY <1>1 DEF BeginsOne
  <2>2. QED BY <2>1, Begun DEF icon, trouble
<1>2. CASE Running \/ Hang \/ Exit
  BY <1>2 DEF Running, Hang, Exit, service, file, icon, trouble
<1>3. CASE StopRequested /\ UNCHANGED <<phase, rested, left, late, file>>
  BY <1>3 DEF StopRequested, file, icon, trouble
<1>4. CASE RenameWorks \/ RenameFails
  BY <1>4 DEF RenameWorks, RenameFails, service, file, icon, trouble
<1>5. CASE Open \/ OtherReads \/ TaskbarCreated \/ Leave
  BY <1>5 DEF Open, OtherReads, TaskbarCreated, Leave, service, file, icon, trouble, Health
<1>6. CASE Refresh
  <2>1. PICK answer \in {scm, "unknown"}, readable \in BOOLEAN :
          /\ health' = Describe(answer, readable, status)
          /\ Follow(answer # scm \/ ~readable)
    BY <1>6 DEF Refresh
  <2>2. health' \in Health
    BY <2>1, DescribeHealth
  <2>3. turned' \in BOOLEAN /\ blind' \in BOOLEAN
    BY <2>1 DEF Follow
  <2>4. added' \in BOOLEAN /\ reading' \in BOOLEAN /\ UNCHANGED <<service, file>>
    BY <1>6 DEF Refresh
  <2>5. QED BY <2>2, <2>3, <2>4 DEF service, file
<1>7. CASE Tick
  BY <1>7 DEF Tick, icon, trouble
<1>8. CASE UNCHANGED vars
  BY <1>8 DEF vars, service, file, icon, trouble
<1>9. QED BY <1>1, <1>2, <1>3, <1>4, <1>5, <1>6, <1>7, <1>8, Beginnings DEF Next, Publish

LEMMA OlderIs ==
  ASSUME NEW age \in 0..Oldest \cup {None}
  PROVE  Older(age) \in 0..Oldest \cup {None}
BY Limits DEF Older, None

LEMMA StepTimes == ASSUME Types, [Next]_vars PROVE Times'
<1> USE DEF Types, Times
<1>1. CASE BeginsOne
  BY <1>1, Begun DEF BeginsOne
<1>2. CASE RenameWorks
  <2>1. Ages(phase) \subseteq 0..Oldest \cup {None} /\ phase \in Phase
    BY Limits DEF Ages, Flags, None
  <2>2. status' \in [phase : Phase \cup {"nothing"}, age : 0..Oldest \cup {None}]
    BY <1>2, <2>1 DEF RenameWorks
  <2>3. QED BY <1>2, <2>2 DEF RenameWorks, service
<1>3. CASE Tick
  <2>1. status' \in [phase : Phase \cup {"nothing"}, age : 0..Oldest \cup {None}]
    BY <1>3, OlderIs DEF Tick
  <2>2. left' \in Nat
    BY <1>3 DEF Tick
  <2>3. QED BY <2>1, <2>2
<1>4. CASE left' \in {left, 0} /\ UNCHANGED status
  BY <1>4
<1>5. CASE Running \/ Hang \/ Exit \/ RenameFails \/ Open \/ OtherReads \/ TaskbarCreated \/ Leave \/ Refresh
             \/ UNCHANGED vars \/ (StopRequested /\ UNCHANGED <<phase, rested, left, late, file>>)
  <2>1. left' \in {left, 0} /\ UNCHANGED status
    BY <1>5 DEF Running, Hang, Exit, StopRequested, RenameFails, Open, OtherReads, TaskbarCreated, Leave, Refresh,
                vars, service, file
  <2>2. QED BY <1>4, <2>1
<1>6. QED BY <1>1, <1>2, <1>3, <1>5, Beginnings DEF Next, Publish

-----------------------------------------------------------------------------
(* A healthy service.                                                      *)

LEMMA InitInv == Init => Inv
<1> SUFFICES ASSUME Init PROVE Inv
  OBVIOUS
<1>1. Flags
  BY DEF Init, Flags, Health, Phase
<1>2. Times
  BY Limits DEF Init, Times, Nothing, None
<1>3. InTime
  BY Limits DEF Init, InTime, Phase
<1>4. Fresh
  BY DEF Init, Fresh
<1>5. QED BY <1>1, <1>2, <1>3, <1>4 DEF Inv, Types

LEMMA StepInTime == ASSUME Inv, [Next]_vars PROVE InTime'
<1>1. left \in Nat /\ phase \in Phase /\ Due[phase] \in Nat
  BY Limits DEF Inv, Types, Times, Flags
<1>2. CASE BeginsOne
  BY <1>2, Begun DEF BeginsOne, InTime
<1>3. CASE UNCHANGED <<phase, late>> /\ left' \in Nat /\ left' <= left
  BY <1>1, <1>3 DEF Inv, InTime
<1>4. CASE Tick \/ Exit
  BY <1>1, <1>3, <1>4 DEF Tick, Exit
<1>5. CASE Running \/ Hang \/ RenameWorks \/ RenameFails \/ Open \/ OtherReads \/ TaskbarCreated \/ Leave \/ Refresh
             \/ UNCHANGED vars \/ (StopRequested /\ UNCHANGED <<phase, rested, left, late, file>>)
  <2>1. UNCHANGED <<phase, late, left>>
    BY <1>5 DEF Running, Hang, StopRequested, RenameWorks, RenameFails, Open, OtherReads, TaskbarCreated, Leave,
                Refresh, vars, service
  <2>2. QED BY <1>1, <1>3, <2>1
<1>6. QED BY <1>2, <1>4, <1>5, Beginnings DEF Inv, Next, Publish

LEMMA StepFresh == ASSUME Inv, [Next]_vars PROVE Fresh'
<1>1. /\ left \in Nat /\ phase \in Phase /\ Due[phase] \in Nat
      /\ status \in [phase : Phase \cup {"nothing"}, age : 0..Oldest \cup {None}]
  BY Limits DEF Inv, Types, Times, Flags
<1> DEFINE Up == scm \in {"starting", "running"} /\ ~wedged /\ writing = "no" /\ publishing = "ok"
<1>2. CASE BeginsOne
  <2>1. writing' # "no" \/ publishing' # "ok"
    BY <1>2, Begun DEF BeginsOne
  <2>2. QED BY <2>1 DEF Fresh
<1>3. CASE RenameWorks
  <2>1. UNCHANGED <<phase, rested, left, late>> /\ status'.phase = phase /\ status'.age \in Ages(phase)
    BY <1>3 DEF RenameWorks, service
  <2>2. ASSUME ~Excused, status'.age # None PROVE status'.age = 0
    BY <2>1, <2>2 DEF Ages, Excused
  <2>3. ~late => left <= Due[phase]
    BY DEF Inv, InTime
  <2>4. QED BY <1>1, <2>1, <2>2, <2>3 DEF Fresh, Excused
<1>4. CASE Tick
  <2>1. /\ UNCHANGED <<scm, phase, rested, late, wedged, writing, publishing>>
        /\ status' = IF status.phase \notin DOMAIN Limit THEN status ELSE [status EXCEPT !.age = Older(@)]
    BY <1>4 DEF Tick
  <2>2. SUFFICES ASSUME Up PROVE /\ status'.phase = phase
                                 /\ phase \in DOMAIN Limit /\ status'.age # None /\ ~Excused => status'.age + left' <= Due[phase]
    BY <2>1 DEF Fresh, Excused
  <2>3. scm = "running" /\ left > 0 /\ left' = left - 1
    BY <1>4, <2>2 DEF Tick
  <2>4. /\ status.phase = phase
        /\ phase \in DOMAIN Limit /\ status.age # None /\ ~Excused => status.age + left <= Due[phase]
    BY <2>2 DEF Inv, Fresh
  <2>5. status'.phase = phase
    BY <1>1, <2>1, <2>4
  <2>6. ASSUME phase \in DOMAIN Limit, status'.age # None, ~Excused PROVE status'.age + left' <= Due[phase]
    <3>1. status'.age = Older(status.age)
      BY <1>1, <2>1, <2>4, <2>6
    <3>2. status.age # None
      BY <2>6, <3>1 DEF Older
    <3>3. status.age \in Nat /\ status.age + left <= Due[phase]
      BY <1>1, <2>4, <2>6, <3>2
    <3>4. status'.age <= status.age + 1 /\ status'.age \in Nat
      BY <3>1, <3>3, Limits DEF Older, None
    <3>5. QED BY <1>1, <2>3, <3>3, <3>4
  <2>7. QED BY <2>5, <2>6
<1>5. CASE /\ UNCHANGED <<phase, rested, late, left, status>>
           /\ Up' => Up
  BY <1>5 DEF Inv, Fresh, Excused
<1>6. CASE Running \/ Hang \/ RenameFails \/ Open \/ OtherReads \/ TaskbarCreated \/ Leave \/ Refresh
             \/ UNCHANGED vars \/ (StopRequested /\ UNCHANGED <<phase, rested, left, late, file>>)
  <2>1. UNCHANGED <<phase, rested, late, left, status>> /\ (Up' => Up)
    <3>1. CASE StopRequested /\ UNCHANGED <<phase, rested, left, late, file>>
      BY <3>1 DEF StopRequested, file
    <3>2. CASE Running \/ Hang
      BY <3>2 DEF Running, Hang, file
    <3>3. CASE RenameFails
      BY <3>3 DEF RenameFails, service
    <3>4. CASE UNCHANGED <<service, file>>
      BY <3>4 DEF service, file
    <3>5. QED BY <1>6, <3>1, <3>2, <3>3, <3>4 DEF Open, OtherReads, TaskbarCreated, Leave, Refresh, vars
  <2>2. QED BY <1>5, <2>1
<1>7. CASE Exit
  BY <1>7 DEF Exit, Fresh
<1>8. QED BY <1>2, <1>3, <1>4, <1>6, <1>7, Beginnings DEF Inv, Next, Publish

LEMMA StepInv == Inv /\ [Next]_vars => Inv'
BY StepFlags, StepTimes, StepInTime, StepFresh DEF Inv, Types

\* A service that goes on, and whose status could be published or the log says why
\* not, is never called stuck, whoever looks and when, but for what the property
\* excepts: each phase is due to be written again within its limit (heartbeat,
\* StaleAfter).
THEOREM Healthy == Spec => []HealthyIsNotCalledStuck
<1>1. Inv => HealthyIsNotCalledStuck
  <2> SUFFICES ASSUME Inv, scm \in {"starting", "running"}, Called(scm, status),
                      ~wedged, writing = "no", publishing = "ok",
                      ~(status.phase = "reporting" /\ rested), ~(status.phase \in DOMAIN Longer /\ late)
               PROVE  FALSE
    BY DEF HealthyIsNotCalledStuck
  <2>1. status.phase \in DOMAIN Limit /\ status.age # None /\ status.age > Limit[status.phase]
    BY DEF Called, Stale
  <2>2. status.phase = phase /\ ~Excused
    BY DEF Inv, Fresh, InTime, Excused
  <2>3. status.age + left <= Due[phase]
    BY <2>1, <2>2 DEF Inv, Fresh
  <2>4. status.age \in Nat /\ left \in Nat
    BY <2>1 DEF Inv, Types, Times
  <2>5. Limit[phase] \in Nat /\ Due[phase] \in Nat /\ Due[phase] <= Limit[phase]
    BY <2>1, <2>2, Limits
  <2>6. QED BY <2>1, <2>2, <2>3, <2>4, <2>5
<1>2. QED BY <1>1, InitInv, StepInv, PTL DEF Spec

-----------------------------------------------------------------------------
(* The warnings.                                                           *)

LEMMA StepWarned == ASSUME Warned, [Next]_vars PROVE Warned'
<1>1. CASE Refresh
  <2>1. PICK answer \in {scm, "unknown"}, readable \in BOOLEAN : Follow(answer # scm \/ ~readable)
    BY <1>1 DEF Refresh
  <2> DEFINE failed == answer # scm \/ ~readable
             cameSeen == added /\ health \notin {"none", "problem"} /\ health' = "problem"
  <2>2. CASE health' # "problem" /\ ~failed
    BY <2>1, <2>2 DEF Follow, Warned
  <2>3. CASE ~(health' # "problem" /\ ~failed)
    <3>1. /\ turned' = (turned \/ cameSeen)
          /\ warned' = IF cameSeen /\ warned < 2 THEN warned + 1 ELSE warned
          /\ blind' = (blind \/ failed)
      BY <2>1, <2>3 DEF Follow, Speak
    <3> HIDE DEF cameSeen, failed
    <3>2. warned' \in 0..2 /\ (turned' => warned' # 0)
      <4>1. warned' \in 0..2 /\ (cameSeen => warned' # 0) /\ (warned # 0 => warned' # 0)
        BY <3>1 DEF Warned
      <4>2. turned' => turned \/ cameSeen
        BY <3>1
      <4>3. QED BY <4>1, <4>2 DEF Warned
    <3>3. blind' \/ health' = "problem"
      BY <2>3, <3>1 DEF failed
    <3>4. warned' <= 1 \/ blind'
      <4>1. blind => blind'
        BY <3>1
      <4>2. CASE ~blind
        <5>1. warned <= 1 /\ (cameSeen => warned = 0)
          BY <4>2 DEF Warned, cameSeen
        <5>2. QED BY <3>1, <5>1 DEF Warned
      <4>3. QED BY <4>1, <4>2
    <3>5. QED BY <3>2, <3>3, <3>4 DEF Warned
  <2>4. QED BY <2>2, <2>3
<1>2. CASE Leave
  BY <1>2 DEF Leave, Warned
<1>3. CASE UNCHANGED <<health, trouble>>
  BY <1>3 DEF Warned, trouble
<1>4. QED BY <1>1, <1>2, <1>3
          DEF Next, Publish, Start, Running, GoOn, Hang, StopRequested, Exit, RenameWorks, RenameFails,
              Open, OtherReads, TaskbarCreated, Tick, vars, icon

\* A trouble that comes before the icon's eyes is spoken of, and once: again only
\* after a look at which the manager did not answer or the file could not be read
\* (refresh).
THEOREM Spoken == Spec => []OneWarning
<1>1. Init => Warned
  BY DEF Init, Warned
<1>2. Warned => OneWarning
  BY DEF Warned, OneWarning
<1>3. QED BY <1>1, <1>2, StepWarned, PTL DEF Spec

=============================================================================
