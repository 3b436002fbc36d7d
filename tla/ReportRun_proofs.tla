-------------------------- MODULE ReportRun_proofs --------------------------
(***************************************************************************)
(* Proofs about ReportRun for any number of runs, placements and sources   *)
(* turned off, and any limits:                                             *)
(*                                                                         *)
(*   TypeCorrect      the shapes, and the limits of a run                  *)
(*   WholeRun         the final page finds everything before it received   *)
(*   Safe             no page marks gone what was there throughout         *)
(*   Refinement       a run makes the portfolio believe only what          *)
(*                    Portfolio allows                                     *)
(*                                                                         *)
(* The inductive invariant comes in layers, each proved with the help of   *)
(* the ones below it: TypeOK and Control, Delivered, Swept, Found, Grounded. *)
(***************************************************************************)
EXTENDS ReportRun, TLAPS

-----------------------------------------------------------------------------
(* The layers of the invariant.                                            *)

\* Where a run stands says what its other variables can be.
Control(r) ==
  /\ pc[r] = "idle" => at[r] = 1 /\ visited[r] = {} /\ obs[r] = <<>> /\ complete[r] = {}
  /\ pc[r] = "sweep" => at[r] <= 5
  /\ pc[r] \in {"upload", "await", "done", "failed"} => at[r] = 6
  /\ pc[r] \in {"idle", "next", "sweep"} => sent[r] = 0
  /\ net[r] => pc[r] \in {"await", "failed"} /\ reply[r] = "none"
  /\ reply[r] # "none" => pc[r] \in {"await", "failed"}
  /\ pc[r] \in {"upload", "await"} \/ net[r] => obs[r] = <<>> \/ sent[r] < Len(obs[r])

Inv1 == TypeOK /\ \A r \in Run : Control(r)

\* What was acknowledged the server has, and so it does the page it just
\* took, but for what it rejected.
Delivered(r) ==
  /\ \A i \in 1..sent[r] : obs[r][i] \in stored[runID[r]] \cup Rejected
  /\ pc[r] = "await" /\ reply[r] = "ok" => Taken(r) \subseteq stored[runID[r]]

\* Sources are swept in order, and one that stayed complete was swept wholly.
Reached(r, i) == i < at[r] \/ (i = at[r] /\ pc[r] = "sweep")
Swept(r) ==
  /\ \A i \in 1..5 : All[i] \in complete[r] => Reached(r, i)
  /\ \A x \in visited[r] : \A i \in 1..5 : SourceOf[x] = All[i] => Reached(r, i)
  /\ \A x \in scope[r] : \A i \in 1..5 :
       SourceOf[x] = All[i] /\ All[i] \in complete[r] /\ i < at[r] => x \in visited[r]

\* AnswersFor, before it is known which page will be the final one.
Answerable(r, x) ==
  /\ SourceOf[x] \in complete[r]
  /\ CanSee(r, x)
  /\ Needs[x] # {} =>
       /\ "server_config" \in complete[r]
       /\ \E y \in Needs[x] : y \in steady[r] /\ CanSee(r, y)

\* While a page of r may still arrive: of what it came past, all it answers
\* for and that was there all along is recorded.
Found(r) ==
  /\ steady[r] \subseteq host
  /\ ~cancelled[r] \/ net[r] =>
       \A x \in visited[r] : x \in steady[r] /\ Answerable(r, x) => x \in Recorded(r)

\* What is recorded was there in the run's window.
Grounded(r) ==
  /\ Recorded(r) \subseteq ever[r]
  /\ pc[r] # "idle" => host \subseteq ever[r]

Inv2 == \A r \in Run : Delivered(r)
Inv3 == \A r \in Run : Swept(r)
Inv4 == \A r \in Run : Found(r)
Inv5 == \A r \in Run : Grounded(r)

-----------------------------------------------------------------------------
LEMMA InitInv1 == Init => Inv1
  BY SourceAssumption, LimitAssumption DEF Init, Inv1, TypeOK, Control, All, Source

\* The steps of a run that disturb more than one shape keep all of them.
LEMMA BeginType == ASSUME TypeOK, NEW r \in Run, Begin(r) PROVE TypeOK'
<1>1. /\ pc' \in [Run -> {"idle", "next", "sweep", "upload", "await", "done", "failed"}]
      /\ scope' \in [Run -> SUBSET Placement]
      /\ disabled' \in [Run -> SUBSET Source]
  BY ScopeAssumption DEF Begin, TypeOK
<1>2. /\ runID' \in [Run -> Run]
      /\ steady' \in [Run -> SUBSET Placement]
      /\ ever' \in [Run -> SUBSET Placement]
  BY DEF Begin, TypeOK
<1> QED
  BY <1>1, <1>2 DEF Begin, TypeOK, serverVars

LEMMA NextSourceType ==
  ASSUME TypeOK, NEW r \in Run, at[r] <= 5, at' = [at EXCEPT ![r] = @ + 1]
  PROVE  at' \in [Run -> 1..6]
<1>1. at[r] \in 1..6
  BY DEF TypeOK
<1>2. at[r] + 1 \in 1..6
  BY <1>1
<1> QED
  BY <1>2 DEF TypeOK

LEMMA SkipSourceType == ASSUME TypeOK, NEW r \in Run, SkipSource(r) PROVE TypeOK'
<1>1. at' \in [Run -> 1..6]
  BY NextSourceType DEF SkipSource
<1> QED
  BY <1>1 DEF SkipSource, TypeOK, hostVars, uploadVars, serverVars

LEMMA BeginSweepType == ASSUME TypeOK, NEW r \in Run, BeginSweep(r) PROVE TypeOK'
<1>1. at[r] \in 1..5
  BY DEF BeginSweep, TypeOK
<1>2. All[at[r]] \in Source
  BY <1>1 DEF Source
<1>3. complete' \in [Run -> SUBSET Source]
  BY <1>2 DEF BeginSweep, TypeOK
<1> QED
  BY <1>3 DEF BeginSweep, TypeOK, hostVars, uploadVars, serverVars

LEMMA FindType ==
  ASSUME TypeOK, NEW r \in Run, NEW x \in Placement, Find(r, x) PROVE TypeOK'
<1>1. visited' \in [Run -> SUBSET Placement]
  BY DEF Find, Visit, TypeOK
<1>2. CASE Fits(r, x) /\ obs' = [obs EXCEPT ![r] = Append(@, x)]
           /\ bytes' = [bytes EXCEPT ![r] = @ + SizeOf[x]] /\ UNCHANGED <<full, complete>>
  <2>1. obs[r] \in Seq(Placement)
    BY DEF TypeOK
  <2>2. /\ Append(obs[r], x) \in Seq(Placement)
        /\ Len(Append(obs[r], x)) = Len(obs[r]) + 1
    BY <2>1
  <2>3. obs' \in [Run -> Seq(Placement)]
    BY <1>2, <2>2 DEF TypeOK
  <2>4. \A q \in Run : Len(obs'[q]) = IF q = r THEN Len(obs[q]) + 1 ELSE Len(obs[q])
    BY <1>2, <2>2 DEF TypeOK
  <2>5. \A q \in Run : Len(obs'[q]) <= MaxObservationsPerRun
    BY <1>2, <2>4 DEF TypeOK, Fits
  <2>6. bytes[r] \in Nat /\ SizeOf[x] \in Nat /\ MaxObservationBytesPerRun \in Nat
    BY LimitAssumption DEF TypeOK
  <2>7. bytes[r] + SizeOf[x] \in 0..MaxObservationBytesPerRun
    BY <1>2, <2>6 DEF Fits
  <2>8. bytes' \in [Run -> 0..MaxObservationBytesPerRun]
    BY <1>2, <2>7 DEF TypeOK
  <2>9. \A q \in Run : Len(obs[q]) \in Nat /\ sent[q] \in Nat /\ sent[q] <= Len(obs[q])
    BY DEF TypeOK
  <2>10. ASSUME NEW q \in Run PROVE sent[q] <= Len(obs'[q])
    BY <2>4, <2>9
  <2> QED
    BY <1>1, <1>2, <2>3, <2>5, <2>8, <2>10
       DEF Find, Visit, TypeOK, hostVars, uploadVars, serverVars
<1>3. CASE full' = [full EXCEPT ![r] = TRUE]
           /\ complete' = [complete EXCEPT ![r] = @ \ {SourceOf[x]}] /\ UNCHANGED <<obs, bytes>>
  BY <1>1, <1>3 DEF Find, Visit, TypeOK, hostVars, uploadVars, serverVars
<1> QED
  BY <1>2, <1>3 DEF Find, Observe

LEMMA EndSweepType ==
  ASSUME TypeOK, NEW r \in Run, Control(r), EndSweep(r) \/ CutSweep(r) PROVE TypeOK'
<1>1. at' \in [Run -> 1..6]
  BY NextSourceType DEF EndSweep, CutSweep, Control
<1>2. pc' \in [Run -> {"idle", "next", "sweep", "upload", "await", "done", "failed"}]
  <2>1. pc \in [Run -> {"idle", "next", "sweep", "upload", "await", "done", "failed"}]
    BY DEF TypeOK
  <2>2. pc' = [pc EXCEPT ![r] = "next"]
    BY DEF EndSweep, CutSweep
  <2> QED
    BY <2>1, <2>2
<1>3. complete \in [Run -> SUBSET Source]
  BY DEF TypeOK
<1>4. complete' \in [Run -> SUBSET Source]
  <2>1. complete' = [complete EXCEPT ![r] = complete[r] \ {All[at[r]]}] \/ complete' = complete
    BY DEF EndSweep, CutSweep
  <2>2. complete[r] \ {All[at[r]]} \in SUBSET Source
    BY <1>3
  <2> QED
    BY <1>3, <2>1, <2>2
<1> QED
  BY <1>1, <1>2, <1>4 DEF EndSweep, CutSweep, TypeOK, hostVars, uploadVars, serverVars

\* A page ends where the observations end, or before.
LEMMA PageInside ==
  ASSUME TypeOK, NEW r \in Run
  PROVE  /\ PageSize(r) \in Nat
         /\ sent[r] \in Nat /\ Len(obs[r]) \in Nat
         /\ sent[r] + PageSize(r) <= Len(obs[r])
         /\ Final(r) => sent[r] + PageSize(r) = Len(obs[r])
<1>1. sent[r] \in Nat /\ Len(obs[r]) \in Nat /\ sent[r] <= Len(obs[r])
  BY DEF TypeOK
<1> QED
  BY <1>1, LimitAssumption DEF PageSize, Final, Rest

LEMMA PageRecorded == ASSUME TypeOK, NEW r \in Run PROVE Page(r) \subseteq Recorded(r)
<1> SUFFICES ASSUME NEW i \in sent[r] + 1 .. sent[r] + PageSize(r)
             PROVE  i \in 1..Len(obs[r])
  BY DEF Page, Recorded
<1> QED
  BY PageInside

LEMMA RecordedPlacements ==
  ASSUME TypeOK, NEW r \in Run PROVE Recorded(r) \subseteq Placement
<1>1. obs[r] \in Seq(Placement)
  BY DEF TypeOK
<1> QED
  BY <1>1 DEF Recorded

LEMMA AcknowledgedType == ASSUME TypeOK, NEW r \in Run, Acknowledged(r) PROVE TypeOK'
<1>1. /\ pc' \in [Run -> {"idle", "next", "sweep", "upload", "await", "done", "failed"}]
      /\ reply' \in [Run -> {"none", "ok", "refused"}]
  BY DEF Acknowledged, TypeOK
<1>2. /\ sent' \in [Run -> Nat]
      /\ \A q \in Run : sent'[q] <= Len(obs[q])
  BY PageInside DEF Acknowledged, TypeOK
<1> QED
  BY <1>1, <1>2 DEF Acknowledged, TypeOK, hostVars, sweepVars, serverVars

LEMMA ServerTakesType == ASSUME TypeOK, NEW r \in Run, ServerTakes(r) PROVE TypeOK'
<1>1. Folded(r) \subseteq Placement
  BY PageRecorded, RecordedPlacements DEF Folded, Taken, TypeOK
<1>2. /\ stored' \in [Run -> SUBSET Placement]
      /\ inventory' \in [Placement -> {"never", "live", "gone"}]
      /\ net' \in [Run -> BOOLEAN]
      /\ reply' \in [Run -> {"none", "ok", "refused"}]
  BY <1>1 DEF ServerTakes, TypeOK
<1> QED
  BY <1>2 DEF ServerTakes, TypeOK, hostVars, sweepVars

LEMMA Nonempty == ASSUME TypeOK, NEW r \in Run PROVE obs[r] = <<>> \/ 0 < Len(obs[r])
<1>1. obs[r] \in Seq(Placement)
  BY DEF TypeOK
<1> QED
  BY <1>1

LEMMA StepInv1 == Inv1 /\ [Next]_vars => Inv1'
<1> SUFFICES ASSUME Inv1, [Next]_vars PROVE Inv1'
  OBVIOUS
<1> USE SourceAssumption, NeedsAssumption, ScopeAssumption, LimitAssumption
<1> USE DEF Inv1, TypeOK, Control, hostVars, sweepVars, uploadVars, serverVars
<1>1. ASSUME NEW x \in Placement, HostChanges(x) PROVE Inv1'
  BY <1>1 DEF HostChanges
<1>2. ASSUME NEW r \in Run, Cancel(r) PROVE Inv1'
  BY <1>2 DEF Cancel
<1>3. ASSUME NEW r \in Run, Begin(r) PROVE Inv1'
  <2>1. TypeOK'
    BY <1>3, BeginType
  <2>2. \A q \in Run : Control(q)'
    BY <1>3 DEF Begin
  <2> QED
    BY <2>1, <2>2
<1>4. ASSUME NEW r \in Run, SkipSource(r) PROVE Inv1'
  <2>1. TypeOK'
    BY <1>4, SkipSourceType
  <2>2. \A q \in Run : Control(q)'
    BY <1>4 DEF SkipSource
  <2> QED
    BY <2>1, <2>2
<1>5. ASSUME NEW r \in Run, BeginSweep(r) PROVE Inv1'
  <2>1. TypeOK'
    BY <1>5, BeginSweepType
  <2>2. \A q \in Run : Control(q)'
    BY <1>5 DEF BeginSweep, Source
  <2> QED
    BY <2>1, <2>2
<1>6. ASSUME NEW r \in Run, NEW x \in Placement, Find(r, x) PROVE Inv1'
  <2>1. TypeOK'
    BY <1>6, FindType
  <2>2. \A q \in Run : Control(q)'
    BY <1>6 DEF Find, Visit, Observe, Fits
  <2> QED
    BY <2>1, <2>2
<1>7. ASSUME NEW r \in Run, NEW x \in Placement, Miss(r, x) PROVE Inv1'
  BY <1>7 DEF Miss, Visit
<1>8. ASSUME NEW r \in Run, NEW x \in Placement, PassOver(r, x) PROVE Inv1'
  BY <1>8 DEF PassOver, Visit
<1>9. ASSUME NEW r \in Run, EndSweep(r) PROVE Inv1'
  <2>1. TypeOK'
    BY <1>9, EndSweepType
  <2>2. \A q \in Run : Control(q)'
    BY <1>9 DEF EndSweep
  <2> QED
    BY <2>1, <2>2
<1>10. ASSUME NEW r \in Run, CutSweep(r) PROVE Inv1'
  <2>1. TypeOK'
    BY <1>10, EndSweepType
  <2>2. \A q \in Run : Control(q)'
    BY <1>10 DEF CutSweep
  <2> QED
    BY <2>1, <2>2
<1>11. ASSUME NEW r \in Run, EndCollect(r) PROVE Inv1'
  <2>1. sent[r] = 0 /\ (obs[r] = <<>> \/ 0 < Len(obs[r]))
    BY <1>11, Nonempty DEF EndCollect
  <2> QED
    BY <1>11, <2>1 DEF EndCollect
<1>12. ASSUME NEW r \in Run, SendPage(r) PROVE Inv1'
  BY <1>12 DEF SendPage
<1>13. ASSUME NEW r \in Run, GiveUp(r) PROVE Inv1'
  BY <1>13 DEF GiveUp
<1>14. ASSUME NEW r \in Run, Acknowledged(r) PROVE Inv1'
  <2>1. TypeOK'
    BY <1>14, AcknowledgedType
  <2>2. \A q \in Run : Control(q)'
    BY <1>14 DEF Acknowledged, PageSize, Final, Rest
  <2> QED
    BY <2>1, <2>2
<1>15. ASSUME NEW r \in Run, Refused(r) PROVE Inv1'
  BY <1>15 DEF Refused
<1>16. ASSUME NEW r \in Run, ServerTakes(r) PROVE Inv1'
  <2>1. TypeOK'
    BY <1>16, ServerTakesType
  <2>2. \A q \in Run : Control(q)'
    BY <1>16 DEF ServerTakes, Folded, Taken, Page
  <2> QED
    BY <2>1, <2>2
<1>17. ASSUME NEW r \in Run, ServerRefuses(r) PROVE Inv1'
  BY <1>17 DEF ServerRefuses
<1>18. CASE UNCHANGED vars
  BY <1>18 DEF vars
<1> QED
  BY <1>1, <1>2, <1>3, <1>4, <1>5, <1>6, <1>7, <1>8, <1>9, <1>10, <1>11, <1>12, <1>13, <1>14,
     <1>15, <1>16, <1>17, <1>18 DEF Next, Collect, Upload, Server
\* TypeOK holds: a run stays within the limits of runCap, and acknowledges no
\* more than it recorded.
THEOREM TypeCorrect == Spec => []TypeOK
<1>1. Spec => []Inv1
  BY InitInv1, StepInv1, PTL DEF Spec
<1>2. Inv1 => TypeOK
  BY DEF Inv1
<1> QED
  BY <1>1, <1>2, PTL

-----------------------------------------------------------------------------
(* Delivery.                                                               *)

LEMMA InitInv2 == Init => Inv2
  BY DEF Init, Inv2, Delivered

\* Only five actions touch what Delivered speaks of.
LEMMA DeliveredFrame ==
  ASSUME NEW q \in Run, Delivered(q),
         UNCHANGED <<obs, sent, runID, stored>>,
         pc'[q] = "await" /\ reply'[q] = "ok" => pc[q] = "await" /\ reply[q] = "ok"
  PROVE  Delivered(q)'
  BY DEF Delivered, Taken, Page, PageSize, Final, Rest

LEMMA StepInv2 == Inv1 /\ Inv2 /\ [Next]_vars => Inv2'
<1> SUFFICES ASSUME Inv1, Inv2, [Next]_vars, NEW q \in Run PROVE Delivered(q)'
  BY DEF Inv2
<1>0. TypeOK /\ Control(q) /\ Delivered(q)
  BY DEF Inv1, Inv2
<1>1. ASSUME NEW x \in Placement, HostChanges(x) PROVE Delivered(q)'
  BY <1>0, <1>1, DeliveredFrame DEF HostChanges, sweepVars, uploadVars, serverVars
<1>2. ASSUME NEW r \in Run, Cancel(r) PROVE Delivered(q)'
  BY <1>0, <1>2, DeliveredFrame DEF Cancel, sweepVars, uploadVars, serverVars
<1>3. ASSUME NEW r \in Run, Begin(r) PROVE Delivered(q)'
  <2>1. CASE q = r
    <3>1. sent'[q] = 0 /\ pc'[q] = "next"
      BY <1>0, <1>3, <2>1 DEF Begin, Control, TypeOK
    <3> QED
      BY <3>1 DEF Delivered
  <2>2. CASE q # r
    <3>1. /\ UNCHANGED <<obs, sent, reply, stored>>
          /\ pc'[q] = pc[q] /\ runID'[q] = runID[q]
      BY <1>0, <1>3, <2>2 DEF Begin, TypeOK, serverVars
    <3> QED
      BY <1>0, <3>1 DEF Delivered, Taken, Page, PageSize, Final, Rest
  <2> QED
    BY <2>1, <2>2
<1>4. ASSUME NEW r \in Run, SkipSource(r) PROVE Delivered(q)'
  BY <1>0, <1>4, DeliveredFrame DEF SkipSource, uploadVars, serverVars
<1>5. ASSUME NEW r \in Run, BeginSweep(r) PROVE Delivered(q)'
  BY <1>0, <1>5, DeliveredFrame DEF BeginSweep, uploadVars, serverVars, TypeOK
<1>6. ASSUME NEW r \in Run, NEW x \in Placement, Find(r, x) PROVE Delivered(q)'
  <2>1. pc' = pc /\ UNCHANGED <<sent, reply, runID, stored>> /\ pc[r] = "sweep"
    BY <1>6 DEF Find, Visit, uploadVars, serverVars
  <2>2. CASE q = r
    <3>1. sent'[q] = 0 /\ pc'[q] = "sweep"
      BY <1>0, <2>1, <2>2 DEF Control
    <3> QED
      BY <3>1 DEF Delivered
  <2>3. CASE q # r
    <3>1. obs'[q] = obs[q]
      BY <1>0, <1>6, <2>3 DEF Find, Observe, TypeOK
    <3> QED
      BY <1>0, <2>1, <3>1 DEF Delivered, Taken, Page, PageSize, Final, Rest
  <2> QED
    BY <2>2, <2>3
<1>7. ASSUME NEW r \in Run, NEW x \in Placement, Miss(r, x) \/ PassOver(r, x)
      PROVE  Delivered(q)'
  BY <1>0, <1>7, DeliveredFrame DEF Miss, PassOver, Visit, uploadVars, serverVars
<1>8. ASSUME NEW r \in Run, EndSweep(r) \/ CutSweep(r) \/ EndCollect(r) PROVE Delivered(q)'
  BY <1>0, <1>8, DeliveredFrame
     DEF EndSweep, CutSweep, EndCollect, sweepVars, uploadVars, serverVars, TypeOK
<1>9. ASSUME NEW r \in Run, SendPage(r) PROVE Delivered(q)'
  BY <1>0, <1>9, DeliveredFrame DEF SendPage, sweepVars, serverVars, TypeOK, Control
<1>10. ASSUME NEW r \in Run, GiveUp(r) \/ Refused(r) PROVE Delivered(q)'
  BY <1>0, <1>10, DeliveredFrame
     DEF GiveUp, Refused, sweepVars, uploadVars, serverVars, TypeOK
<1>11. ASSUME NEW r \in Run, Acknowledged(r) PROVE Delivered(q)'
  <2>1. UNCHANGED <<obs, runID, stored>>
    BY <1>11 DEF Acknowledged, sweepVars, serverVars
  <2>2. CASE q = r
    <3>1. reply'[q] = "none" /\ sent'[q] = sent[q] + PageSize(q)
      BY <1>0, <1>11, <2>2 DEF Acknowledged, TypeOK
    <3>2. Page(q) \subseteq stored[runID[q]] \cup Rejected
      BY <1>0, <1>11, <2>2 DEF Acknowledged, Delivered, Taken
    <3>3. ASSUME NEW i \in 1..sent'[q] PROVE obs[q][i] \in stored[runID[q]] \cup Rejected
      <4>1. CASE i <= sent[q]
        BY <1>0, <4>1 DEF Delivered, TypeOK
      <4>2. CASE i > sent[q]
        <5>1. i \in sent[q] + 1 .. sent[q] + PageSize(q)
          BY <1>0, <3>1, <4>2, PageInside
        <5> QED
          BY <3>2, <5>1 DEF Page
      <4> QED
        BY <1>0, <4>1, <4>2, PageInside
    <3> QED
      BY <2>1, <3>1, <3>3 DEF Delivered
  <2>3. CASE q # r
    BY <1>0, <1>11, <2>1, <2>3
       DEF Acknowledged, Delivered, Taken, Page, PageSize, Final, Rest, TypeOK
  <2> QED
    BY <2>2, <2>3
<1>12. ASSUME NEW r \in Run, ServerTakes(r) PROVE Delivered(q)'
  <2>1. UNCHANGED <<obs, sent, runID, pc>> /\ Taken(q)' = Taken(q)
    BY <1>12 DEF ServerTakes, sweepVars, Taken, Page, PageSize, Final, Rest
  <2>2. stored[runID[q]] \subseteq stored'[runID[q]]
    BY <1>0, <1>12 DEF ServerTakes, Folded, TypeOK
  <2>3. Taken(r) \subseteq stored'[runID[r]]
    BY <1>0, <1>12 DEF ServerTakes, Folded, TypeOK
  <2>4. q # r => reply'[q] = reply[q]
    BY <1>0, <1>12 DEF ServerTakes, TypeOK
  <2> QED
    BY <1>0, <2>1, <2>2, <2>3, <2>4 DEF Delivered
<1>13. ASSUME NEW r \in Run, ServerRefuses(r) PROVE Delivered(q)'
  BY <1>0, <1>13, DeliveredFrame DEF ServerRefuses, sweepVars, serverVars, TypeOK
<1>14. CASE UNCHANGED vars
  BY <1>0, <1>14, DeliveredFrame DEF vars, sweepVars, uploadVars, serverVars
<1> QED
  BY <1>1, <1>2, <1>3, <1>4, <1>5, <1>6, <1>7, <1>8, <1>9, <1>10, <1>11, <1>12, <1>13, <1>14
     DEF Next, Collect, Upload, Server

LEMMA WholeRunFromInv == Inv1 /\ Inv2 => FinalCarriesWholeRun
<1> SUFFICES ASSUME Inv1, Inv2, NEW r \in Run, net[r]
             PROVE  /\ Final(r) => Recorded(r) \ Rejected \subseteq Folded(r)
                    /\ obs[r] # <<>> => PageSize(r) > 0
  BY DEF FinalCarriesWholeRun
<1>0. TypeOK /\ Control(r) /\ Delivered(r)
  BY DEF Inv1, Inv2
<1>1. ASSUME Final(r), NEW i \in 1..Len(obs[r]) PROVE obs[r][i] \in Folded(r) \cup Rejected
  <2>1. sent[r] \in Nat /\ sent[r] + PageSize(r) = Len(obs[r])
    BY <1>0, <1>1, PageInside
  <2>2. CASE i <= sent[r]
    BY <1>0, <2>1, <2>2 DEF Delivered, Folded
  <2>3. CASE i > sent[r]
    <3>1. i \in sent[r] + 1 .. sent[r] + PageSize(r)
      BY <2>1, <2>3
    <3> QED
      BY <3>1 DEF Folded, Taken, Page
  <2> QED
    BY <2>1, <2>2, <2>3
<1>2. ASSUME obs[r] # <<>> PROVE PageSize(r) > 0
  <2>1. sent[r] \in Nat /\ Len(obs[r]) \in Nat /\ sent[r] < Len(obs[r])
    BY <1>0, <1>2 DEF Control, TypeOK
  <2> QED
    BY <2>1, LimitAssumption DEF PageSize, Final, Rest
<1> QED
  BY <1>1, <1>2 DEF Recorded

\* When the final page arrives the server has everything its run recorded
\* and it did not reject, and no page is empty unless the run is,
\* however many pages and however large a page may be (transport.Report).
THEOREM WholeRun == Spec => []FinalCarriesWholeRun
  BY InitInv1, StepInv1, InitInv2, StepInv2, WholeRunFromInv, PTL DEF Spec

-----------------------------------------------------------------------------
(* Sweeping.                                                               *)

LEMMA AllInjective == \A i, j \in 1..5 : All[i] = All[j] => i = j
  BY DEF All

LEMMA SourceIndex == \A x \in Placement : \E i \in 1..5 : SourceOf[x] = All[i]
  BY SourceAssumption DEF Source

LEMMA InitInv3 == Init => Inv3
  BY DEF Init, Inv3, Swept

\* What leaves a run where it was, with no more of its sources complete.
LEMMA SweptFrame ==
  ASSUME NEW q \in Run, Swept(q), UNCHANGED <<at[q], scope[q], visited[q]>>,
         pc'[q] = "sweep" <=> pc[q] = "sweep", complete'[q] \subseteq complete[q]
  PROVE  Swept(q)'
  BY DEF Swept, Reached

\* One more placement of the current source is come past.
LEMMA SweptVisit ==
  ASSUME TypeOK, NEW q \in Run, Swept(q), NEW r \in Run, NEW x \in Placement, Visit(r, x),
         complete'[q] \subseteq complete[q]
  PROVE  Swept(q)'
<1>1. UNCHANGED <<at[q], scope[q], pc[q]>>
  BY DEF Visit
<1>2. CASE q = r
  <2>1. visited'[q] = visited[q] \cup {x} /\ SourceOf[x] = All[at[q]] /\ pc[q] = "sweep"
    BY <1>2 DEF Visit, Ahead, TypeOK
  <2>2. at[q] \in 1..6
    BY DEF TypeOK
  <2>3. ASSUME NEW i \in 1..5, SourceOf[x] = All[i], at[q] # 6 PROVE i = at[q]
    <3>1. at[q] \in 1..5
      BY <2>2, <2>3
    <3> QED
      BY <2>1, <2>3, <3>1, AllInjective
  <2>4. ASSUME NEW i \in 1..5, SourceOf[x] = All[i] PROVE Reached(q, i)
    BY <2>1, <2>2, <2>3, <2>4 DEF Reached
  <2> QED
    BY <1>1, <2>1, <2>4 DEF Swept, Reached
<1>3. CASE q # r
  <2>1. visited'[q] = visited[q]
    BY <1>3 DEF Visit, TypeOK
  <2> QED
    BY <1>1, <2>1, SweptFrame
<1> QED
  BY <1>2, <1>3

\* A run moves on to the next source, the one it leaves not complete or
\* wholly come past.
LEMMA SweptNext ==
  ASSUME TypeOK, NEW q \in Run, Swept(q), at[q] <= 5, at'[q] = at[q] + 1, pc'[q] = "next",
         UNCHANGED <<scope[q], visited[q]>>, complete'[q] \subseteq complete[q],
         All[at[q]] \in complete'[q] => Ahead(q) = {}
  PROVE  Swept(q)'
<1>1. at[q] \in 1..5
  BY DEF TypeOK
<1>2. ASSUME NEW i \in 1..5, Reached(q, i) PROVE Reached(q, i)'
  <2>1. i <= at[q]
    BY <1>1, <1>2 DEF Reached
  <2>2. i < at'[q]
    BY <1>1, <2>1
  <2> QED
    BY <2>2 DEF Reached
<1>3. ASSUME NEW x \in scope[q], NEW i \in 1..5,
             SourceOf[x] = All[i], All[i] \in complete'[q], i < at[q] + 1
      PROVE  x \in visited[q]
  <2>1. CASE i < at[q]
    BY <1>3, <2>1 DEF Swept
  <2>2. CASE i = at[q]
    BY <1>3, <2>2 DEF Ahead
  <2> QED
    BY <1>1, <1>3, <2>1, <2>2
<1> QED
  BY <1>2, <1>3 DEF Swept

LEMMA StepInv3 == Inv1 /\ Inv3 /\ [Next]_vars => Inv3'
<1> SUFFICES ASSUME Inv1, Inv3, [Next]_vars, NEW q \in Run PROVE Swept(q)'
  BY DEF Inv3
<1>0. TypeOK /\ Control(q) /\ Swept(q)
  BY DEF Inv1, Inv3
<1>1. ASSUME NEW x \in Placement, HostChanges(x) PROVE Swept(q)'
  BY <1>0, <1>1, SweptFrame DEF HostChanges, sweepVars
<1>2. ASSUME NEW r \in Run, Cancel(r) PROVE Swept(q)'
  BY <1>0, <1>2, SweptFrame DEF Cancel, sweepVars
<1>3. ASSUME NEW r \in Run, Begin(r) PROVE Swept(q)'
  <2>1. UNCHANGED <<at, visited, complete>>
    BY <1>3 DEF Begin
  <2>2. CASE q = r
    <3>1. at[q] = 1 /\ visited[q] = {} /\ complete[q] = {}
      BY <1>0, <1>3, <2>2 DEF Begin, Control
    <3> QED
      BY <2>1, <3>1 DEF Swept
  <2>3. CASE q # r
    <3>1. UNCHANGED <<scope[q], pc[q]>>
      BY <1>0, <1>3, <2>3 DEF Begin, TypeOK
    <3> QED
      BY <1>0, <2>1, <3>1, SweptFrame
  <2> QED
    BY <2>2, <2>3
<1>4. ASSUME NEW r \in Run, SkipSource(r) PROVE Swept(q)'
  <2>1. UNCHANGED <<pc, scope, visited, complete>>
    BY <1>4 DEF SkipSource
  <2>2. CASE q = r
    <3>1. at[q] <= 5 /\ at'[q] = at[q] + 1 /\ pc[q] = "next"
      BY <1>0, <1>4, <2>2 DEF SkipSource, TypeOK
    <3>2. All[at[q]] \notin complete[q]
      <4>1. at[q] \in 1..5
        BY <1>0, <3>1 DEF TypeOK
      <4> QED
        BY <1>0, <3>1, <4>1 DEF Swept, Reached
    <3> QED
      BY <1>0, <2>1, <3>1, <3>2, SweptNext
  <2>3. CASE q # r
    <3>1. at'[q] = at[q]
      BY <1>0, <1>4, <2>3 DEF SkipSource, TypeOK
    <3> QED
      BY <1>0, <2>1, <3>1, SweptFrame
  <2> QED
    BY <2>2, <2>3
<1>5. ASSUME NEW r \in Run, BeginSweep(r) PROVE Swept(q)'
  <2>1. UNCHANGED <<at, scope, visited>>
    BY <1>5 DEF BeginSweep
  <2>2. CASE q = r
    <3>1. /\ at[q] \in 1..5 /\ pc[q] = "next" /\ pc'[q] = "sweep"
          /\ complete'[q] = complete[q] \cup {All[at[q]]}
      BY <1>0, <1>5, <2>2 DEF BeginSweep, TypeOK
    <3>2. ASSUME NEW i \in 1..5, All[i] \in complete'[q]
          PROVE  i = at[q] \/ All[i] \in complete[q]
      BY <3>1, <3>2, AllInjective
    <3> QED
      BY <1>0, <2>1, <3>1, <3>2 DEF Swept, Reached
  <2>3. CASE q # r
    <3>1. UNCHANGED <<pc[q], complete[q]>>
      BY <1>0, <1>5, <2>3 DEF BeginSweep, TypeOK
    <3> QED
      BY <1>0, <2>1, <3>1, SweptFrame
  <2> QED
    BY <2>2, <2>3
<1>6. ASSUME NEW r \in Run, NEW x \in Placement,
             Find(r, x) \/ Miss(r, x) \/ PassOver(r, x)
      PROVE  Swept(q)'
  <2>1. Visit(r, x)
    BY <1>6 DEF Find, Miss, PassOver
  <2>2. complete'[q] \subseteq complete[q]
    <3>1. \/ complete' = complete
          \/ complete' = [complete EXCEPT ![r] = @ \ {SourceOf[x]}]
      BY <1>6 DEF Find, Miss, PassOver, Observe
    <3>2. complete \in [Run -> SUBSET Source]
      BY <1>0 DEF TypeOK
    <3> QED
      BY <3>1, <3>2
  <2> QED
    BY <1>0, <2>1, <2>2, SweptVisit
<1>7. ASSUME NEW r \in Run, EndSweep(r) \/ CutSweep(r) PROVE Swept(q)'
  <2>1. UNCHANGED <<scope, visited>>
    BY <1>7 DEF EndSweep, CutSweep
  <2>2. CASE q = r
    <3>1. /\ at[q] <= 5 /\ at'[q] = at[q] + 1 /\ pc'[q] = "next"
          /\ complete'[q] \subseteq complete[q]
          /\ All[at[q]] \in complete'[q] => Ahead(q) = {}
      BY <1>0, <1>7, <2>2 DEF EndSweep, CutSweep, Control, TypeOK
    <3> QED
      BY <1>0, <2>1, <3>1, SweptNext
  <2>3. CASE q # r
    <3>1. UNCHANGED <<at[q], pc[q], complete[q]>>
      BY <1>0, <1>7, <2>3 DEF EndSweep, CutSweep, TypeOK
    <3> QED
      BY <1>0, <2>1, <3>1, SweptFrame
  <2> QED
    BY <2>2, <2>3
<1>8. ASSUME NEW r \in Run, EndCollect(r) \/ Upload(r) \/ Server(r) PROVE Swept(q)'
  <2>1. UNCHANGED sweepVars
    BY <1>8 DEF EndCollect, Upload, SendPage, GiveUp, Acknowledged, Refused, Server,
                ServerTakes, ServerRefuses
  <2>2. pc'[q] = "sweep" <=> pc[q] = "sweep"
    BY <1>0, <1>8 DEF EndCollect, Upload, SendPage, GiveUp, Acknowledged, Refused, Server,
                      ServerTakes, ServerRefuses, TypeOK
  <2> QED
    BY <1>0, <2>1, <2>2, SweptFrame DEF sweepVars
<1>9. CASE UNCHANGED vars
  BY <1>0, <1>9, SweptFrame DEF vars, sweepVars
<1> QED
  BY <1>1, <1>2, <1>3, <1>4, <1>5, <1>6, <1>7, <1>8, <1>9 DEF Next, Collect

-----------------------------------------------------------------------------
(* Finding.                                                                *)

LEMMA InitInv4 == Init => Inv4
  BY DEF Init, Inv4, Found

LEMMA FoundFrame ==
  ASSUME NEW q \in Run, Found(q), UNCHANGED <<scope[q], visited[q], obs[q]>>,
         steady'[q] \subseteq steady[q], steady'[q] \subseteq host',
         complete'[q] \subseteq complete[q],
         ~cancelled'[q] \/ net'[q] => ~cancelled[q] \/ net[q]
  PROVE  Found(q)'
<1>1. ASSUME NEW x \in visited[q], Answerable(q, x)' PROVE Answerable(q, x)
  BY <1>1 DEF Answerable, CanSee
<1>2. Recorded(q)' = Recorded(q)
  BY DEF Recorded
<1> QED
  BY <1>1, <1>2 DEF Found

\* A named site was named: a configured one that names it was swept before
\* it, and so was recorded.
LEMMA NamedInTime ==
  ASSUME TypeOK, NEW q \in Run, Swept(q), Found(q), ~cancelled[q], pc[q] = "sweep",
         NEW x \in Placement, SourceOf[x] = All[at[q]], Answerable(q, x)
  PROVE  Named(q, x)
<1> SUFFICES ASSUME Needs[x] # {} PROVE Needs[x] \cap Recorded(q) # {}
  BY DEF Named
<1>1. PICK y \in Needs[x] : y \in steady[q] /\ CanSee(q, y)
  BY DEF Answerable
<1>2. y \in Placement /\ SourceOf[x] = "listener" /\ SourceOf[y] = "server_config"
  BY <1>1, NeedsAssumption
<1>3. Needs[y] = {}
  BY <1>2, NeedsAssumption
<1>4. SourceOf[y] = All[4] /\ SourceOf[x] = All[5]
  BY <1>2 DEF All
<1>5. at[q] = 5 \/ at[q] = 6
  <2>1. ASSUME at[q] \in 1..5 PROVE at[q] = 5
    <3>1. All[at[q]] = All[5]
      BY <1>4
    <3> QED
      BY <2>1, <3>1, AllInjective
  <2>2. at[q] \in 1..6
    BY DEF TypeOK
  <2> QED
    BY <2>1, <2>2
<1>6. SourceOf[y] \in complete[q]
  BY <1>2 DEF Answerable
<1>7. y \in visited[q]
  <2>1. y \in scope[q]
    BY <1>1 DEF CanSee
  <2>2. 4 \in 1..5 /\ 4 < at[q]
    BY <1>5
  <2> QED
    BY <1>4, <1>6, <2>1, <2>2 DEF Swept
<1>8. Answerable(q, y)
  BY <1>1, <1>3, <1>6 DEF Answerable
<1>9. y \in Recorded(q)
  BY <1>1, <1>7, <1>8 DEF Found
<1> QED
  BY <1>1, <1>9

LEMMA FoundVisit ==
  ASSUME TypeOK, NEW q \in Run, Control(q), Swept(q), Found(q), NEW x \in Placement,
         Find(q, x) \/ Miss(q, x) \/ PassOver(q, x)
  PROVE  Found(q)'
<1>1. /\ UNCHANGED <<hostVars, pc, at, scope, disabled, cancelled, uploadVars, serverVars>>
      /\ pc[q] = "sweep"
      /\ SourceOf[x] = All[at[q]]
      /\ visited'[q] = visited[q] \cup {x}
  BY DEF Find, Miss, PassOver, Visit, Ahead, TypeOK
<1>2. UNCHANGED <<host, steady, scope, cancelled, net>>
  BY <1>1 DEF hostVars, uploadVars
<1>3. complete'[q] \subseteq complete[q]
  <2>1. \/ complete' = complete
        \/ complete' = [complete EXCEPT ![q] = @ \ {SourceOf[x]}]
    BY DEF Find, Miss, PassOver, Observe
  <2>2. complete \in [Run -> SUBSET Source]
    BY DEF TypeOK
  <2> QED
    BY <2>1, <2>2
<1>4. ~net[q]
  BY <1>1 DEF Control
<1>5. Recorded(q) \subseteq Recorded(q)'
  <2>1. obs[q] \in Seq(Placement) /\ obs \in [Run -> Seq(Placement)]
    BY DEF TypeOK
  <2>2. CASE obs' = obs
    BY <2>2 DEF Recorded
  <2>3. CASE obs' = [obs EXCEPT ![q] = Append(@, x)]
    <3>1. obs'[q] = Append(obs[q], x)
      BY <2>1, <2>3
    <3>2. /\ Len(obs'[q]) = Len(obs[q]) + 1
          /\ \A i \in 1..Len(obs[q]) : obs'[q][i] = obs[q][i]
      BY <2>1, <3>1
    <3> QED
      BY <2>1, <3>2 DEF Recorded
  <2> QED
    BY <2>2, <2>3 DEF Find, Miss, PassOver, Observe
<1>6. ASSUME NEW z \in visited[q] \cup {x}, Answerable(q, z)' PROVE Answerable(q, z)
  BY <1>2, <1>3, <1>6 DEF Answerable, CanSee
<1>7. ASSUME ~cancelled[q], x \in steady[q], Answerable(q, x)' PROVE x \in Recorded(q)'
  <2>1. Answerable(q, x) /\ SourceOf[x] \in complete'[q]
    BY <1>6, <1>7 DEF Answerable
  <2>2. CASE Find(q, x)
    <3>1. obs' = [obs EXCEPT ![q] = Append(@, x)]
      <4>1. complete' # [complete EXCEPT ![q] = @ \ {SourceOf[x]}]
        BY <2>1 DEF TypeOK
      <4> QED
        BY <2>2, <4>1 DEF Find, Observe
    <3>2. obs \in [Run -> Seq(Placement)] /\ obs[q] \in Seq(Placement)
      BY DEF TypeOK
    <3>3. obs'[q] = Append(obs[q], x)
      BY <3>1, <3>2
    <3>4. /\ Len(obs'[q]) = Len(obs[q]) + 1
          /\ obs'[q][Len(obs[q]) + 1] = x
          /\ Len(obs[q]) \in Nat
      BY <3>2, <3>3
    <3> QED
      BY <3>4 DEF Recorded
  <2>3. CASE Miss(q, x)
    BY <2>1, <2>3 DEF Miss, TypeOK
  <2>4. CASE PassOver(q, x)
    <3>1. x \in host
      BY <1>7 DEF Found
    <3>2. x \notin Blind
      BY <2>1 DEF Answerable, CanSee
    <3>3. Named(q, x)
      BY <1>1, <1>7, <2>1, NamedInTime
    <3> QED
      BY <1>7, <2>4, <3>1, <3>2, <3>3 DEF PassOver
  <2> QED
    BY <2>2, <2>3, <2>4
<1> QED
  BY <1>1, <1>2, <1>4, <1>5, <1>6, <1>7 DEF Found

LEMMA StepInv4 == Inv1 /\ Inv3 /\ Inv4 /\ [Next]_vars => Inv4'
<1> SUFFICES ASSUME Inv1, Inv3, Inv4, [Next]_vars, NEW q \in Run PROVE Found(q)'
  BY DEF Inv4
<1>0. TypeOK /\ Control(q) /\ Swept(q) /\ Found(q) /\ steady[q] \subseteq host
  BY DEF Inv1, Inv3, Inv4, Found
<1>1. ASSUME NEW x \in Placement, HostChanges(x) PROVE Found(q)'
  <2>1. steady'[q] = steady[q] \cap host'
    BY <1>1 DEF HostChanges
  <2>2. UNCHANGED <<scope, visited, obs, complete, cancelled, net>>
    BY <1>1 DEF HostChanges, sweepVars, uploadVars
  <2> QED
    BY <1>0, <2>1, <2>2, FoundFrame
<1>2. ASSUME NEW r \in Run, Cancel(r) PROVE Found(q)'
  BY <1>0, <1>2, FoundFrame DEF Cancel, hostVars, sweepVars, uploadVars, TypeOK
<1>3. ASSUME NEW r \in Run, Begin(r) PROVE Found(q)'
  <2>1. UNCHANGED <<host, visited, obs, complete, cancelled, net>>
    BY <1>3 DEF Begin
  <2>2. CASE q = r
    <3>1. visited[q] = {} /\ steady'[q] = host
      BY <1>0, <1>3, <2>2 DEF Begin, Control, TypeOK
    <3> QED
      BY <2>1, <3>1 DEF Found
  <2>3. CASE q # r
    <3>1. UNCHANGED <<scope[q], steady[q]>>
      BY <1>0, <1>3, <2>3 DEF Begin, TypeOK
    <3> QED
      BY <1>0, <2>1, <3>1, FoundFrame
  <2> QED
    BY <2>2, <2>3
<1>4. ASSUME NEW r \in Run, BeginSweep(r) PROVE Found(q)'
  <2>1. UNCHANGED <<host, steady, scope, visited, obs, cancelled, net>>
    BY <1>4 DEF BeginSweep, hostVars, uploadVars
  <2>2. CASE q = r
    <3>1. /\ at[q] \in 1..5 /\ pc[q] = "next"
          /\ complete'[q] = complete[q] \cup {All[at[q]]}
      BY <1>0, <1>4, <2>2 DEF BeginSweep, TypeOK
    <3>2. ASSUME NEW x \in visited[q], Answerable(q, x)' PROVE Answerable(q, x)
      <4>1. PICK i \in 1..5 : SourceOf[x] = All[i]
        BY <1>0, SourceIndex DEF TypeOK
      <4>2. i < at[q]
        BY <1>0, <3>1, <4>1 DEF Swept, Reached
      <4>3. SourceOf[x] \in complete[q]
        BY <3>1, <3>2, <4>1, <4>2, AllInjective DEF Answerable
      <4>4. Needs[x] = {}
        <5>1. SourceOf[x] # "listener"
          <6>1. All[5] = "listener"
            BY DEF All
          <6> QED
            BY <3>1, <4>1, <4>2, <6>1, AllInjective
        <5> QED
          BY <1>0, <5>1, NeedsAssumption DEF TypeOK
      <4> QED
        BY <2>1, <3>2, <4>3, <4>4 DEF Answerable, CanSee
    <3> QED
      BY <1>0, <2>1, <3>2 DEF Found, Recorded
  <2>3. CASE q # r
    <3>1. complete'[q] = complete[q]
      BY <1>0, <1>4, <2>3 DEF BeginSweep, TypeOK
    <3> QED
      BY <1>0, <2>1, <3>1, FoundFrame
  <2> QED
    BY <2>2, <2>3
<1>5. ASSUME NEW r \in Run, NEW x \in Placement,
             Find(r, x) \/ Miss(r, x) \/ PassOver(r, x)
      PROVE  Found(q)'
  <2>1. CASE q = r
    BY <1>0, <1>5, <2>1, FoundVisit
  <2>2. CASE q # r
    <3>1. UNCHANGED <<host, steady, scope, cancelled, net>>
      BY <1>5 DEF Find, Miss, PassOver, Visit, hostVars, uploadVars
    <3>2. visited'[q] = visited[q]
      BY <1>0, <1>5, <2>2 DEF Find, Miss, PassOver, Visit, TypeOK
    <3>3. UNCHANGED <<obs[q], complete[q]>>
      BY <1>0, <1>5, <2>2 DEF Find, Miss, PassOver, Observe, TypeOK
    <3> QED
      BY <1>0, <3>1, <3>2, <3>3, FoundFrame
  <2> QED
    BY <2>1, <2>2
<1>6. ASSUME NEW r \in Run, SkipSource(r) \/ EndSweep(r) \/ CutSweep(r) \/ EndCollect(r)
      PROVE  Found(q)'
  <2>1. UNCHANGED <<host, steady, scope, visited, obs, cancelled, net>>
    BY <1>6 DEF SkipSource, EndSweep, CutSweep, EndCollect, hostVars, sweepVars, uploadVars
  <2>2. complete'[q] \subseteq complete[q]
    BY <1>0, <1>6 DEF SkipSource, EndSweep, CutSweep, EndCollect, sweepVars, TypeOK
  <2> QED
    BY <1>0, <2>1, <2>2, FoundFrame
<1>7. ASSUME NEW r \in Run, Upload(r) \/ Server(r) PROVE Found(q)'
  <2>1. UNCHANGED <<host, steady, scope, visited, obs, complete, cancelled>>
    BY <1>7 DEF Upload, SendPage, GiveUp, Acknowledged, Refused, Server, ServerTakes,
                ServerRefuses, hostVars, sweepVars
  <2>2. net'[q] => net[q] \/ ~cancelled[q]
    BY <1>0, <1>7 DEF Upload, SendPage, GiveUp, Acknowledged, Refused, Server, ServerTakes,
                      ServerRefuses, uploadVars, TypeOK
  <2> QED
    BY <1>0, <2>1, <2>2, FoundFrame
<1>8. CASE UNCHANGED vars
  BY <1>0, <1>8, FoundFrame DEF vars, hostVars, sweepVars, uploadVars
<1> QED
  BY <1>1, <1>2, <1>3, <1>4, <1>5, <1>6, <1>7, <1>8 DEF Next, Collect

LEMMA SafeFromInv == Inv1 /\ Inv2 /\ Inv3 /\ Inv4 => PagesAreSafe
<1> SUFFICES ASSUME Inv1, Inv2, Inv3, Inv4, NEW r \in Run, net[r],
                    NEW x \in steady[r], AnswersFor(r, x), x \in Retires(r)
             PROVE  FALSE
  BY DEF PagesAreSafe
<1>0. TypeOK /\ Control(r) /\ Swept(r) /\ Found(r)
  BY DEF Inv1, Inv3, Inv4
<1>1. Final(r) /\ SourceOf[x] \in complete[r] /\ x \notin Folded(r) /\ x \in Placement
  BY DEF Retires, Declared
<1>2. Answerable(r, x)
  BY <1>1 DEF Answerable, AnswersFor, Declared
<1>3. x \in visited[r]
  <2>1. PICK i \in 1..5 : SourceOf[x] = All[i]
    BY <1>1, SourceIndex
  <2>2. at[r] = 6
    BY <1>0 DEF Control
  <2> QED
    BY <1>0, <1>1, <1>2, <2>1, <2>2 DEF Swept, Answerable, CanSee
<1>4. x \in Recorded(r)
  BY <1>0, <1>2, <1>3 DEF Found
<1> QED
  BY <1>1, <1>4, WholeRunFromInv DEF FinalCarriesWholeRun, AnswersFor

Inv == Inv1 /\ Inv2 /\ Inv3 /\ Inv4

LEMMA Invariance == Spec => []Inv
<1>1. Init => Inv
  BY InitInv1, InitInv2, InitInv3, InitInv4 DEF Inv
<1>2. Inv /\ [Next]_vars => Inv'
  BY StepInv1, StepInv2, StepInv3, StepInv4 DEF Inv
<1> QED
  BY <1>1, <1>2, PTL DEF Spec

\* No page of any run marks gone a placement that has been on the host ever
\* since the run began and that the run's silence answers for, for any number
\* of overlapping runs and any limits (Result.Completed, Report).
THEOREM Safe == Spec => []PagesAreSafe
  BY Invariance, SafeFromInv, PTL DEF Inv

-----------------------------------------------------------------------------
(* Implementing Portfolio.                                                 *)

LEMMA InitInv5 == Init => Inv5
  BY DEF Init, Inv5, Grounded, Recorded

LEMMA GroundedFrame ==
  ASSUME NEW q \in Run, Grounded(q), UNCHANGED <<host, ever[q], obs[q]>>,
         pc'[q] # "idle" => pc[q] # "idle"
  PROVE  Grounded(q)'
  BY DEF Grounded, Recorded

LEMMA StepInv5 == Inv1 /\ Inv5 /\ [Next]_vars => Inv5'
<1> SUFFICES ASSUME Inv1, Inv5, [Next]_vars, NEW q \in Run PROVE Grounded(q)'
  BY DEF Inv5
<1>0. TypeOK /\ Control(q) /\ Grounded(q)
  BY DEF Inv1, Inv5
<1>1. ASSUME NEW x \in Placement, HostChanges(x) PROVE Grounded(q)'
  <2>1. ever'[q] = ever[q] \cup host'
    BY <1>1 DEF HostChanges
  <2>2. UNCHANGED <<obs, pc>>
    BY <1>1 DEF HostChanges, sweepVars
  <2> QED
    BY <1>0, <2>1, <2>2 DEF Grounded, Recorded
<1>2. ASSUME NEW r \in Run, Begin(r) PROVE Grounded(q)'
  <2>1. UNCHANGED <<host, obs>>
    BY <1>2 DEF Begin
  <2>2. CASE q = r
    <3>1. obs[q] = <<>> /\ ever'[q] = host
      BY <1>0, <1>2, <2>2 DEF Begin, Control, TypeOK
    <3> QED
      BY <2>1, <3>1 DEF Grounded, Recorded
  <2>3. CASE q # r
    <3>1. UNCHANGED <<pc[q], ever[q]>>
      BY <1>0, <1>2, <2>3 DEF Begin, TypeOK
    <3> QED
      BY <1>0, <2>1, <3>1, GroundedFrame
  <2> QED
    BY <2>2, <2>3
<1>3. ASSUME NEW r \in Run, NEW x \in Placement, Find(r, x) PROVE Grounded(q)'
  <2>1. UNCHANGED <<host, ever, pc>> /\ pc[r] = "sweep" /\ x \in host
    BY <1>3 DEF Find, Visit, hostVars
  <2>2. CASE obs'[q] = obs[q]
    BY <1>0, <2>1, <2>2, GroundedFrame
  <2>3. CASE obs'[q] # obs[q]
    <3>1. q = r /\ obs' = [obs EXCEPT ![q] = Append(@, x)]
      BY <1>0, <1>3, <2>3 DEF Find, Observe, TypeOK
    <3>2. obs[q] \in Seq(Placement) /\ obs'[q] = Append(obs[q], x)
      BY <1>0, <3>1 DEF TypeOK
    <3>3. Recorded(q)' \subseteq Recorded(q) \cup {x}
      BY <3>2 DEF Recorded
    <3>4. x \in ever[q]
      BY <1>0, <2>1, <3>1 DEF Grounded
    <3> QED
      BY <1>0, <2>1, <3>3, <3>4 DEF Grounded
  <2> QED
    BY <2>2, <2>3
<1>4. ASSUME NEW r \in Run,
             \/ Cancel(r) \/ SkipSource(r) \/ BeginSweep(r)
             \/ \E x \in Placement : Miss(r, x) \/ PassOver(r, x)
             \/ EndSweep(r) \/ CutSweep(r) \/ EndCollect(r)
      PROVE  Grounded(q)'
  <2>1. UNCHANGED <<host, ever, obs>>
    BY <1>4 DEF Cancel, SkipSource, BeginSweep, Miss, PassOver, Visit, EndSweep, CutSweep,
                EndCollect, hostVars, sweepVars
  <2>2. pc'[q] # "idle" => pc[q] # "idle"
    BY <1>0, <1>4 DEF Cancel, SkipSource, BeginSweep, Miss, PassOver, Visit, EndSweep,
                      CutSweep, EndCollect, TypeOK
  <2> QED
    BY <1>0, <2>1, <2>2, GroundedFrame
<1>5. ASSUME NEW r \in Run, Upload(r) \/ Server(r) PROVE Grounded(q)'
  <2>1. UNCHANGED <<host, ever, obs>>
    BY <1>5 DEF Upload, SendPage, GiveUp, Acknowledged, Refused, Server, ServerTakes,
                ServerRefuses, hostVars, sweepVars
  <2>2. pc'[q] # "idle" => pc[q] # "idle"
    BY <1>0, <1>5 DEF Upload, SendPage, GiveUp, Acknowledged, Refused, Server, ServerTakes,
                      ServerRefuses, TypeOK
  <2> QED
    BY <1>0, <2>1, <2>2, GroundedFrame
<1>6. CASE UNCHANGED vars
  BY <1>0, <1>6, GroundedFrame DEF vars, hostVars, sweepVars
<1> QED
  BY <1>1, <1>2, <1>3, <1>4, <1>5, <1>6 DEF Next, Collect

LEMMA PortfolioInit == Init => P!Init
  BY ScopeAssumption DEF Init, P!Init, Seen

\* The page of a run that arrives is something Portfolio lets it say.
LEMMA PortfolioLearn ==
  ASSUME TypeOK, TypeOK', PagesAreSafe, NEW r \in Run, Grounded(r), ServerTakes(r)
  PROVE  P!Learn(r)
<1>1. UNCHANGED <<host, scope, steady, ever>>
  BY DEF ServerTakes, hostVars, sweepVars
<1>2. inventory' \in [Placement -> {"never", "live", "gone"}]
  BY DEF TypeOK
<1>3. ASSUME NEW x \in Placement PROVE P!MayBecome(r, x, inventory'[x])
  <2>1. CASE x \in Taken(r)
    <3>1. inventory'[x] = "live"
      BY <2>1 DEF ServerTakes
    <3>2. x \in ever[r]
      BY <2>1, PageRecorded DEF Grounded, Taken
    <3> QED
      BY <3>1, <3>2 DEF P!MayBecome
  <2>2. CASE x \notin Taken(r) /\ x \in Retires(r)
    <3>1. inventory'[x] = "gone" /\ inventory[x] = "live"
      BY <2>2 DEF ServerTakes, Retires
    <3>2. x \notin steady[r] \cap Seen(scope[r])
      <4> SUFFICES ASSUME x \in steady[r], x \in Seen(scope[r]) PROVE FALSE
        OBVIOUS
      <4>1. AnswersFor(r, x)
        BY DEF AnswersFor, CanSee, Seen
      <4> QED
        BY <2>2, <4>1 DEF PagesAreSafe, ServerTakes
    <3> QED
      BY <3>1, <3>2 DEF P!MayBecome
  <2>3. CASE x \notin Taken(r) /\ x \notin Retires(r)
    BY <2>3 DEF P!MayBecome, ServerTakes
  <2> QED
    BY <2>1, <2>2, <2>3
<1> QED
  BY <1>1, <1>2, <1>3 DEF P!Learn

LEMMA PortfolioStep ==
  ASSUME TypeOK, TypeOK', PagesAreSafe, Inv5, [Next]_vars
  PROVE  [P!Next]_P!vars
<1>1. ASSUME NEW x \in Placement, HostChanges(x) PROVE P!HostChanges
  BY <1>1 DEF HostChanges, P!HostChanges, sweepVars, serverVars, TypeOK
<1>2. ASSUME NEW r \in Run, Begin(r) PROVE P!Open(r)
  <2>1. PICK S \in Scopes : scope' = [scope EXCEPT ![r] = S]
    BY <1>2 DEF Begin
  <2>2. [q \in Run |-> Seen(scope'[q])] = [[q \in Run |-> Seen(scope[q])] EXCEPT ![r] = Seen(S)]
    BY <2>1 DEF TypeOK
  <2> QED
    BY <1>2, <2>1, <2>2 DEF Begin, P!Open, serverVars, Seen
<1>3. ASSUME NEW r \in Run, ServerTakes(r) PROVE P!Learn(r)
  BY <1>3, PortfolioLearn DEF Inv5
<1>4. ASSUME NEW r \in Run,
             \/ Cancel(r) \/ SkipSource(r) \/ BeginSweep(r)
             \/ \E x \in Placement : Find(r, x) \/ Miss(r, x) \/ PassOver(r, x)
             \/ EndSweep(r) \/ CutSweep(r) \/ EndCollect(r) \/ Upload(r) \/ ServerRefuses(r)
      PROVE  UNCHANGED P!vars
  <2>1. UNCHANGED <<host, inventory, scope, steady, ever>>
    BY <1>4 DEF Cancel, SkipSource, BeginSweep, Find, Miss, PassOver, Visit, EndSweep,
                CutSweep, EndCollect, Upload, SendPage, GiveUp, Acknowledged, Refused,
                ServerRefuses, hostVars, sweepVars, serverVars
  <2> QED
    BY <2>1 DEF P!vars, Seen
<1>5. CASE UNCHANGED vars
  BY <1>5 DEF vars, hostVars, sweepVars, serverVars, P!vars, Seen
<1> QED
  BY <1>1, <1>2, <1>3, <1>4, <1>5 DEF Next, Collect, Server, P!Next

\* The runs make the portfolio believe only what Portfolio allows, however
\* many of them overlap and whatever each meets.
THEOREM Refinement == Spec => ImplementsPortfolio
<1>1. Spec => []Inv5
  BY InitInv1, StepInv1, InitInv5, StepInv5, PTL DEF Spec
<1>2. Spec => P!Init /\ [][P!Next]_P!vars
  BY <1>1, TypeCorrect, Safe, PortfolioInit, PortfolioStep, PTL DEF Spec
<1> QED
  BY <1>2 DEF ImplementsPortfolio, P!Spec

=============================================================================
