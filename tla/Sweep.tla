------------------------------- MODULE Sweep -------------------------------
(***************************************************************************)
(* What one collector promises (collect.Collector, Result.Completed): it   *)
(* may report what it likes of what could be there, and say "complete"     *)
(* only when it has reported everything it is answerable for.  What it is  *)
(* answerable for shrinks as the sweep goes: something leaves the host, or *)
(* cannot be seen in a way the code is known to accept.                    *)
(***************************************************************************)
CONSTANT Finding

VARIABLES
  owed,      \* what a complete sweep must have reported
  reported,  \* what was reported
  said       \* "nothing" yet, "complete" or "incomplete"

vars == <<owed, reported, said>>

Init ==
  /\ owed \in SUBSET Finding
  /\ reported = {}
  /\ said = "nothing"

Excuse ==
  /\ owed' \in SUBSET owed
  /\ UNCHANGED <<reported, said>>

Report ==
  /\ said = "nothing"
  /\ owed' \in SUBSET owed
  /\ reported' \in SUBSET Finding
  /\ reported \subseteq reported'
  /\ UNCHANGED said

Say ==
  /\ said = "nothing"
  /\ said' \in {"complete", "incomplete"}
  /\ said' = "complete" => owed \subseteq reported
  /\ UNCHANGED <<owed, reported>>

Next == Excuse \/ Report \/ Say

Spec == Init /\ [][Next]_vars
=============================================================================
