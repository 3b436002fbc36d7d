----------------------------- MODULE Portfolio -----------------------------
(***************************************************************************)
(* What the agent's runs may make DTP believe about one host, without      *)
(* saying how a run finds anything out or how it is sent.                  *)
(*                                                                         *)
(* A placement is one (source, location, certificate) of the host.  It is  *)
(* on the host or not; the portfolio has never heard of it, holds it as    *)
(* live, or holds it as gone.  A run has a window, from the moment it      *)
(* opens; what it says is judged against what was true in that window.     *)
(***************************************************************************)

CONSTANTS
  Placement,  \* everything this host could ever report
  Run,        \* the runs of the agent, by this process or by another one
  Views       \* the sets of placements a run may be set up to look at

VARIABLES
  host,       \* the placements that are on the host now
  inventory,  \* the portfolio: "never", "live" or "gone" for each placement
  view,       \* per run: the placements it was set up to look at
  steady,     \* per run: on the host without a break since the run opened
  ever        \* per run: on the host at some moment since the run opened

vars == <<host, inventory, view, steady, ever>>

Init ==
  /\ host \in SUBSET Placement
  /\ inventory \in [Placement -> {"never", "live", "gone"}]
  /\ view \in [Run -> Views]
  /\ steady = [r \in Run |-> {}]
  /\ ever = [r \in Run |-> {}]

\* The host changes under the agent: a certificate is deployed or removed.
HostChanges ==
  /\ host' \in SUBSET Placement
  /\ steady' = [r \in Run |-> steady[r] \cap host']
  /\ ever' = [r \in Run |-> ever[r] \cup host']
  /\ UNCHANGED <<inventory, view>>

\* A run opens its window.
Open(r) ==
  /\ \E V \in Views : view' = [view EXCEPT ![r] = V]
  /\ steady' = [steady EXCEPT ![r] = host]
  /\ ever' = [ever EXCEPT ![r] = host]
  /\ UNCHANGED <<host, inventory>>

(***************************************************************************)
(* The portfolio takes something run r said.  A placement may become live  *)
(* only if it was on the host in r's window, and may become gone only if   *)
(* it was live and r either did not look at it or could have found it      *)
(* missing: it was not there throughout r's window.                        *)
(***************************************************************************)
MayBecome(r, x, status) ==
  \/ status = inventory[x]
  \/ status = "live" /\ x \in ever[r]
  \/ status = "gone" /\ inventory[x] = "live" /\ x \notin steady[r] \cap view[r]

Learn(r) ==
  /\ inventory' \in [Placement -> {"never", "live", "gone"}]
  /\ \A x \in Placement : MayBecome(r, x, inventory'[x])
  /\ UNCHANGED <<host, view, steady, ever>>

Next ==
  \/ HostChanges
  \/ \E r \in Run : Open(r) \/ Learn(r)

Spec == Init /\ [][Next]_vars
=============================================================================
