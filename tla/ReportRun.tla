----------------------------- MODULE ReportRun -----------------------------
(***************************************************************************)
(* One run of the agent, from the first collector to the last page, and    *)
(* what the server makes of it.                                            *)
(*                                                                         *)
(*   collect.Run        runs the collectors in their fixed order, each     *)
(*                      sweeping a host that goes on changing under it;    *)
(*   Result.observe     takes a finding unless the run is full;            *)
(*   transport.Report   pages what was found under one run id, and names   *)
(*                      the completed sources on the final page only;      *)
(*   the server         folds the pages of a run id into one run, and on   *)
(*                      the final page marks gone what a completed source  *)
(*                      used to report and this run did not.               *)
(*                                                                         *)
(* A finding is abstracted to a placement, the (source, location,          *)
(* certificate) the server keys on.  How each collector reads one is the   *)
(* subject of the collectors' own modules; here it is found, missed (the   *)
(* collector says its sweep is incomplete) or passed over (it does not).   *)
(***************************************************************************)
EXTENDS Integers, Sequences, FiniteSets

CONSTANTS
  Placement,              \* everything this host could ever report
  Run,                    \* runs of the agent; several may overlap
  SourceOf,               \* the source that reports each placement
  Needs,                  \* listener placement -> the server_config ones naming it
  Blind,                  \* placements a sweep may fail to see and not know it:
                          \*   a file listed but not lstat'ed, a listener too
                          \*   loaded to send a byte before the probe's timeout
  Rejected,               \* placements whose observations the server refuses by
                          \*   name in the answer to a page that it takes
  Scopes,                 \* the sets of placements a run's options may cover
  DisabledSets,           \* the sets of sources a run may have turned off
  Known,                  \* what earlier runs left live in the portfolio
  SizeOf,                 \* bytes of certificate and chain of each placement
  MaxObservationsPerRun,
  MaxObservationBytesPerRun,
  MaxObservationsPerPage,
  MaxHostChanges          \* bound of the model: changes of the host in a behaviour

\* A mutant of All: the listener before the servers that name its sites.
AllListenerFirst ==
  <<"file", "java_keystore", "os_store", "listener", "server_config">>

\* The fixed order of the collectors (collect.All).
All == <<"file", "java_keystore", "os_store", "server_config", "listener">>
Source == {All[i] : i \in 1..5}

ASSUME SourceAssumption == SourceOf \in [Placement -> Source]
ASSUME NeedsAssumption ==
  /\ Needs \in [Placement -> SUBSET Placement]
  /\ \A x \in Placement : \A y \in Needs[x] :
       SourceOf[x] = "listener" /\ SourceOf[y] = "server_config"
ASSUME ScopeAssumption ==
  /\ DisabledSets \subseteq SUBSET Source /\ DisabledSets # {}
  /\ Blind \subseteq Placement /\ Known \subseteq Placement
  /\ Rejected \subseteq Placement
  /\ Scopes \subseteq SUBSET Placement /\ Scopes # {}
ASSUME LimitAssumption ==
  /\ SizeOf \in [Placement -> Nat]
  /\ MaxObservationsPerRun \in Nat
  /\ MaxObservationBytesPerRun \in Nat
  /\ MaxObservationsPerPage \in Nat \ {0}

VARIABLES
  host,       \* the placements on the host now
  changes,    \* how often the host has changed
  pc,         \* where each run stands
  at,         \* index in All of the collector a run is at; 6 after the last
  scope,      \* the placements a run's options cover
  disabled,   \* the sources a run's options turn off
  visited,    \* what the sweeps so far have come past
  obs,        \* the observations, in the order they were recorded
  bytes,      \* runCap.bytes; runCap.count is the number of observations
  full,       \* runCap.full
  complete,   \* sources whose Result still says Completed
  cancelled,  \* the context is done
  sent,       \* observations of acknowledged pages
  net,        \* the current page is on its way, or lost
  reply,      \* the server's answer to the current page
  runID,      \* the run id a run uploads under
  stored,     \* server: the placements each run id has reported
  inventory,  \* server: "never", "live" or "gone" for each placement
  steady,     \* history: on the host without a break since the run began
  ever        \* history: on the host at some moment since the run began

hostVars == <<host, changes, steady, ever>>
sweepVars == <<at, scope, disabled, visited, obs, bytes, full, complete>>
uploadVars == <<sent, net, reply, runID>>
serverVars == <<stored, inventory>>
vars == <<hostVars, pc, sweepVars, cancelled, uploadVars, serverVars>>

\* What a run has recorded so far.
Recorded(r) == {obs[r][i] : i \in 1..Len(obs[r])}

Init ==
  /\ host \in SUBSET Placement
  /\ changes = 0
  /\ pc = [r \in Run |-> "idle"]
  /\ at = [r \in Run |-> 1]
  /\ scope = [r \in Run |-> {}]
  /\ disabled = [r \in Run |-> {}]
  /\ visited = [r \in Run |-> {}]
  /\ obs = [r \in Run |-> <<>>]
  /\ bytes = [r \in Run |-> 0]
  /\ full = [r \in Run |-> FALSE]
  /\ complete = [r \in Run |-> {}]
  /\ cancelled = [r \in Run |-> FALSE]
  /\ sent = [r \in Run |-> 0]
  /\ net = [r \in Run |-> FALSE]
  /\ reply = [r \in Run |-> "none"]
  /\ runID = [r \in Run |-> r]
  /\ stored = [r \in Run |-> {}]
  /\ inventory = [x \in Placement |-> IF x \in Known THEN "live" ELSE "never"]
  /\ steady = [r \in Run |-> {}]
  /\ ever = [r \in Run |-> {}]

-----------------------------------------------------------------------------
(* The host.                                                               *)

\* A certificate is deployed, or one is removed, whatever the agent is doing.
HostChanges(x) ==
  /\ changes < MaxHostChanges
  /\ changes' = changes + 1
  /\ host' = IF x \in host THEN host \ {x} ELSE host \cup {x}
  /\ steady' = [r \in Run |-> steady[r] \cap host']
  /\ ever' = [r \in Run |-> ever[r] \cup host']
  /\ UNCHANGED <<pc, sweepVars, cancelled, uploadVars, serverVars>>

\* The context of a run ends: a signal, or the service being stopped.
Cancel(r) ==
  /\ pc[r] \in {"next", "sweep", "upload", "await"}
  /\ ~cancelled[r]
  /\ cancelled' = [cancelled EXCEPT ![r] = TRUE]
  /\ UNCHANGED <<hostVars, pc, sweepVars, uploadVars, serverVars>>

-----------------------------------------------------------------------------
(* Collecting.                                                             *)

(***************************************************************************)
(* reportOnce reaches collect.Run.  The options decide what the run looks  *)
(* at (scanOptions).  The run id is the key's fingerprint and the second,  *)
(* so a run begun in the same second as another shares its id; the model   *)
(* lets it share the id of any run begun before it.                        *)
(***************************************************************************)
Begin(r) ==
  /\ pc[r] = "idle"
  /\ pc' = [pc EXCEPT ![r] = "next"]
  /\ \E S \in Scopes : scope' = [scope EXCEPT ![r] = S]
  /\ \E D \in DisabledSets : disabled' = [disabled EXCEPT ![r] = D]
  /\ \E o \in {r} \cup {q \in Run : pc[q] # "idle"} :
       runID' = [runID EXCEPT ![r] = runID[o]]
  /\ steady' = [steady EXCEPT ![r] = host]
  /\ ever' = [ever EXCEPT ![r] = host]
  /\ UNCHANGED <<host, changes, at, visited, obs, bytes, full, complete, cancelled, sent, net,
                 reply, serverVars>>

\* runWithin passes over a disabled source, and one the run was full before.
SkipSource(r) ==
  /\ pc[r] = "next" /\ at[r] <= 5
  /\ All[at[r]] \in disabled[r] \/ full[r]
  /\ at' = [at EXCEPT ![r] = @ + 1]
  /\ UNCHANGED <<hostVars, pc, scope, disabled, visited, obs, bytes, full, complete, cancelled,
                 uploadVars, serverVars>>

\* runWithin calls Collect, whose Result starts out Completed.
BeginSweep(r) ==
  /\ pc[r] = "next" /\ at[r] <= 5
  /\ All[at[r]] \notin disabled[r] /\ ~full[r]
  /\ pc' = [pc EXCEPT ![r] = "sweep"]
  /\ complete' = [complete EXCEPT ![r] = @ \cup {All[at[r]]}]
  /\ UNCHANGED <<hostVars, at, scope, disabled, visited, obs, bytes, full, cancelled,
                 uploadVars, serverVars>>

\* What the current sweep has still to come past.
Ahead(r) == {x \in scope[r] \ visited[r] : SourceOf[x] = All[at[r]]}

\* A probe finds a named site only by sending a name that Inform was given,
\* and those come from the server_config observations of this run.
Named(r, x) == Needs[x] = {} \/ Needs[x] \cap Recorded(r) # {}

Visit(r, x) ==
  /\ pc[r] = "sweep" /\ ~full[r]
  /\ x \in Ahead(r)
  /\ visited' = [visited EXCEPT ![r] = @ \cup {x}]
  /\ UNCHANGED <<hostVars, pc, at, scope, disabled, cancelled, uploadVars, serverVars>>

\* A mutant of Fits: the limits compared before the observation counts.
FitsOneMore(r, x) ==
  /\ Len(obs[r]) <= MaxObservationsPerRun
  /\ bytes[r] <= MaxObservationBytesPerRun

\* observe records the finding while the run has room for it; the first one
\* refused fills the run and makes its source incomplete.
Fits(r, x) ==
  /\ Len(obs[r]) + 1 <= MaxObservationsPerRun
  /\ bytes[r] + SizeOf[x] <= MaxObservationBytesPerRun

Observe(r, x) ==
  \/ /\ Fits(r, x)
     /\ obs' = [obs EXCEPT ![r] = Append(@, x)]
     /\ bytes' = [bytes EXCEPT ![r] = @ + SizeOf[x]]
     /\ UNCHANGED <<full, complete>>
  \/ /\ ~Fits(r, x)
     /\ full' = [full EXCEPT ![r] = TRUE]
     /\ complete' = [complete EXCEPT ![r] = @ \ {SourceOf[x]}]
     /\ UNCHANGED <<obs, bytes>>

Find(r, x) ==
  /\ x \in host /\ Named(r, x)
  /\ Visit(r, x)
  /\ Observe(r, x)

\* A mutant of Miss: an unreadable file leaves its source complete.
MissQuietly(r, x) ==
  /\ Visit(r, x)
  /\ UNCHANGED <<obs, bytes, full, complete>>

\* Unreadable, cut short by a limit of the source, or a probe left unknown.
Miss(r, x) ==
  /\ Visit(r, x)
  /\ complete' = [complete EXCEPT ![r] = @ \ {SourceOf[x]}]
  /\ UNCHANGED <<obs, bytes, full>>

(***************************************************************************)
(* Nothing is reported and the sweep still counts: it is not there, lstat  *)
(* failed, the listener sent nothing, no name was known for it, or the run *)
(* was cancelled and a dial failed at once, which reads as no listener.    *)
(***************************************************************************)
PassOver(r, x) ==
  /\ \/ x \notin host
     \/ x \in Blind
     \/ ~Named(r, x)
     \/ cancelled[r] /\ SourceOf[x] = "listener"
  /\ Visit(r, x)
  /\ UNCHANGED <<obs, bytes, full, complete>>

\* Collect returns, having come past everything it looks at.
EndSweep(r) ==
  /\ pc[r] = "sweep"
  /\ Ahead(r) = {}
  /\ pc' = [pc EXCEPT ![r] = "next"]
  /\ at' = [at EXCEPT ![r] = @ + 1]
  /\ UNCHANGED <<hostVars, scope, disabled, visited, obs, bytes, full, complete, cancelled,
                 uploadVars, serverVars>>

\* Collect returns early: the run is full, or the context is done.
CutSweep(r) ==
  /\ pc[r] = "sweep"
  /\ full[r] \/ cancelled[r]
  /\ complete' = [complete EXCEPT ![r] = @ \ {All[at[r]]}]
  /\ pc' = [pc EXCEPT ![r] = "next"]
  /\ at' = [at EXCEPT ![r] = @ + 1]
  /\ UNCHANGED <<hostVars, scope, disabled, visited, obs, bytes, full, cancelled, uploadVars,
                 serverVars>>

EndCollect(r) ==
  /\ pc[r] = "next" /\ at[r] = 6
  /\ pc' = [pc EXCEPT ![r] = "upload"]
  /\ UNCHANGED <<hostVars, sweepVars, cancelled, uploadVars, serverVars>>

-----------------------------------------------------------------------------
(* Uploading.                                                              *)

\* chunk: the page being sent, and whether it is the last.
Rest(r) == Len(obs[r]) - sent[r]

\* A mutant of Final: a page that takes all that is left is not the last.
FinalWhenShort(r) == Rest(r) < MaxObservationsPerPage

Final(r) == Rest(r) <= MaxObservationsPerPage
PageSize(r) == IF Final(r) THEN Rest(r) ELSE MaxObservationsPerPage
Page(r) == {obs[r][i] : i \in sent[r] + 1 .. sent[r] + PageSize(r)}

\* A mutant of Declared: every page names the completed sources.
DeclaredOnEveryPage(r) == complete[r]

\* The completed sources the page names: only the final page names any.
Declared(r) == IF Final(r) THEN complete[r] ELSE {}

\* A mutant of SendPage: the request does not carry the run's context.
SendPageRegardless(r) ==
  /\ pc[r] = "upload"
  /\ pc' = [pc EXCEPT ![r] = "await"]
  /\ net' = [net EXCEPT ![r] = TRUE]
  /\ UNCHANGED <<hostVars, sweepVars, cancelled, sent, reply, runID, serverVars>>

\* A request is never begun on a context that is done.
SendPage(r) ==
  /\ pc[r] = "upload"
  /\ ~cancelled[r]
  /\ pc' = [pc EXCEPT ![r] = "await"]
  /\ net' = [net EXCEPT ![r] = TRUE]
  /\ UNCHANGED <<hostVars, sweepVars, cancelled, sent, reply, runID, serverVars>>

\* A mutant of GiveUp: a request has no time limit.
GiveUpBetweenPages(r) ==
  /\ pc[r] = "upload"
  /\ pc' = [pc EXCEPT ![r] = "failed"]
  /\ UNCHANGED <<hostVars, sweepVars, cancelled, uploadVars, serverVars>>

(***************************************************************************)
(* Report returns an error: the context is done, the request failed or     *)
(* timed out, or its answer was lost.  Nothing is retried.  A page already *)
(* on its way may still arrive.                                            *)
(***************************************************************************)
GiveUp(r) ==
  /\ pc[r] \in {"upload", "await"}
  /\ pc' = [pc EXCEPT ![r] = "failed"]
  /\ UNCHANGED <<hostVars, sweepVars, cancelled, uploadVars, serverVars>>

\* A mutant of Acknowledged: any answer counts as the page being taken.
AnsweredAtAll(r) ==
  /\ pc[r] = "await" /\ reply[r] # "none"
  /\ pc' = [pc EXCEPT ![r] = IF Final(r) THEN "done" ELSE "upload"]
  /\ sent' = [sent EXCEPT ![r] = @ + PageSize(r)]
  /\ reply' = [reply EXCEPT ![r] = "none"]
  /\ UNCHANGED <<hostVars, sweepVars, cancelled, net, runID, serverVars>>

\* The answer to a page; the next one follows, or that was the last.
Acknowledged(r) ==
  /\ pc[r] = "await" /\ reply[r] = "ok"
  /\ pc' = [pc EXCEPT ![r] = IF Final(r) THEN "done" ELSE "upload"]
  /\ sent' = [sent EXCEPT ![r] = @ + PageSize(r)]
  /\ reply' = [reply EXCEPT ![r] = "none"]
  /\ UNCHANGED <<hostVars, sweepVars, cancelled, net, runID, serverVars>>

Refused(r) ==
  /\ pc[r] = "await" /\ reply[r] = "refused"
  /\ pc' = [pc EXCEPT ![r] = "failed"]
  /\ UNCHANGED <<hostVars, sweepVars, cancelled, uploadVars, serverVars>>

-----------------------------------------------------------------------------
(* The server, as docs/PROTOCOL.md describes what the agent relies on.     *)

\* What the server keeps of the page in flight.  The agent says what was
\* rejected of it, and goes on as if nothing had been.
Taken(r) == Page(r) \ Rejected

\* The run its id names, with the page in flight.
Folded(r) == stored[runID[r]] \cup Taken(r)

\* What the page in flight marks gone.
Retires(r) ==
  {x \in Placement : inventory[x] = "live" /\ SourceOf[x] \in Declared(r)
                       /\ x \notin Folded(r)}

ServerTakes(r) ==
  /\ net[r]
  /\ net' = [net EXCEPT ![r] = FALSE]
  /\ reply' = [reply EXCEPT ![r] = "ok"]
  /\ stored' = [stored EXCEPT ![runID[r]] = Folded(r)]
  /\ inventory' = [x \in Placement |->
       IF x \in Taken(r) THEN "live"
       ELSE IF x \in Retires(r) THEN "gone"
       ELSE inventory[x]]
  /\ UNCHANGED <<hostVars, pc, sweepVars, cancelled, sent, runID>>

\* An expired bearer, a standing withdrawn, a page refused, a server error.
ServerRefuses(r) ==
  /\ net[r]
  /\ net' = [net EXCEPT ![r] = FALSE]
  /\ reply' = [reply EXCEPT ![r] = "refused"]
  /\ UNCHANGED <<hostVars, pc, sweepVars, cancelled, sent, runID, serverVars>>

-----------------------------------------------------------------------------
Collect(r) ==
  \/ Begin(r)
  \/ SkipSource(r)
  \/ BeginSweep(r)
  \/ \E x \in Placement : Find(r, x) \/ Miss(r, x) \/ PassOver(r, x)
  \/ EndSweep(r)
  \/ CutSweep(r)
  \/ EndCollect(r)

Upload(r) == SendPage(r) \/ GiveUp(r) \/ Acknowledged(r) \/ Refused(r)

Server(r) == ServerTakes(r) \/ ServerRefuses(r)

Next ==
  \/ \E x \in Placement : HostChanges(x)
  \/ \E r \in Run : Cancel(r) \/ Collect(r) \/ Upload(r) \/ Server(r)

(***************************************************************************)
(* A run goes from one collector to the next, and its requests time out    *)
(* (GiveUp), so those steps do not wait for ever.  Nothing is assumed of a *)
(* sweep: a file system that never answers hangs it, and no timeout of the *)
(* agent's ends it.                                                        *)
(***************************************************************************)
BetweenSweeps(r) == pc[r] \notin {"idle", "sweep"} /\ Collect(r)

Fairness == \A r \in Run : WF_vars(BetweenSweeps(r)) /\ WF_vars(Upload(r))

Spec == Init /\ [][Next]_vars /\ Fairness

-----------------------------------------------------------------------------
(* Properties.                                                             *)

\* Every variable keeps its shape, and the run stays within its limits
\* (runCap) and within what it recorded.
TypeOK ==
  /\ host \in SUBSET Placement
  /\ changes \in Nat
  /\ pc \in [Run -> {"idle", "next", "sweep", "upload", "await", "done", "failed"}]
  /\ at \in [Run -> 1..6]
  /\ scope \in [Run -> SUBSET Placement]
  /\ disabled \in [Run -> SUBSET Source]
  /\ visited \in [Run -> SUBSET Placement]
  /\ obs \in [Run -> Seq(Placement)]
  /\ \A r \in Run : Len(obs[r]) <= MaxObservationsPerRun
  /\ bytes \in [Run -> 0..MaxObservationBytesPerRun]
  /\ full \in [Run -> BOOLEAN]
  /\ complete \in [Run -> SUBSET Source]
  /\ cancelled \in [Run -> BOOLEAN]
  /\ sent \in [Run -> Nat]
  /\ \A r \in Run : sent[r] <= Len(obs[r])
  /\ net \in [Run -> BOOLEAN]
  /\ reply \in [Run -> {"none", "ok", "refused"}]
  /\ runID \in [Run -> Run]
  /\ stored \in [Run -> SUBSET Placement]
  /\ inventory \in [Placement -> {"never", "live", "gone"}]
  /\ steady \in [Run -> SUBSET Placement]
  /\ ever \in [Run -> SUBSET Placement]

(***************************************************************************)
(* What the silence of run r answers for: placements its options cover,    *)
(* that are not Blind and whose observations the server does not reject (a *)
(* rejected one is reported and is marked gone all the same).  A site that *)
(* is only served by name counts when server_config is declared complete   *)
(* too and a configured site that names it was there to be found.          *)
(***************************************************************************)
CanSee(r, x) == x \in scope[r] \ Blind

AnswersFor(r, x) ==
  /\ CanSee(r, x) /\ x \notin Rejected
  /\ Needs[x] # {} =>
       /\ "server_config" \in Declared(r)
       /\ \E y \in Needs[x] : y \in steady[r] /\ CanSee(r, y)

\* No page on its way would mark gone a placement that has been on the
\* host ever since its run began, whatever was unreadable, refused by the cap,
\* cancelled, disabled, lost on the network or reported by an overlapping run
\* (Result.Completed, Report, MaxObservationsPerRun).
PagesAreSafe ==
  \A r \in Run : net[r] =>
    \A x \in steady[r] : AnswersFor(r, x) => x \notin Retires(r)

\* When the final page arrives the server has everything the run recorded
\* and it did not reject: every page before it was acknowledged, none skipped
\* at a page boundary.  And no page is spent on nothing, unless the run has
\* nothing to say (chunk, Report).
FinalCarriesWholeRun ==
  \A r \in Run : net[r] =>
    /\ Final(r) => Recorded(r) \ Rejected \subseteq Folded(r)
    /\ obs[r] # <<>> => PageSize(r) > 0

\* A run that began comes to an end, unless one of its sweeps goes on for
\* ever: no page, answer or cancellation leaves it waiting or uploading for
\* good, and it goes round no sources again (Report, runWithin).
SweepsEnd(r) == []<>(pc[r] # "sweep")
RunEnds ==
  \A r \in Run : SweepsEnd(r) => (pc[r] = "next" ~> pc[r] \in {"done", "failed"})

\* The runs make the portfolio believe only what Portfolio allows: nothing
\* comes alive that was not there in the run's window, and nothing dies that
\* was there throughout it.  Sites found by name are left to PagesAreSafe.
Seen(S) == {x \in S \ (Blind \cup Rejected) : Needs[x] = {}}
P == INSTANCE Portfolio WITH
       Views <- {Seen(S) : S \in Scopes} \cup {{}},
       view <- [r \in Run |-> Seen(scope[r])]
ImplementsPortfolio == P!Spec

\* What Result.Completed promises, without the exceptions of AnswersFor: a
\* live site served by name is not marked gone, whatever became of the
\* server_config sweep that names it (turned off, unreadable, cut short).
SitesByNameSurvive ==
  \A r \in Run : net[r] =>
    \A x \in steady[r] :
      CanSee(r, x) /\ Needs[x] \subseteq steady[r] => x \notin Retires(r)
=============================================================================
