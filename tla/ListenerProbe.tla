--------------------------- MODULE ListenerProbe ---------------------------
(***************************************************************************)
(* The listener collector: one sweep over the TCP ports of the host.       *)
(*                                                                         *)
(*   Collect      takes the socket table, or guesses; at most MaxProbes    *)
(*   probeAll     one goroutine a socket, at most Concurrency of them      *)
(*                talking; then the results in the order of the sockets    *)
(*   probeTarget  one handshake without a name, then one for each name     *)
(*   handshake    what came of it, and the verdict: found, none, unknown   *)
(*                                                                         *)
(* A verdict of "none" leaves the sweep complete and "unknown" does not,   *)
(* so a port without TLS must not be unknown, or the sweep never counts,   *)
(* and a certificate must never be none, or a live one is marked gone.     *)
(***************************************************************************)
EXTENDS Integers, Sequences, FiniteSets

CONSTANTS
  Tables,        \* socket tables the host may have: sequences of [ip, port]
  Parts,         \* what could be read of a table of which not all could
  WellKnown,     \* wellKnownTLSPorts, on the loopback
  Ports,         \* lists of ports the agent may be given, on the loopback
  Loopback,      \* of each wildcard IP, the loopback of its family
  \* (IPs are numbered as their texts sort)
  Certificate,
  NoCert,
  Services,      \* what a socket may answer: to no name, then to each name
  Probes,        \* handshakes per socket: 1 + the number of server names
  MaxProbes,
  Concurrency,
  MaxUnanswered, \* maxUnansweredNames
  Room           \* observations the run still has room for

\* What a port answers that has no certificate to show.
NoTLS == {"closed", "mute", "banner", "anonymous"}

\* A port that speaks TLS answers a ClientHello without a name with a record, be
\* it a refusal (probeTarget and handshake rely on it); to a name, it may hang up.
ASSUME ServiceAssumption ==
  /\ NoCert \notin Certificate
  /\ Services \subseteq [1..Probes -> Certificate \cup NoTLS \cup {"refuses"}]
  /\ Certificate \cap (NoTLS \cup {"refuses"}) = {}
  /\ \A s \in Services : s[1] \in NoTLS => \A i \in 1..Probes : s[i] \in NoTLS

\* dialAddress: where a listener is reached, and the Location that is reported.
DialAddress(s) == <<IF s.ip \in DOMAIN Loopback THEN Loopback[s.ip] ELSE s.ip, s.port>>

\* dedupe's key: a wildcard bind is the port alone, in either family.
Key(s) == <<IF s.ip \in DOMAIN Loopback THEN DOMAIN Loopback ELSE {s.ip}, s.port>>

\* A port that is bound on every address is not bound on one of them as well
\* (the kernel refuses it, unless all of them ask for SO_REUSEPORT).
ASSUME TablesAssumption ==
  /\ Tables \cup Parts \cup Ports \cup {WellKnown} \subseteq Seq([ip : Nat, port : Nat])
  /\ \A q \in Tables : \A i, j \in DOMAIN q : DialAddress(q[i]) = DialAddress(q[j]) => Key(q[i]) = Key(q[j])
ASSUME BoundsAssumption ==
  /\ Probes \in Nat \ {0} /\ MaxProbes \in Nat \ {0} /\ Concurrency \in Nat \ {0}
  /\ MaxUnanswered \in Nat \ {0} /\ Room \in Nat

VARIABLES
  list,          \* what targets has to choose from
  swept,         \* list is the host's own table, the whole of it
  service,       \* what answers at each address that may be dialled
  targets,       \* the sockets to probe
  main,          \* where Collect stands
  next,          \* the target Collect has come to
  probe,         \* where the goroutine of each target stands
  gate,          \* places taken in the channel
  asked,         \* handshakes made with each target
  found,         \* certificates found at each target, in order
  unanswered,    \* its unknown verdicts since the last certificate
  incomplete,    \* some verdict at each target was unknown
  observations,  \* of the Result: the socket and what it presented
  completed,     \* of the Result
  cancelled,     \* the context is done
  silent,        \* history: probes to which a TLS service sent no byte in time
  disturbed      \* history: some dial or handshake ran out of time

hostVars == <<list, swept, service>>
poolVars == <<probe, gate>>
outcomeVars == <<asked, found, unanswered, incomplete>>
resultVars == <<observations, completed>>
historyVars == <<silent, disturbed>>
vars == <<hostVars, targets, main, next, poolVars, outcomeVars, resultVars, cancelled, historyVars>>

Index == 1..MaxProbes
Elements(q) == {q[i] : i \in DOMAIN q}

\* The ports it was given; the host's table; or what could be read of it, and
\* the well-known ports beside it.  A wildcard in both families is one listener.
Init ==
  /\ \/ list \in Tables /\ swept = TRUE
     \/ list \in Ports /\ swept = FALSE
     \/ list \in {part \o WellKnown : part \in Parts} /\ swept = FALSE
  /\ service \in [{DialAddress(s) : s \in Elements(list)} -> Services]
  /\ \A s, t \in Elements(list) : Key(s) = Key(t) => service[DialAddress(s)] = service[DialAddress(t)]
  /\ targets = <<>> /\ main = "start" /\ next = 1
  /\ probe = [i \in Index |-> "none"] /\ gate = 0
  /\ asked = [i \in Index |-> 0]
  /\ found = [i \in Index |-> <<>>]
  /\ unanswered = [i \in Index |-> 0]
  /\ incomplete = [i \in Index |-> FALSE]
  /\ observations = <<>> /\ completed = TRUE
  /\ cancelled = FALSE
  /\ silent = {} /\ disturbed = FALSE

-----------------------------------------------------------------------------
(* Collect.                                                                *)

\* dedupe: the first of every listener, by port and then by the text of its IP.
First == {list[i] : i \in {i \in DOMAIN list : \A j \in 1..(i - 1) : Key(list[j]) # Key(list[i])}}
Before(s, t) == s.port < t.port \/ (s.port = t.port /\ s.ip < t.ip)
Dedupe(q) ==
  /\ Elements(q) = First
  /\ \A i, j \in DOMAIN q : i < j => Before(q[i], q[j])

Begin ==
  /\ main = "start"
  /\ main' = "spawn"
  /\ \E q \in [1..Cardinality(First) -> First] :
       /\ Dedupe(q)
       /\ targets' = SubSeq(q, 1, IF Len(q) > MaxProbes THEN MaxProbes ELSE Len(q))
       /\ completed' = (swept /\ Len(q) <= MaxProbes)
  /\ UNCHANGED <<hostVars, next, poolVars, outcomeVars, observations, cancelled, historyVars>>

\* One goroutine per target, until the context is done.
Spawn ==
  /\ main = "spawn"
  /\ \/ /\ next <= Len(targets) /\ ~cancelled
        /\ probe' = [probe EXCEPT ![next] = "gate"]
        /\ next' = next + 1
        /\ UNCHANGED <<main, completed>>
     \/ /\ next <= Len(targets) /\ cancelled
        /\ completed' = FALSE
        /\ main' = "wait"
        /\ UNCHANGED <<next, probe>>
     \/ /\ next > Len(targets)
        /\ main' = "wait"
        /\ UNCHANGED <<next, probe, completed>>
  /\ UNCHANGED <<hostVars, targets, gate, outcomeVars, observations, cancelled, historyVars>>

\* A mutant of Wait: it also waits for the targets no goroutine was begun for.
WaitForAll ==
  /\ main = "wait"
  /\ \A i \in 1..Len(targets) : probe[i] = "done"
  /\ main' = "merge" /\ next' = 1
  /\ UNCHANGED <<hostVars, targets, poolVars, outcomeVars, resultVars, cancelled, historyVars>>

Wait ==
  /\ main = "wait"
  /\ \A i \in Index : probe[i] \in {"none", "done"}
  /\ main' = "merge" /\ next' = 1
  /\ UNCHANGED <<hostVars, targets, poolVars, outcomeVars, resultVars, cancelled, historyVars>>

\* The observations of a target, as far as the run has room for them.
Merge ==
  /\ main = "merge" /\ next <= Len(targets)
  /\ LET left == Room - Len(observations)
         n == IF Len(found[next]) <= left THEN Len(found[next]) ELSE left
     IN /\ observations' = observations \o
             [k \in 1..n |-> <<targets[next], found[next][k]>>]
        /\ completed' = (completed /\ n = Len(found[next]) /\ ~incomplete[next])
  /\ next' = next + 1
  /\ UNCHANGED <<hostVars, targets, main, poolVars, outcomeVars, cancelled, historyVars>>

Return ==
  /\ main = "merge" /\ next > Len(targets)
  /\ main' = "returned"
  /\ UNCHANGED <<hostVars, targets, next, poolVars, outcomeVars, resultVars, cancelled, historyVars>>

Cancel ==
  /\ ~cancelled /\ main # "returned"
  /\ cancelled' = TRUE
  /\ UNCHANGED <<hostVars, targets, main, next, poolVars, outcomeVars, resultVars, historyVars>>

-----------------------------------------------------------------------------
(* One handshake.                                                          *)

Outcome(dial, cert, err, heard) == [dial |-> dial, cert |-> cert, err |-> err, heard |-> heard]

\* What a handshake comes to with a listener that answers a, given the time;
\* a certificate counts even when the listener then turns the agent away.
Answers(a) ==
  CASE a = "closed"    -> {Outcome("failed", NoCert, "other", FALSE)}
    [] a = "mute"      -> {Outcome("ok", NoCert, err, FALSE) : err \in {"timeout", "other"}}
    [] a = "banner"    -> {Outcome("ok", NoCert, "record", TRUE)}
    [] a = "anonymous" -> {Outcome("ok", NoCert, "none", TRUE)}
    [] a = "refuses"   -> {Outcome("ok", NoCert, "other", TRUE)}
    [] a \in Certificate -> {Outcome("ok", a, err, TRUE) : err \in {"none", "other"}}

\* Out of time: the dial dropped by a filter, or a listener that stalled.
TimesOut(a) ==
  {Outcome("timeout", NoCert, "other", FALSE)}
    \cup IF a \in {"closed", "mute"} THEN {} ELSE {Outcome("ok", NoCert, "timeout", TRUE)}

\* The context ended under it.
CutOff == {Outcome("failed", NoCert, "other", FALSE)}
            \cup {Outcome("ok", NoCert, "other", heard) : heard \in BOOLEAN}

Presented(e) == e.dial = "ok" /\ e.cert # NoCert

\* A mutant of Nothing: it asks about the timeout before the silence.
NothingButTime(e) ==
  \/ e.dial = "failed"
  \/ e.dial = "ok" /\ e.cert = NoCert /\ e.err # "timeout"
       /\ (e.err \in {"none", "record"} \/ ~e.heard)

\* probeNone; what is neither this nor a certificate is probeUnknown.
Nothing(e) ==
  \/ e.dial = "failed"
  \/ e.dial = "ok" /\ e.cert = NoCert /\ (e.err \in {"none", "record"} \/ ~e.heard)

-----------------------------------------------------------------------------
(* The goroutine of target i.                                              *)

\* A place at the gate, for as long as the target is talked to.
Acquire(i) ==
  /\ probe[i] = "gate"
  /\ gate < Concurrency
  /\ gate' = gate + 1
  /\ probe' = [probe EXCEPT ![i] = "open"]
  /\ UNCHANGED <<hostVars, targets, main, next, outcomeVars, resultVars, cancelled, historyVars>>

\* A mutant of Asked: the place is given back after the last name only, and not
\* on the early returns.
AskedAndKept(i, stop) ==
  /\ asked' = [asked EXCEPT ![i] = @ + 1]
  /\ probe' = [probe EXCEPT ![i] = IF stop \/ asked[i] + 1 = Probes THEN "done" ELSE "open"]
  /\ gate' = IF asked[i] + 1 = Probes THEN gate - 1 ELSE gate

\* The handshake was made; after the last one, or to stop, the place at the gate
\* is given back.
Asked(i, stop) ==
  /\ asked' = [asked EXCEPT ![i] = @ + 1]
  /\ LET last == stop \/ asked[i] + 1 = Probes
     IN /\ probe' = [probe EXCEPT ![i] = IF last THEN "done" ELSE "open"]
        /\ gate' = IF last THEN gate - 1 ELSE gate

\* A mutant of FoundOne: every name's certificate is a finding.
FoundEach(i, e) ==
  /\ Presented(e)
  /\ found' = [found EXCEPT ![i] = Append(@, e.cert)]
  /\ unanswered' = [unanswered EXCEPT ![i] = 0]
  /\ Asked(i, FALSE)
  /\ UNCHANGED incomplete

FoundOne(i, e) ==
  /\ Presented(e)
  /\ found' = [found EXCEPT ![i] = IF e.cert \in Elements(@) THEN @ ELSE Append(@, e.cert)]
  /\ unanswered' = [unanswered EXCEPT ![i] = 0]
  /\ Asked(i, FALSE)
  /\ UNCHANGED incomplete

\* A mutant of FoundNone: any name that draws nothing ends the target.
FoundNoneAtAll(i, e) ==
  /\ Nothing(e)
  /\ Asked(i, TRUE)
  /\ UNCHANGED <<found, unanswered, incomplete>>

\* Only the handshake without a name says anything about the port.
FoundNone(i, e) ==
  /\ Nothing(e)
  /\ Asked(i, asked[i] = 0)
  /\ UNCHANGED <<found, unanswered, incomplete>>

\* A mutant of Unknown: the bound compared before this one counts.
UnknownOneMore(i, e) ==
  /\ ~Presented(e) /\ ~Nothing(e)
  /\ incomplete' = [incomplete EXCEPT ![i] = TRUE]
  /\ unanswered' = [unanswered EXCEPT ![i] = @ + 1]
  /\ Asked(i, unanswered[i] >= MaxUnanswered)
  /\ UNCHANGED found

Unknown(i, e) ==
  /\ ~Presented(e) /\ ~Nothing(e)
  /\ incomplete' = [incomplete EXCEPT ![i] = TRUE]
  /\ unanswered' = [unanswered EXCEPT ![i] = @ + 1]
  /\ Asked(i, unanswered[i] + 1 >= MaxUnanswered)
  /\ UNCHANGED found

Probe(i) ==
  /\ probe[i] = "open"
  /\ LET address == DialAddress(targets[i])
         a == service[address][asked[i] + 1]
         heardFrom == Answers(a) \cup IF cancelled THEN CutOff ELSE {}
         tooLoaded == IF a \in NoTLS THEN {} ELSE {Outcome("ok", NoCert, "timeout", FALSE)}
     IN \E e \in heardFrom \cup TimesOut(a) \cup tooLoaded :
          /\ FoundOne(i, e) \/ FoundNone(i, e) \/ Unknown(i, e)
          /\ disturbed' = (disturbed \/ e \notin heardFrom)
          /\ silent' = silent \cup IF e \in tooLoaded THEN {<<address, asked[i] + 1>>} ELSE {}
  /\ UNCHANGED <<hostVars, targets, main, next, resultVars, cancelled>>

-----------------------------------------------------------------------------
Collect == Begin \/ Spawn \/ Wait \/ Merge \/ Return
Goroutine(i) == Acquire(i) \/ Probe(i)

Next == Cancel \/ Collect \/ \E i \in Index : Goroutine(i)

\* Goroutines are scheduled, and every dial and handshake has its timeout.
Fairness == WF_vars(Collect) /\ \A i \in Index : WF_vars(Goroutine(i))

Spec == Init /\ [][Next]_vars /\ Fairness

-----------------------------------------------------------------------------
(* Properties.                                                             *)

Lists == Tables \cup Ports \cup {part \o WellKnown : part \in Parts}
Listed == UNION {Elements(q) : q \in Lists}

\* A finding is a certificate at a location: the address that was dialled.
Finding == {DialAddress(s) : s \in Listed} \X Certificate
Findings == {<<DialAddress(o[1]), o[2]>> : o \in Elements(observations)}

\* Every variable keeps its shape, no target is asked more often than there
\* are names or left unanswered more often than the bound (probeTarget), and
\* no more is reported than the run has room for (observe).
TypeOK ==
  /\ main \in {"start", "spawn", "wait", "merge", "returned"}
  /\ Elements(targets) \subseteq Elements(list) /\ Len(targets) <= MaxProbes
  /\ next \in 1..(MaxProbes + 1)
  /\ probe \in [Index -> {"none", "gate", "open", "done"}]
  /\ gate \in 0..Concurrency
  /\ asked \in [Index -> 0..Probes]
  /\ \A i \in Index : Elements(found[i]) \subseteq Certificate
  /\ unanswered \in [Index -> 0..MaxUnanswered]
  /\ incomplete \in [Index -> BOOLEAN]
  /\ Elements(observations) \subseteq Listed \X Certificate /\ Len(observations) <= Room
  /\ {completed, cancelled, disturbed, swept} \subseteq BOOLEAN
  /\ silent \subseteq (DOMAIN service) \X (1..Probes)

\* What a complete sweep has to have reported: what a listener of the host's
\* own table presents to any of the probes, unless it was too loaded to send
\* a byte (which handshake accepts) or the run was cancelled (whose results
\* are never sent).
Owed ==
  IF cancelled \/ ~swept THEN {}
  ELSE {f \in Finding :
          /\ \E s \in First : f[1] = DialAddress(s)
          /\ \E i \in 1..Probes : /\ service[f[1]][i] = f[2]
                                 /\ <<f[1], 1>> \notin silent /\ <<f[1], i>> \notin silent}

\* The collector keeps the promise of Sweep: it says complete only when it
\* has reported all it owes, however the goroutines interleave and whatever
\* times out, refuses or is cut off (Completed, probeUnknown).
S == INSTANCE Sweep WITH
       owed <- Owed,
       reported <- Findings,
       said <- IF main # "returned" THEN "nothing"
               ELSE IF completed THEN "complete" ELSE "incomplete"
ImplementsSweep == S!Spec

\* Ports that do not speak TLS never spoil a sweep: with nothing out of time,
\* cancelled, over a limit or refused, it is complete (handshake's order of
\* questions).
QuietPortsDoNotSpoil ==
  main = "returned" /\ swept /\ ~completed =>
    \/ disturbed \/ cancelled
    \/ Cardinality(First) > MaxProbes
    \/ Len(observations) = Room
    \/ \E k \in DOMAIN service : \E i \in 1..Probes : service[k][i] = "refuses"

SameSocket(s, t) == Key(s) = Key(t) \/ (swept /\ DialAddress(s) = DialAddress(t))

\* One socket presenting one certificate is one finding, however many names
\* it answers to, whichever address family lists it, and, where the list is the
\* host's own, at one location (recorded, dedupe, dialAddress).  Not so of a table
\* read in part: the well-known ports are then probed on the loopback beside a
\* wildcard bind of theirs that was read, and one location has it twice (targets).
OneFindingPerSocket ==
  \A j, k \in DOMAIN observations :
    /\ observations[j][2] = observations[k][2]
    /\ SameSocket(observations[j][1], observations[k][1])
    => j = k

\* As many places are taken at the gate as targets are talked to, never more
\* than Concurrency: the place is given back on every way out of probeTarget,
\* and by nobody else (gate).
Open == {i \in Index : probe[i] = "open"}
AFewAtATime == gate = Cardinality(Open) /\ gate <= Concurrency

\* Collect returns, with the context done or not: the gate is given back on
\* every way out of probeTarget and nothing waits for what was never begun.
CollectReturns == <>(main = "returned")
=============================================================================
