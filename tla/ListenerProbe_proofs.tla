------------------------ MODULE ListenerProbe_proofs ------------------------
(***************************************************************************)
(* Proofs about ListenerProbe, for any socket tables, listeners, names and *)
(* bounds, however many goroutines there are:                              *)
(*                                                                         *)
(*   TypeCorrect   the shapes, and the bounds on what is asked and found   *)
(*   Gated         a place at the gate for each target that is talked to   *)
(*   Once          a socket presenting a certificate is one finding, and    *)
(*                 so is a location of the host's own table                *)
(*   Quiet         ports without TLS do not spoil a sweep                  *)
(*   Refinement    complete is said only when all that is owed is reported *)
(*                                                                         *)
(* The invariant comes in layers: where Collect and each goroutine stand   *)
(* (Control), the targets (Chosen), what one goroutine found (Covered,     *)
(* Blamed), and what was merged (Merged, Reasoned).                        *)
(***************************************************************************)
EXTENDS ListenerProbe, FiniteSetTheorems, SequenceTheorems, TLAPS

-----------------------------------------------------------------------------
(* The layers of the invariant.                                            *)

Socket == [ip : Nat, port : Nat]
Answer == Certificate \cup NoTLS \cup {"refuses"}
Addresses == {DialAddress(s) : s \in Elements(list)}

\* The shapes that TypeOK leaves to the model: the sequences are sequences, and
\* every listener answers something to everything.
Shapes ==
  /\ list \in Lists /\ list \in Seq(Socket) /\ (swept => list \in Tables)
  /\ swept \in BOOLEAN /\ completed \in BOOLEAN /\ cancelled \in BOOLEAN /\ disturbed \in BOOLEAN
  /\ service \in [Addresses -> Services] /\ service \in [Addresses -> [1..Probes -> Answer]]
  /\ targets \in Seq(First) /\ Len(targets) <= MaxProbes
  /\ main \in {"start", "spawn", "wait", "merge", "returned"}
  /\ next \in 1..(MaxProbes + 1)
  /\ probe \in [Index -> {"none", "gate", "open", "done"}]
  /\ incomplete \in [Index -> BOOLEAN]
  /\ silent \subseteq Addresses \X (1..Probes)

\* What a goroutine has done by where it stands.
Counters ==
  /\ asked \in [Index -> 0..Probes]
  /\ unanswered \in [Index -> 0..MaxUnanswered]
  /\ found \in [Index -> Seq(Certificate)]
  /\ \A i \in Index :
       /\ probe[i] # "done" => asked[i] < Probes /\ unanswered[i] < MaxUnanswered
       /\ probe[i] \in {"none", "gate"} => asked[i] = 0 /\ found[i] = <<>> /\ ~incomplete[i]

\* Collect begins one goroutine per target, in order, and merges when all that
\* it began are done.
Control ==
  /\ main = "start" => targets = <<>> /\ next = 1
  /\ main \in {"spawn", "merge"} => next <= Len(targets) + 1
  /\ main = "spawn" => \A i \in Index : probe[i] # "none" => i < next
  /\ \A i \in Index : probe[i] # "none" => i <= Len(targets)
  /\ main \in {"merge", "returned"} => \A i \in Index : probe[i] \in {"none", "done"}
  /\ main \in {"start", "spawn", "wait"} => observations = <<>>
  /\ main = "returned" => next > Len(targets)

Recorded ==
  /\ observations \in Seq(Listed \X Certificate)
  /\ Len(observations) <= Room

Inv1 == Shapes /\ Counters /\ Control /\ Recorded

\* The targets are listeners of the list, each once; all of them as long as the
\* sweep may be complete.
Chosen ==
  /\ \A i, j \in DOMAIN targets : Key(targets[i]) = Key(targets[j]) => i = j
  /\ main # "start" /\ completed => swept /\ \A s \in First : \E i \in DOMAIN targets : targets[i] = s
  /\ completed /\ main = "spawn" => \A i \in 1..(next - 1) : probe[i] # "none"
  /\ completed /\ main \in {"wait", "merge", "returned"} => \A i \in DOMAIN targets : probe[i] # "none"

\* A target whose verdicts were all known has shown what it presents to the
\* names it was asked for, and an end before the last name is no TLS at all.
Speaks(i) == <<DialAddress(targets[i]), 1>> \notin silent
Covered ==
  \A i \in DOMAIN targets :
    ~cancelled /\ ~incomplete[i] /\ Speaks(i) =>
      /\ \A p \in 1..asked[i] :
           LET a == service[DialAddress(targets[i])][p]
           IN a \in Certificate /\ <<DialAddress(targets[i]), p>> \notin silent => a \in Elements(found[i])
      /\ probe[i] = "done" /\ asked[i] < Probes =>
           \A p \in 1..Probes : service[DialAddress(targets[i])][p] \notin Certificate

\* An unknown verdict has a cause.
Cause ==
  disturbed \/ cancelled \/ \E k \in DOMAIN service : \E i \in 1..Probes : service[k][i] = "refuses"
Blamed == \A i \in Index : incomplete[i] => Cause

\* What is merged stands in the observations under its listener, once.
FoundOnce == \A i \in Index : \A j, k \in DOMAIN found[i] : found[i][j] = found[i][k] => j = k
Merged ==
  /\ completed /\ main \in {"merge", "returned"} =>
       \A i \in DOMAIN targets : i < next =>
         /\ ~incomplete[i]
         /\ \A c \in Elements(found[i]) : <<targets[i], c>> \in Elements(observations)
  /\ \A k \in DOMAIN observations :
       \E i \in DOMAIN targets : i < next /\ observations[k][1] = targets[i]
  /\ OneFindingPerSocket

\* A sweep that cannot be complete has a reason.
Reasoned ==
  swept /\ ~completed => Cause \/ Cardinality(First) > MaxProbes \/ Len(observations) = Room

-----------------------------------------------------------------------------
(* The socket table and dedupe.                                            *)

\* The first of every listener: finitely many, one for each key of the table.
LEMMA FirstFacts ==
  ASSUME list \in Seq(Socket)
  PROVE  /\ IsFiniteSet(First) /\ Cardinality(First) \in Nat
         /\ First \subseteq Elements(list) /\ First \subseteq Socket
         /\ \A s, t \in First : Key(s) = Key(t) => s = t
<1> DEFINE Firsts == {i \in DOMAIN list : \A j \in 1..(i - 1) : Key(list[j]) # Key(list[i])}
<1>1. DOMAIN list = 1..Len(list) /\ Len(list) \in Nat
  OBVIOUS
<1>2. First = {list[i] : i \in Firsts}
  BY DEF First
<1>3. IsFiniteSet(First) /\ Cardinality(First) \in Nat
  <2>1. IsFiniteSet(Firsts)
    <3>1. IsFiniteSet(1..Len(list))
      BY <1>1, FS_Interval
    <3>2. Firsts \in SUBSET (1..Len(list))
      BY <1>1
    <3> HIDE DEF Firsts
    <3>3. QED BY <3>1, <3>2, FS_Subset
  <2>2. [i \in Firsts |-> list[i]] \in Surjection(Firsts, First)
    BY <1>2 DEF Surjection
  <2>3. IsFiniteSet(First)
    BY <2>1, <2>2, FS_Surjection
  <2>4. QED BY <2>3, FS_CardinalityType
<1>4. First \subseteq Elements(list)
  BY <1>2 DEF Elements
<1>5. First \subseteq Socket
  BY <1>2
<1>6. ASSUME NEW s \in First, NEW t \in First, Key(s) = Key(t) PROVE s = t
  <2>1. PICK i \in Firsts : s = list[i]
    BY <1>2
  <2>2. PICK j \in Firsts : t = list[j]
    BY <1>2
  <2>3. i \in Nat /\ j \in Nat /\ i > 0 /\ j > 0
    BY <1>1
  <2>4. ~(i < j)
    <3>1. SUFFICES ASSUME i < j PROVE FALSE
      OBVIOUS
    <3>2. i \in 1..(j - 1)
      BY <2>3, <3>1
    <3>3. QED BY <1>6, <2>1, <2>2, <3>2
  <2>5. ~(j < i)
    <3>1. SUFFICES ASSUME j < i PROVE FALSE
      OBVIOUS
    <3>2. j \in 1..(i - 1)
      BY <2>3, <3>1
    <3>3. QED BY <1>6, <2>1, <2>2, <3>2
  <2>6. i = j
    BY <2>3, <2>4, <2>5
  <2>7. QED BY <2>1, <2>2, <2>6
<1>7. QED BY <1>3, <1>4, <1>5, <1>6

-----------------------------------------------------------------------------
(* Shapes and control.                                                     *)

\* A target is a listener of the list, and its address is one that may be dialled.
LEMMA TargetAddress ==
  ASSUME Shapes, NEW i \in DOMAIN targets
  PROVE  i \in Index /\ DialAddress(targets[i]) \in Addresses /\ targets[i] \in First /\ targets[i] \in Listed
<1>1. DOMAIN targets = 1..Len(targets) /\ Len(targets) \in Nat /\ MaxProbes \in Nat
  BY BoundsAssumption DEF Shapes
<1>2. targets[i] \in First /\ First \subseteq Elements(list)
  BY FirstFacts DEF Shapes
<1>3. i \in Index
  BY <1>1 DEF Shapes, Index
<1>4. targets[i] \in Listed
  BY <1>2 DEF Shapes, Listed
<1>5. QED BY <1>2, <1>3, <1>4 DEF Addresses

LEMMA InitInv1 == Init => Inv1
<1> SUFFICES ASSUME Init PROVE Inv1
  OBVIOUS
<1>1. list \in Lists /\ list \in Seq(Socket) /\ swept \in BOOLEAN /\ (swept => list \in Tables)
  <2>1. CASE list \in Tables \cup Ports
    BY <2>1, TablesAssumption DEF Init, Socket, Lists
  <2>2. CASE list \in {part \o WellKnown : part \in Parts} /\ swept = FALSE
    <3>1. PICK part \in Parts : list = part \o WellKnown
      BY <2>2
    <3>2. part \in Seq(Socket) /\ WellKnown \in Seq(Socket)
      BY TablesAssumption DEF Socket
    <3>3. list \in Seq(Socket)
      BY <3>1, <3>2
    <3>4. QED BY <2>2, <3>3 DEF Lists
  <2>3. QED BY <2>1, <2>2 DEF Init
<1>2. service \in [Addresses -> Services] /\ service \in [Addresses -> [1..Probes -> Answer]]
  BY ServiceAssumption DEF Init, Addresses, Answer
<1>3. targets \in Seq(First) /\ Len(targets) = 0
  BY DEF Init
<1>4. Shapes
  <2>1. /\ completed \in BOOLEAN /\ cancelled \in BOOLEAN /\ disturbed \in BOOLEAN
        /\ probe \in [Index -> {"none", "gate", "open", "done"}]
        /\ incomplete \in [Index -> BOOLEAN]
        /\ main = "start" /\ silent = {}
    BY DEF Init
  <2>2. Len(targets) <= MaxProbes /\ next \in 1..(MaxProbes + 1)
    BY <1>3, BoundsAssumption DEF Init
  <2>3. QED BY <1>1, <1>2, <1>3, <2>1, <2>2 DEF Shapes
<1>5. Counters
  BY BoundsAssumption DEF Init, Counters
<1>6. Control
  BY BoundsAssumption DEF Init, Control
<1>7. Recorded
  BY BoundsAssumption DEF Init, Recorded
<1>8. QED BY <1>4, <1>5, <1>6, <1>7 DEF Inv1

\* The host does not change while it is swept, and so neither does what depends
\* on it alone.
LEMMA HostStays ==
  ASSUME UNCHANGED hostVars
  PROVE  First' = First /\ Addresses' = Addresses /\ list' = list /\ swept' = swept /\ service' = service
BY DEF hostVars, First, Addresses, DialAddress, Key, Elements

\* Begin takes the first of every listener, in order, as many as are probed.
LEMMA BeginTargets ==
  ASSUME Shapes, Begin
  PROVE  /\ targets' \in Seq(First) /\ Len(targets') <= MaxProbes
         /\ completed' \in BOOLEAN
         /\ completed' => swept /\ Elements(targets') = First
         /\ swept /\ ~completed' => Cardinality(First) > MaxProbes
         /\ \A i, j \in DOMAIN targets' : targets'[i] = targets'[j] => i = j
<1>1. PICK q \in [1..Cardinality(First) -> First] :
        /\ Dedupe(q)
        /\ targets' = SubSeq(q, 1, IF Len(q) > MaxProbes THEN MaxProbes ELSE Len(q))
        /\ completed' = (swept /\ Len(q) <= MaxProbes)
  BY DEF Begin, poolVars
<1>2. Cardinality(First) \in Nat /\ First \subseteq Socket
  BY FirstFacts DEF Shapes
<1>3. q \in Seq(First) /\ Len(q) = Cardinality(First) /\ DOMAIN q = 1..Len(q)
  BY <1>2
<1> DEFINE m == IF Len(q) > MaxProbes THEN MaxProbes ELSE Len(q)
<1>4. m \in 0..Len(q) /\ m \in Nat /\ m <= MaxProbes /\ MaxProbes \in Nat
  BY <1>2, <1>3, BoundsAssumption
<1> HIDE DEF m
<1>5. /\ targets' \in Seq(First) /\ Len(targets') = m
      /\ \A i \in 1..m : targets'[i] = q[i]
  BY <1>1, <1>3, <1>4 DEF m
<1>6. DOMAIN targets' = 1..m
  BY <1>5
<1>7. completed' => swept /\ Elements(targets') = First
  <2>1. SUFFICES ASSUME completed' PROVE Elements(targets') = First /\ swept
    OBVIOUS
  <2>2. Len(q) <= MaxProbes /\ swept
    BY <1>1, <2>1
  <2>3. m = Len(q)
    BY <1>2, <1>3, <1>4, <2>2 DEF m
  <2>4. Elements(q) = First
    BY <1>1 DEF Dedupe
  <2>5. Elements(targets') = Elements(q)
    BY <1>3, <1>5, <1>6, <2>3 DEF Elements
  <2>6. QED BY <2>2, <2>4, <2>5
<1>8. ASSUME NEW i \in DOMAIN targets', NEW j \in DOMAIN targets', targets'[i] = targets'[j]
      PROVE  i = j
  <2>1. i \in DOMAIN q /\ j \in DOMAIN q /\ i \in Nat /\ j \in Nat /\ q[i] = q[j]
    BY <1>3, <1>4, <1>5, <1>6, <1>8
  <2>2. q[i] \in Socket
    BY <1>2, <1>3, <2>1
  <2>3. ~Before(q[i], q[i])
    BY <2>2 DEF Before, Socket
  <2>4. ~(i < j) /\ ~(j < i)
    BY <1>1, <2>1, <2>3 DEF Dedupe
  <2>5. QED BY <2>1, <2>4
<1>9. QED BY <1>1, <1>2, <1>3, <1>4, <1>5, <1>7, <1>8 DEF Shapes

\* What the outcome of a handshake with a listener that answers a says.
LEMMA Outcomes ==
  ASSUME NEW a \in Answer, NEW e
  PROVE  /\ e \in Answers(a) =>
              /\ a \in Certificate => Presented(e) /\ e.cert = a
              /\ a \in NoTLS => ~Presented(e) /\ Nothing(e)
              /\ a = "refuses" => ~Presented(e) /\ ~Nothing(e)
         /\ e \in TimesOut(a) => ~Presented(e) /\ ~Nothing(e)
         /\ e \in CutOff => ~Presented(e)
         /\ e = Outcome("ok", NoCert, "timeout", FALSE) => ~Presented(e)
<1> USE DEF Presented, Nothing, Outcome
<1>1. ASSUME e \in Answers(a), a \in Certificate PROVE Presented(e) /\ e.cert = a
  BY <1>1, ServiceAssumption DEF Answers, NoTLS
<1>2. ASSUME e \in Answers(a), a \in NoTLS PROVE ~Presented(e) /\ Nothing(e)
  BY <1>2, ServiceAssumption DEF Answers, NoTLS
<1>3. ASSUME e \in Answers(a), a = "refuses" PROVE ~Presented(e) /\ ~Nothing(e)
  BY <1>3, ServiceAssumption DEF Answers, NoTLS
<1>4. ASSUME e \in TimesOut(a) PROVE ~Presented(e) /\ ~Nothing(e)
  BY <1>4 DEF TimesOut
<1>5. ASSUME e \in CutOff PROVE ~Presented(e)
  BY <1>5 DEF CutOff
<1>6. QED BY <1>1, <1>2, <1>3, <1>4, <1>5

\* A goroutine that talks has a target, and a handshake with it to make.
LEMMA Talking ==
  ASSUME Inv1, NEW i \in Index, probe[i] = "open"
  PROVE  /\ i \in DOMAIN targets /\ DialAddress(targets[i]) \in Addresses
         /\ asked[i] \in Nat /\ asked[i] + 1 \in 1..Probes
         /\ unanswered[i] \in Nat /\ unanswered[i] + 1 \in 1..MaxUnanswered
         /\ service[DialAddress(targets[i])][asked[i] + 1] \in Answer
         /\ main \in {"spawn", "wait"}
<1>1. i <= Len(targets) /\ main \in {"start", "spawn", "wait"}
  BY DEF Inv1, Shapes, Control
<1>2. targets \in Seq(First) /\ DOMAIN targets = 1..Len(targets) /\ i \in 1..MaxProbes
  BY DEF Inv1, Shapes, Index
<1>3. i \in DOMAIN targets /\ main # "start"
  BY <1>1, <1>2, BoundsAssumption DEF Inv1, Control
<1>4. /\ asked[i] \in 0..Probes /\ asked[i] < Probes
      /\ unanswered[i] \in 0..MaxUnanswered /\ unanswered[i] < MaxUnanswered
  BY DEF Inv1, Counters
<1>5. asked[i] + 1 \in 1..Probes /\ unanswered[i] + 1 \in 1..MaxUnanswered
  BY <1>4, BoundsAssumption
<1>6. DialAddress(targets[i]) \in Addresses
  BY <1>3, TargetAddress DEF Inv1
<1>7. service[DialAddress(targets[i])][asked[i] + 1] \in Answer
  BY <1>5, <1>6 DEF Inv1, Shapes
<1>8. QED BY <1>1, <1>3, <1>4, <1>5, <1>6, <1>7

LEMMA BeginInv1 == ASSUME Inv1, Begin PROVE Inv1'
<1>1. /\ UNCHANGED <<hostVars, next, probe, outcomeVars, observations, cancelled, historyVars>>
      /\ main = "start" /\ main' = "spawn"
  BY DEF Begin, poolVars
<1>2. First' = First /\ Addresses' = Addresses /\ list' = list /\ swept' = swept /\ service' = service
  BY <1>1, HostStays
<1>3. /\ targets' \in Seq(First) /\ Len(targets') <= MaxProbes /\ completed' \in BOOLEAN
  BY BeginTargets DEF Inv1
<1>4. Len(targets') \in Nat
  BY <1>3
<1>5. Shapes'
  BY <1>1, <1>2, <1>3 DEF Inv1, Shapes, historyVars, outcomeVars
<1>6. Counters'
  BY <1>1 DEF Inv1, Counters, outcomeVars
<1>7. Control'
  <2>1. next = 1 /\ targets = <<>> /\ observations = <<>> /\ \A i \in Index : probe[i] = "none"
    <3>1. ASSUME NEW i \in Index PROVE probe[i] = "none"
      <4>1. ~(i <= Len(targets))
        BY <1>1, BoundsAssumption DEF Inv1, Control, Index
      <4>2. QED BY <4>1 DEF Inv1, Control
    <3>2. QED BY <1>1, <3>1 DEF Inv1, Control
  <2>2. QED BY <1>1, <1>4, <2>1 DEF Control
<1>8. Recorded'
  BY <1>1 DEF Inv1, Recorded
<1>9. QED BY <1>5, <1>6, <1>7, <1>8 DEF Inv1

LEMMA SpawnInv1 == ASSUME Inv1, Spawn PROVE Inv1'
<1>1. UNCHANGED <<hostVars, targets, outcomeVars, observations, cancelled, historyVars>>
  BY DEF Spawn
<1>2. First' = First /\ Addresses' = Addresses /\ list' = list /\ swept' = swept /\ service' = service
  BY <1>1, HostStays
<1>3. main = "spawn" /\ targets \in Seq(First) /\ Len(targets) \in Nat /\ Len(targets) <= MaxProbes
  BY DEF Spawn, Inv1, Shapes
<1>4. Recorded'
  BY <1>1 DEF Inv1, Recorded
<1>5. CASE /\ next <= Len(targets) /\ ~cancelled
           /\ probe' = [probe EXCEPT ![next] = "gate"]
           /\ next' = next + 1
           /\ UNCHANGED <<main, completed>>
  <2>1. next \in Index /\ next + 1 \in 1..(MaxProbes + 1)
    BY <1>3, <1>5, BoundsAssumption DEF Inv1, Shapes, Index
  <2>2. probe[next] = "none"
    BY <1>3, <2>1, BoundsAssumption DEF Inv1, Control, Index
  <2>3. Shapes'
    BY <1>1, <1>2, <1>3, <1>5, <2>1 DEF Inv1, Shapes, historyVars, outcomeVars
  <2>4. Counters'
    BY <1>1, <1>5, <2>1, <2>2 DEF Inv1, Shapes, Counters, outcomeVars
  <2>5. Control'
    BY <1>1, <1>3, <1>5, <2>1, BoundsAssumption DEF Inv1, Shapes, Control, Index
  <2>6. QED BY <1>4, <2>3, <2>4, <2>5 DEF Inv1
<1>6. CASE main' = "wait" /\ completed' \in {completed, FALSE} /\ UNCHANGED <<next, probe>>
  <2>1. Shapes'
    BY <1>1, <1>2, <1>3, <1>6 DEF Inv1, Shapes, historyVars, outcomeVars
  <2>2. Counters'
    BY <1>1, <1>6 DEF Inv1, Counters, outcomeVars
  <2>3. Control'
    BY <1>1, <1>3, <1>6 DEF Inv1, Control
  <2>4. QED BY <1>4, <2>1, <2>2, <2>3 DEF Inv1
<1>7. QED BY <1>5, <1>6 DEF Spawn

LEMMA WaitInv1 == ASSUME Inv1, Wait PROVE Inv1'
<1>1. /\ UNCHANGED <<hostVars, targets, probe, outcomeVars, resultVars, cancelled, historyVars>>
      /\ main = "wait" /\ main' = "merge" /\ next' = 1
      /\ \A i \in Index : probe[i] \in {"none", "done"}
  BY DEF Wait, poolVars
<1>2. First' = First /\ Addresses' = Addresses /\ list' = list /\ swept' = swept /\ service' = service
  BY <1>1, HostStays
<1>3. targets \in Seq(First) /\ Len(targets) \in Nat /\ 1 \in 1..(MaxProbes + 1)
  BY BoundsAssumption DEF Inv1, Shapes
<1>4. Shapes'
  BY <1>1, <1>2, <1>3 DEF Inv1, Shapes, historyVars, outcomeVars, resultVars
<1>5. Counters'
  BY <1>1 DEF Inv1, Counters, outcomeVars
<1>6. Control'
  BY <1>1, <1>3 DEF Inv1, Control, resultVars
<1>7. Recorded'
  BY <1>1 DEF Inv1, Recorded, resultVars
<1>8. QED BY <1>4, <1>5, <1>6, <1>7 DEF Inv1

\* What Merge records of a target, and how much of it.
LEMMA MergeRecords ==
  ASSUME Inv1, Merge
  PROVE  \E n \in Nat :
           LET new == [k \in 1..n |-> <<targets[next], found[next][k]>>]
           IN /\ next \in DOMAIN targets /\ next \in Index
              /\ n <= Len(found[next]) /\ n + Len(observations) <= Room
              /\ n = Len(found[next]) \/ n + Len(observations) = Room
              /\ new \in Seq(Listed \X Certificate) /\ Len(new) = n
              /\ observations' = observations \o new
              /\ completed' = (completed /\ n = Len(found[next]) /\ ~incomplete[next])
<1>1. /\ next \in DOMAIN targets /\ next \in Index /\ targets[next] \in Listed
  <2>1. next \in 1..Len(targets) /\ targets \in Seq(First)
    BY DEF Merge, Inv1, Shapes, poolVars
  <2>2. next \in DOMAIN targets
    BY <2>1
  <2>3. QED BY <2>2, TargetAddress DEF Inv1
<1>2. found[next] \in Seq(Certificate) /\ observations \in Seq(Listed \X Certificate)
  BY <1>1 DEF Inv1, Counters, Recorded
<1>3. Len(found[next]) \in Nat /\ Len(observations) \in Nat /\ Room \in Nat /\ Len(observations) <= Room
  BY <1>2, BoundsAssumption DEF Inv1, Recorded
<1> DEFINE left == Room - Len(observations)
           n == IF Len(found[next]) <= left THEN Len(found[next]) ELSE left
           new == [k \in 1..n |-> <<targets[next], found[next][k]>>]
<1>4. /\ n \in Nat /\ n <= Len(found[next]) /\ n + Len(observations) <= Room
      /\ n = Len(found[next]) \/ n + Len(observations) = Room
  BY <1>3
<1>5. /\ observations' = observations \o new
      /\ completed' = (completed /\ n = Len(found[next]) /\ ~incomplete[next])
  BY DEF Merge, poolVars
<1> HIDE DEF n
<1>6. ASSUME NEW k \in 1..n PROVE <<targets[next], found[next][k]>> \in Listed \X Certificate
  <2>1. found[next][k] \in Certificate
    BY <1>2, <1>3, <1>4
  <2>2. QED BY <1>1, <2>1
<1>7. new \in Seq(Listed \X Certificate) /\ Len(new) = n
  <2>1. new \in [1..n -> Listed \X Certificate]
    BY <1>6
  <2>2. QED BY <1>4, <2>1
<1>8. QED BY <1>1, <1>4, <1>5, <1>7

LEMMA MergeInv1 == ASSUME Inv1, Merge PROVE Inv1'
<1>1. /\ UNCHANGED <<hostVars, targets, main, probe, outcomeVars, cancelled, historyVars>>
      /\ main = "merge" /\ next <= Len(targets) /\ next' = next + 1
  BY DEF Merge, poolVars
<1>2. First' = First /\ Addresses' = Addresses /\ list' = list /\ swept' = swept /\ service' = service
  BY <1>1, HostStays
<1>3. PICK n \in Nat :
        LET new == [k \in 1..n |-> <<targets[next], found[next][k]>>]
        IN /\ n + Len(observations) <= Room
           /\ new \in Seq(Listed \X Certificate) /\ Len(new) = n
           /\ observations' = observations \o new
           /\ completed' = (completed /\ n = Len(found[next]) /\ ~incomplete[next])
  BY MergeRecords
<1>4. targets \in Seq(First) /\ Len(targets) \in Nat /\ next' \in 1..(MaxProbes + 1)
  BY <1>1, BoundsAssumption DEF Inv1, Shapes
<1>5. completed' \in BOOLEAN
  BY <1>3
<1>6. Shapes'
  BY <1>1, <1>2, <1>4, <1>5 DEF Inv1, Shapes, historyVars, outcomeVars
<1>7. Counters'
  BY <1>1 DEF Inv1, Counters, outcomeVars
<1>8. Control'
  BY <1>1, <1>4 DEF Inv1, Shapes, Control
<1>9. Recorded'
  <2>1. observations \in Seq(Listed \X Certificate) /\ Listed' = Listed
    BY DEF Inv1, Recorded, Listed, Lists, Elements
  <2>2. observations' \in Seq(Listed \X Certificate) /\ Len(observations') = Len(observations) + n
    BY <1>3, <2>1
  <2>3. QED BY <1>3, <2>1, <2>2 DEF Recorded
<1>10. QED BY <1>6, <1>7, <1>8, <1>9 DEF Inv1

\* Steps that leave the targets and what was found of them alone.
LEMMA QuietInv1 ==
  ASSUME Inv1, \/ Return \/ Cancel \/ UNCHANGED vars \/ \E i \in Index : Acquire(i)
  PROVE  Inv1'
<1>1. UNCHANGED <<hostVars, targets, next, outcomeVars, resultVars, historyVars>>
  BY DEF Return, Cancel, Acquire, vars, poolVars
<1>2. First' = First /\ Addresses' = Addresses /\ list' = list /\ swept' = swept /\ service' = service
  BY <1>1, HostStays
<1>3. /\ main' \in {"start", "spawn", "wait", "merge", "returned"} /\ cancelled' \in BOOLEAN
      /\ probe' \in [Index -> {"none", "gate", "open", "done"}]
  BY DEF Return, Cancel, Acquire, vars, Inv1, Shapes, poolVars
<1>4. Shapes'
  BY <1>1, <1>2, <1>3 DEF Inv1, Shapes, outcomeVars, resultVars, historyVars
<1>5. \A i \in Index : probe'[i] = probe[i] \/ (probe[i] = "gate" /\ probe'[i] = "open")
  BY DEF Return, Cancel, Acquire, vars, Inv1, Shapes, poolVars
<1>6. Counters'
  BY <1>1, <1>5 DEF Inv1, Counters, outcomeVars
<1>7. main' = main \/ (main = "merge" /\ next > Len(targets) /\ main' = "returned")
  BY DEF Return, Cancel, Acquire, vars, poolVars
<1>8. Control'
  BY <1>1, <1>5, <1>7 DEF Inv1, Control, resultVars
<1>9. Recorded'
  BY <1>1 DEF Inv1, Recorded, resultVars, Listed, Lists, Elements
<1>10. QED BY <1>4, <1>6, <1>8, <1>9 DEF Inv1

\* The outcome of the handshake that a step of target i makes.
Comes(i, e) ==
  LET address == DialAddress(targets[i])
      a == service[address][asked[i] + 1]
      heardFrom == Answers(a) \cup IF cancelled THEN CutOff ELSE {}
      tooLoaded == IF a \in NoTLS THEN {} ELSE {Outcome("ok", NoCert, "timeout", FALSE)}
  IN /\ e \in heardFrom \cup TimesOut(a) \cup tooLoaded
     /\ FoundOne(i, e) \/ FoundNone(i, e) \/ Unknown(i, e)
     /\ disturbed' = (disturbed \/ e \notin heardFrom)
     /\ silent' = silent \cup IF e \in tooLoaded THEN {<<address, asked[i] + 1>>} ELSE {}

LEMMA ProbeOutcome ==
  ASSUME NEW i \in Index, Probe(i)
  PROVE  /\ probe[i] = "open"
         /\ \E e : Comes(i, e)
         /\ UNCHANGED <<hostVars, targets, main, next, resultVars, cancelled>>
BY DEF Probe, Comes

\* A certificate comes only from a listener that presents it.
LEMMA PresentedIs ==
  ASSUME Inv1, NEW i \in Index, probe[i] = "open", NEW e, Comes(i, e), Presented(e)
  PROVE  /\ e.cert = service[DialAddress(targets[i])][asked[i] + 1] /\ e.cert \in Certificate
         /\ e \in Answers(service[DialAddress(targets[i])][asked[i] + 1])
<1> DEFINE a == service[DialAddress(targets[i])][asked[i] + 1]
<1>1. a \in Answer
  BY Talking
<1>2. e \in Answers(a) \cup CutOff \cup TimesOut(a) \cup {Outcome("ok", NoCert, "timeout", FALSE)}
  BY DEF Comes
<1> HIDE DEF a
<1>3. e \in Answers(a)
  BY <1>1, <1>2, Outcomes
<1>4. a \in Certificate
  BY <1>1, <1>3, Outcomes DEF Answer
<1>5. QED BY <1>1, <1>3, <1>4, Outcomes DEF a

LEMMA ProbeInv1 == ASSUME Inv1, NEW i \in Index, Probe(i) PROVE Inv1'
<1>1. /\ probe[i] = "open" /\ UNCHANGED <<hostVars, targets, main, next, resultVars, cancelled>>
  BY ProbeOutcome
<1>2. PICK e : Comes(i, e)
  BY ProbeOutcome
<1>3. First' = First /\ Addresses' = Addresses /\ list' = list /\ swept' = swept /\ service' = service
  BY <1>1, HostStays
<1>4. /\ i \in DOMAIN targets /\ DialAddress(targets[i]) \in Addresses
      /\ asked[i] \in Nat /\ asked[i] + 1 \in 1..Probes
      /\ unanswered[i] \in Nat /\ unanswered[i] + 1 \in 1..MaxUnanswered
      /\ main \in {"spawn", "wait"}
  BY <1>1, Talking
<1>5. FoundOne(i, e) \/ FoundNone(i, e) \/ Unknown(i, e)
  BY <1>2 DEF Comes
<1>6. /\ asked' = [asked EXCEPT ![i] = @ + 1]
      /\ \E stop \in BOOLEAN :
           probe' = [probe EXCEPT ![i] = IF stop \/ asked[i] + 1 = Probes THEN "done" ELSE "open"]
           /\ (~stop => unanswered'[i] < MaxUnanswered)
  <2>1. CASE FoundOne(i, e)
    <3>1. unanswered'[i] < MaxUnanswered
      BY <2>1, <1>4, BoundsAssumption DEF FoundOne, Inv1, Counters
    <3>2. QED BY <2>1, <3>1 DEF FoundOne, Asked
  <2>2. CASE FoundNone(i, e)
    <3>1. unanswered'[i] < MaxUnanswered
      BY <2>2, <1>1 DEF FoundNone, Inv1, Counters
    <3>2. (asked[i] = 0) \in BOOLEAN
      OBVIOUS
    <3>3. QED BY <2>2, <3>1, <3>2 DEF FoundNone, Asked
  <2>3. CASE Unknown(i, e)
    <3>1. unanswered'[i] = unanswered[i] + 1
      BY <2>3 DEF Unknown, Inv1, Counters
    <3>2. ~(unanswered[i] + 1 >= MaxUnanswered) => unanswered'[i] < MaxUnanswered
      BY <3>1, <1>4, BoundsAssumption
    <3>3. (unanswered[i] + 1 >= MaxUnanswered) \in BOOLEAN
      OBVIOUS
    <3>4. QED BY <2>3, <3>2, <3>3 DEF Unknown, Asked
  <2>4. QED BY <1>5, <2>1, <2>2, <2>3
<1>7. /\ unanswered' \in [Index -> 0..MaxUnanswered]
      /\ \A j \in Index : j # i => unanswered'[j] = unanswered[j]
  <2>1. unanswered \in [Index -> 0..MaxUnanswered] /\ 0 \in 0..MaxUnanswered /\ unanswered[i] + 1 \in 0..MaxUnanswered
    BY <1>4, BoundsAssumption DEF Inv1, Counters
  <2>2. unanswered' \in {unanswered, [unanswered EXCEPT ![i] = 0], [unanswered EXCEPT ![i] = unanswered[i] + 1]}
    BY <1>5 DEF FoundOne, FoundNone, Unknown
  <2>3. QED BY <2>1, <2>2
<1>8. /\ found' \in [Index -> Seq(Certificate)]
      /\ \A j \in Index : j # i => found'[j] = found[j]
  <2>1. found \in [Index -> Seq(Certificate)]
    BY DEF Inv1, Counters
  <2>2. CASE FoundOne(i, e)
    <3>1. e.cert \in Certificate
      BY <1>1, <1>2, <2>2, PresentedIs DEF FoundOne
    <3>2. (IF e.cert \in Elements(found[i]) THEN found[i] ELSE Append(found[i], e.cert)) \in Seq(Certificate)
      BY <2>1, <3>1
    <3>3. QED BY <2>1, <2>2, <3>2 DEF FoundOne
  <2>3. CASE UNCHANGED found
    BY <2>1, <2>3
  <2>4. QED BY <1>5, <2>2, <2>3 DEF FoundNone, Unknown
<1>9. /\ incomplete' \in [Index -> BOOLEAN]
      /\ \A j \in Index : j # i => incomplete'[j] = incomplete[j]
  <2>1. incomplete' \in {incomplete, [incomplete EXCEPT ![i] = TRUE]}
    BY <1>5 DEF FoundOne, FoundNone, Unknown
  <2>2. QED BY <2>1 DEF Inv1, Shapes
<1>10. probe' \in [Index -> {"none", "gate", "open", "done"}]
  BY <1>6 DEF Inv1, Shapes
<1>11. silent' \subseteq Addresses \X (1..Probes) /\ disturbed' \in BOOLEAN
  <2>1. silent' \subseteq silent \cup {<<DialAddress(targets[i]), asked[i] + 1>>}
    BY <1>2 DEF Comes
  <2>2. disturbed' \in BOOLEAN
    BY <1>2 DEF Comes
  <2>3. QED BY <1>4, <2>1, <2>2 DEF Inv1, Shapes
<1>12. Shapes'
  BY <1>1, <1>3, <1>9, <1>10, <1>11 DEF Inv1, Shapes, resultVars
<1>13. Counters'
  <2>1. asked' \in [Index -> 0..Probes]
    BY <1>4, <1>6 DEF Inv1, Counters
  <2>2. ASSUME NEW j \in Index
        PROVE  /\ probe'[j] # "done" => asked'[j] < Probes /\ unanswered'[j] < MaxUnanswered
               /\ probe'[j] \in {"none", "gate"} => asked'[j] = 0 /\ found'[j] = <<>> /\ ~incomplete'[j]
    <3>1. CASE j = i
      <4>1. /\ asked'[j] = asked[i] + 1 /\ probe'[j] \in {"open", "done"}
            /\ probe'[j] # "done" => asked[i] + 1 # Probes /\ unanswered'[i] < MaxUnanswered
        BY <1>6, <3>1 DEF Inv1, Shapes, Counters
      <4>2. QED BY <1>4, <3>1, <4>1, BoundsAssumption
    <3>2. CASE j # i
      <4>1. probe'[j] = probe[j] /\ asked'[j] = asked[j]
        BY <1>6, <3>2 DEF Inv1, Shapes, Counters
      <4>2. QED BY <1>7, <1>8, <1>9, <3>2, <4>1 DEF Inv1, Counters
    <3>3. QED BY <3>1, <3>2
  <2>3. QED BY <1>7, <1>8, <2>1, <2>2 DEF Counters
<1>14. Control'
  <2>1. \A j \in Index : probe'[j] = probe[j] \/ (j = i /\ probe'[j] \in {"open", "done"})
    BY <1>6 DEF Inv1, Shapes
  <2>2. QED BY <1>1, <1>4, <2>1 DEF Inv1, Control, resultVars
<1>15. Recorded'
  BY <1>1 DEF Inv1, Recorded, resultVars, Listed, Lists, Elements
<1>16. QED BY <1>12, <1>13, <1>14, <1>15 DEF Inv1

LEMMA StepInv1 == Inv1 /\ [Next]_vars => Inv1'
BY BeginInv1, SpawnInv1, WaitInv1, MergeInv1, QuietInv1, ProbeInv1 DEF Next, Collect, Goroutine

-----------------------------------------------------------------------------
(* The gate, and the shapes.                                               *)

\* Only Acquire takes a place, and the target that is done gives its own back.
LEMMA OpenSteps ==
  ASSUME Inv1, [Next]_vars
  PROVE  \/ Open' = Open /\ gate' = gate
         \/ \E i \in Index : i \notin Open /\ Open' = Open \cup {i} /\ gate < Concurrency /\ gate' = gate + 1
         \/ \E i \in Open : Open' = Open \ {i} /\ gate' = gate - 1
<1> USE DEF Open, Inv1, Shapes
<1>1. ASSUME NEW i \in Index, Acquire(i)
      PROVE  i \notin Open /\ Open' = Open \cup {i} /\ gate < Concurrency /\ gate' = gate + 1
  BY <1>1 DEF Acquire
<1>2. ASSUME NEW i \in Index, Probe(i)
      PROVE  /\ i \in Open
             /\ \/ Open' = Open /\ gate' = gate
                \/ Open' = Open \ {i} /\ gate' = gate - 1
  <2>1. probe[i] = "open" /\ \E stop : Asked(i, stop)
    BY <1>2 DEF Probe, FoundOne, FoundNone, Unknown
  <2>2. PICK last \in BOOLEAN :
          /\ probe' = [probe EXCEPT ![i] = IF last THEN "done" ELSE "open"]
          /\ gate' = IF last THEN gate - 1 ELSE gate
    BY <2>1 DEF Asked
  <2>3. CASE last
    BY <2>1, <2>2, <2>3
  <2>4. CASE ~last
    BY <2>1, <2>2, <2>4
  <2>5. QED BY <2>3, <2>4
<1>3. CASE Spawn
  <2>1. ASSUME next <= Len(targets), main = "spawn"
        PROVE  next \in Index /\ probe[next] = "none"
    <3>1. Len(targets) \in Nat /\ next \in Index
      BY <2>1, BoundsAssumption DEF Index
    <3>2. QED BY <2>1, <3>1, BoundsAssumption DEF Control, Index
  <2>2. gate' = gate
    BY <1>3 DEF Spawn
  <2>3. CASE UNCHANGED probe
    BY <2>2, <2>3
  <2>4. CASE next <= Len(targets) /\ probe' = [probe EXCEPT ![next] = "gate"]
    <3>1. main = "spawn"
      BY <1>3 DEF Spawn
    <3>2. next \in Index /\ probe[next] = "none"
      BY <2>1, <2>4, <3>1
    <3>3. Open' = Open
      BY <2>4, <3>2
    <3>4. QED BY <2>2, <3>3
  <2>5. QED BY <1>3, <2>3, <2>4 DEF Spawn
<1>4. CASE Cancel \/ Begin \/ Wait \/ Merge \/ Return \/ UNCHANGED vars
  BY <1>4 DEF Cancel, Begin, Wait, Merge, Return, vars, poolVars
<1>5. QED BY <1>1, <1>2, <1>3, <1>4 DEF Next, Collect, Goroutine

LEMMA OpenFinite == IsFiniteSet(Open) /\ Cardinality(Open) \in Nat
<1>1. IsFiniteSet(Index)
  BY BoundsAssumption, FS_Interval DEF Index
<1>2. Open \in SUBSET Index
  BY DEF Open
<1>3. QED BY <1>1, <1>2, FS_Subset, FS_CardinalityType

LEMMA InitGate == Init => AFewAtATime
<1>1. Init => Open = {} /\ gate = 0
  BY DEF Init, Open
<1>2. Cardinality({}) = 0
  BY FS_EmptySet
<1>3. QED BY <1>1, <1>2, BoundsAssumption DEF AFewAtATime

LEMMA StepGate == Inv1 /\ AFewAtATime /\ [Next]_vars => AFewAtATime'
<1> SUFFICES ASSUME Inv1, AFewAtATime, [Next]_vars PROVE gate' = Cardinality(Open') /\ gate' <= Concurrency
  BY DEF AFewAtATime
<1>1. Cardinality(Open) \in Nat /\ Concurrency \in Nat /\ gate = Cardinality(Open) /\ gate <= Concurrency
  BY OpenFinite, BoundsAssumption DEF AFewAtATime
<1>2. CASE Open' = Open /\ gate' = gate
  BY <1>1, <1>2
<1>3. ASSUME NEW i \in Index, i \notin Open, Open' = Open \cup {i}, gate < Concurrency, gate' = gate + 1
      PROVE  gate' = Cardinality(Open') /\ gate' <= Concurrency
  <2>1. Cardinality(Open \cup {i}) = Cardinality(Open) + 1
    BY <1>3, OpenFinite, FS_AddElement
  <2>2. QED BY <1>1, <1>3, <2>1
<1>4. ASSUME NEW i \in Open, Open' = Open \ {i}, gate' = gate - 1
      PROVE  gate' = Cardinality(Open') /\ gate' <= Concurrency
  <2>1. Cardinality(Open \ {i}) = Cardinality(Open) - 1
    BY <1>4, OpenFinite, FS_RemoveElement
  <2>2. QED BY <1>1, <1>4, <2>1
<1>5. QED BY <1>2, <1>3, <1>4, OpenSteps

\* As many places are taken at the gate as targets are talked to, never more than
\* Concurrency: every way out of probeTarget gives its place back, once (gate).
THEOREM Gated == Spec => []AFewAtATime
BY InitInv1, StepInv1, InitGate, StepGate, PTL DEF Spec

\* Every variable keeps its shape; no target is asked more often than there are
\* names or left unanswered beyond the bound, and no more is reported than the
\* run has room for, in whatever order the goroutines go (probeTarget, observe).
THEOREM TypeCorrect == Spec => []TypeOK
<1>1. Inv1 /\ AFewAtATime => TypeOK
  <2> SUFFICES ASSUME Inv1, AFewAtATime PROVE TypeOK
    OBVIOUS
  <2>1. Elements(targets) \subseteq Elements(list) /\ Len(targets) <= MaxProbes
    BY FirstFacts DEF Inv1, Shapes, Elements
  <2>2. \A i \in Index : Elements(found[i]) \subseteq Certificate
    BY DEF Inv1, Counters, Elements
  <2>3. Elements(observations) \subseteq Listed \X Certificate /\ Len(observations) <= Room
    BY DEF Inv1, Recorded, Elements
  <2>4. {completed, cancelled, disturbed, swept} \subseteq BOOLEAN
    BY DEF Inv1, Shapes
  <2>5. DOMAIN service = Addresses
    BY DEF Inv1, Shapes
  <2>6. gate \in 0..Concurrency
    BY OpenFinite, BoundsAssumption DEF AFewAtATime
  <2>7. QED BY <2>1, <2>2, <2>3, <2>4, <2>5, <2>6 DEF Inv1, Shapes, Counters, TypeOK
<1>2. QED BY <1>1, InitInv1, StepInv1, InitGate, StepGate, PTL DEF Spec

-----------------------------------------------------------------------------
(* What the goroutines find.                                               *)

\* Other steps than a handshake and the choice of the targets leave alone what
\* is known of them.
LEMMA OtherSteps ==
  ASSUME Inv1, [Next]_vars, ~Begin, \A i \in Index : ~Probe(i)
  PROVE  /\ UNCHANGED <<hostVars, targets, outcomeVars, historyVars>>
         /\ cancelled => cancelled'
         /\ \A i \in Index : probe'[i] = "done" <=> probe[i] = "done"
         /\ \A i \in Index : probe[i] # "none" => probe'[i] # "none"
<1> USE DEF Inv1, Shapes
<1>1. CASE Spawn
  <2>1. ASSUME next <= Len(targets), main = "spawn"
        PROVE  next \in Index /\ probe[next] = "none"
    <3>1. Len(targets) \in Nat /\ next \in Index
      BY <2>1, BoundsAssumption DEF Index
    <3>2. QED BY <2>1, <3>1, BoundsAssumption DEF Control, Index
  <2>2. QED BY <1>1, <2>1 DEF Spawn
<1>2. ASSUME NEW i \in Index, Acquire(i)
      PROVE  /\ UNCHANGED <<hostVars, targets, outcomeVars, historyVars, cancelled>>
             /\ \A j \in Index : probe'[j] = "done" <=> probe[j] = "done"
             /\ \A j \in Index : probe[j] # "none" => probe'[j] # "none"
  BY <1>2 DEF Acquire
<1>3. CASE Cancel \/ Wait \/ Merge \/ Return \/ UNCHANGED vars
  BY <1>3 DEF Cancel, Wait, Merge, Return, vars, poolVars
<1>4. QED BY <1>1, <1>2, <1>3 DEF Next, Collect, Goroutine

\* Before the targets are chosen nothing has been asked.
LEMMA AtTheStart ==
  ASSUME Inv1, main = "start"
  PROVE  \A i \in Index : probe[i] = "none" /\ asked[i] = 0 /\ found[i] = <<>> /\ ~incomplete[i]
<1>1. ASSUME NEW i \in Index PROVE probe[i] = "none"
  <2>1. ~(i <= Len(targets))
    BY BoundsAssumption DEF Inv1, Control, Index
  <2>2. QED BY <2>1 DEF Inv1, Control
<1>2. QED BY <1>1 DEF Inv1, Counters

\* What a listener presents to a name the agent either finds, or says it does not
\* know, or was never sent.
LEMMA ProbeCovers ==
  ASSUME Inv1, Covered, NEW i \in Index, Probe(i)
  PROVE  Covered'
<1>1. /\ probe[i] = "open" /\ UNCHANGED <<hostVars, targets, main, next, resultVars, cancelled>>
  BY ProbeOutcome
<1>2. PICK e : Comes(i, e)
  BY ProbeOutcome
<1> DEFINE key == DialAddress(targets[i])
           a == service[key][asked[i] + 1]
<1>3. /\ i \in DOMAIN targets /\ key \in Addresses /\ a \in Answer
      /\ asked[i] \in Nat /\ asked[i] + 1 \in 1..Probes /\ Probes \in Nat
  BY <1>1, Talking, BoundsAssumption
<1>4. FoundOne(i, e) \/ FoundNone(i, e) \/ Unknown(i, e)
  BY <1>2 DEF Comes
<1>5. UNCHANGED <<service, targets, cancelled>> /\ silent \subseteq silent'
  BY <1>1, <1>2 DEF Comes, hostVars
<1>6. /\ asked'[i] = asked[i] + 1
      /\ \A j \in Index : j # i => /\ asked'[j] = asked[j] /\ probe'[j] = probe[j]
                                   /\ found'[j] = found[j] /\ incomplete'[j] = incomplete[j]
      /\ Elements(found[i]) \subseteq Elements(found'[i])
  <2>1. asked' = [asked EXCEPT ![i] = @ + 1]
    BY <1>4 DEF FoundOne, FoundNone, Unknown, Asked
  <2>2. \A j \in Index : j # i => probe'[j] = probe[j] /\ found'[j] = found[j] /\ incomplete'[j] = incomplete[j]
    BY <1>4 DEF FoundOne, FoundNone, Unknown, Asked, Inv1, Shapes, Counters
  <2>3. found[i] \in Seq(Certificate)
    BY DEF Inv1, Counters
  <2>4. Elements(found[i]) \subseteq Elements(found'[i])
    <3>1. found'[i] = found[i] \/ found'[i] = Append(found[i], e.cert)
      BY <1>4 DEF FoundOne, FoundNone, Unknown, Inv1, Counters
    <3>2. QED BY <2>3, <3>1 DEF Elements
  <2>5. QED BY <2>1, <2>2, <2>4 DEF Inv1, Counters
<1>7. ASSUME NEW j \in DOMAIN targets, j # i, ~cancelled, ~incomplete'[j], Speaks(j)'
      PROVE  /\ \A p \in 1..asked'[j] :
                  service[DialAddress(targets[j])][p] \in Certificate /\ <<DialAddress(targets[j]), p>> \notin silent'
                    => service[DialAddress(targets[j])][p] \in Elements(found'[j])
             /\ probe'[j] = "done" /\ asked'[j] < Probes =>
                  \A p \in 1..Probes : service[DialAddress(targets[j])][p] \notin Certificate
  <2>1. j \in Index
    BY TargetAddress DEF Inv1
  <2>2. Speaks(j) /\ ~incomplete[j]
    BY <1>5, <1>6, <1>7, <2>1 DEF Speaks
  <2>3. QED BY <1>5, <1>6, <1>7, <2>1, <2>2 DEF Covered
<1>8. ASSUME ~cancelled, ~incomplete'[i], Speaks(i)'
      PROVE  /\ \A p \in 1..asked'[i] :
                  service[key][p] \in Certificate /\ <<key, p>> \notin silent'
                    => service[key][p] \in Elements(found'[i])
             /\ probe'[i] = "done" /\ asked'[i] < Probes =>
                  \A p \in 1..Probes : service[key][p] \notin Certificate
  <2>1. ~incomplete[i] /\ Speaks(i)
    <3>1. ~incomplete[i]
      BY <1>4, <1>8 DEF FoundOne, FoundNone, Unknown, Inv1, Shapes
    <3>2. QED BY <1>5, <1>8, <3>1 DEF Speaks
  <2>2. ~Unknown(i, e)
    BY <1>8 DEF Unknown, Inv1, Shapes
  <2>3. \/ e \in Answers(a) \/ e \in TimesOut(a)
        \/ /\ a \notin NoTLS /\ e = Outcome("ok", NoCert, "timeout", FALSE)
           /\ <<key, asked[i] + 1>> \in silent'
    BY <1>2, <1>8 DEF Comes
  <2>4. ASSUME a \in Certificate, <<key, asked[i] + 1>> \notin silent'
        PROVE  a \in Elements(found'[i])
    <3>1. e \in Answers(a) \/ e \in TimesOut(a)
      BY <2>3, <2>4
    <3>2. Presented(e) /\ e.cert = a
      <4>1. e \notin TimesOut(a)
        BY <1>3, <1>4, <2>2, Outcomes DEF FoundOne, FoundNone
      <4>2. QED BY <1>3, <2>4, <3>1, <4>1, Outcomes
    <3>3. FoundOne(i, e)
      <4>1. ~FoundNone(i, e)
        BY <3>2 DEF FoundNone, Nothing, Presented
      <4>2. QED BY <1>4, <2>2, <4>1
    <3>4. found[i] \in Seq(Certificate)
      BY DEF Inv1, Counters
    <3>5. found'[i] = IF a \in Elements(found[i]) THEN found[i] ELSE Append(found[i], a)
      BY <3>2, <3>3 DEF FoundOne, Inv1, Counters
    <3>6. CASE a \in Elements(found[i])
      BY <1>6, <3>6
    <3>7. CASE found'[i] = Append(found[i], a)
      <4>1. Len(found[i]) + 1 \in DOMAIN found'[i] /\ found'[i][Len(found[i]) + 1] = a
        BY <2>4, <3>4, <3>7
      <4>2. QED BY <4>1 DEF Elements
    <3>8. QED BY <3>5, <3>6, <3>7
  <2>5. ASSUME NEW p \in 1..asked'[i], service[key][p] \in Certificate, <<key, p>> \notin silent'
        PROVE  service[key][p] \in Elements(found'[i])
    <3>1. CASE p = asked[i] + 1
      BY <2>4, <2>5, <3>1
    <3>2. CASE p # asked[i] + 1
      <4>1. p \in 1..asked[i]
        BY <1>3, <1>6, <3>2
      <4>2. service[key][p] \in Elements(found[i])
        BY <1>3, <1>5, <1>8, <2>1, <2>5, <4>1 DEF Covered
      <4>3. QED BY <1>6, <4>2
    <3>3. QED BY <3>1, <3>2
  <2>6. ASSUME probe'[i] = "done", asked'[i] < Probes
        PROVE  \A p \in 1..Probes : service[key][p] \notin Certificate
    <3>1. asked[i] + 1 # Probes
      BY <1>3, <1>6, <2>6
    <3>2. FoundNone(i, e) /\ asked[i] = 0
      BY <1>4, <2>2, <2>6, <3>1 DEF FoundOne, FoundNone, Asked, Inv1, Shapes
    <3>3. a = service[key][1] /\ <<key, 1>> \notin silent'
      BY <1>5, <1>8, <3>2 DEF Speaks
    <3>4. a \in NoTLS
      <4>1. Nothing(e) /\ ~Presented(e)
        BY <3>2 DEF FoundNone, Nothing, Presented
      <4>2. e \notin TimesOut(a)
        BY <1>3, <4>1, Outcomes
      <4>3. asked[i] + 1 = 1
        BY <3>2
      <4>4. <<key, asked[i] + 1>> \notin silent'
        BY <3>3, <4>3
      <4>5. e \in Answers(a)
        BY <2>3, <4>2, <4>4
      <4> HIDE DEF a
      <4>6. QED BY <1>3, <4>1, <4>5, Outcomes DEF Answer
    <3>5. service[key] \in Services
      BY <1>3 DEF Inv1, Shapes
    <3>6. QED BY <3>3, <3>4, <3>5, ServiceAssumption
  <2>7. QED BY <2>5, <2>6
<1>9. QED BY <1>5, <1>7, <1>8 DEF Covered

LEMMA StepCovered == Inv1 /\ Covered /\ [Next]_vars => Covered'
<1> SUFFICES ASSUME Inv1, Covered, [Next]_vars PROVE Covered'
  OBVIOUS
<1>1. CASE \E i \in Index : Probe(i)
  BY <1>1, ProbeCovers
<1>2. CASE Begin
  <2>1. /\ UNCHANGED <<hostVars, probe, outcomeVars, cancelled, historyVars>> /\ main = "start"
    BY <1>2 DEF Begin, poolVars
  <2>2. Inv1'
    BY <1>2, BeginInv1
  <2>3. ASSUME NEW i \in DOMAIN targets' PROVE i \in Index /\ probe'[i] = "none" /\ asked'[i] = 0
    <3>1. targets' \in Seq(First') /\ Len(targets') <= MaxProbes
      BY <2>2 DEF Inv1, Shapes
    <3>2. i \in Index
      BY <3>1, BoundsAssumption DEF Index
    <3>3. QED BY <2>1, <3>2, AtTheStart DEF outcomeVars
  <2>4. QED BY <2>3 DEF Covered
<1>3. CASE ~Begin /\ \A i \in Index : ~Probe(i)
  <2>1. /\ UNCHANGED <<hostVars, targets, outcomeVars, historyVars>>
        /\ cancelled => cancelled'
        /\ \A i \in Index : probe'[i] = "done" <=> probe[i] = "done"
    BY <1>3, OtherSteps
  <2>2. cancelled \in BOOLEAN /\ cancelled' \in BOOLEAN /\ \A i \in DOMAIN targets : i \in Index
    BY TargetAddress, StepInv1 DEF Inv1, Shapes
  <2>3. CASE cancelled'
    BY <2>3 DEF Covered
  <2>4. CASE ~cancelled'
    <3>1. ~cancelled
      BY <2>1, <2>4
    <3>2. UNCHANGED <<service, targets, asked, found, incomplete, silent>>
      BY <2>1 DEF hostVars, outcomeVars, historyVars
    <3>3. ASSUME NEW i \in DOMAIN targets, ~incomplete[i], Speaks(i)
          PROVE  /\ \A p \in 1..asked[i] :
                      service[DialAddress(targets[i])][p] \in Certificate /\ <<DialAddress(targets[i]), p>> \notin silent
                        => service[DialAddress(targets[i])][p] \in Elements(found[i])
                 /\ probe'[i] = "done" /\ asked[i] < Probes =>
                      \A p \in 1..Probes : service[DialAddress(targets[i])][p] \notin Certificate
      BY <2>1, <2>2, <3>1, <3>3 DEF Covered
    <3>4. QED BY <3>2, <3>3 DEF Covered, Speaks
  <2>5. QED BY <2>3, <2>4
<1>4. QED BY <1>1, <1>2, <1>3

-----------------------------------------------------------------------------
(* The targets.                                                            *)

\* A cancelled run is never complete for want of goroutines, and a complete one
\* began one for every listener.
LEMMA StepChosen == Inv1 /\ Chosen /\ [Next]_vars => Chosen'
<1> SUFFICES ASSUME Inv1, Chosen, [Next]_vars PROVE Chosen'
  OBVIOUS
<1>1. CASE Begin
  <2>1. main = "start" /\ main' = "spawn" /\ UNCHANGED <<hostVars, next, probe>> /\ next = 1
    BY <1>1 DEF Begin, Inv1, Control, poolVars
  <2>2. First' = First /\ swept' = swept
    BY <2>1, HostStays
  <2>3. /\ targets' \in Seq(First)
        /\ completed' => swept /\ Elements(targets') = First
        /\ \A i, j \in DOMAIN targets' : targets'[i] = targets'[j] => i = j
    BY <1>1, BeginTargets DEF Inv1
  <2>4. \A s, t \in First : Key(s) = Key(t) => s = t
    BY FirstFacts DEF Inv1, Shapes
  <2>5. ASSUME NEW i \in DOMAIN targets', NEW j \in DOMAIN targets', Key(targets'[i]) = Key(targets'[j])
        PROVE  i = j
    BY <2>3, <2>4, <2>5
  <2>6. ASSUME completed', NEW s \in First PROVE \E i \in DOMAIN targets' : targets'[i] = s
    BY <2>3, <2>6 DEF Elements
  <2>7. QED BY <2>1, <2>2, <2>3, <2>5, <2>6 DEF Chosen
<1>2. CASE Spawn
  <2>1. main = "spawn" /\ UNCHANGED <<hostVars, targets>>
    BY <1>2 DEF Spawn
  <2>2. First' = First /\ swept' = swept
    BY <2>1, HostStays
  <2>3. targets \in Seq(First) /\ Len(targets) \in Nat /\ DOMAIN targets = 1..Len(targets)
        /\ next \in Nat /\ next <= Len(targets) + 1
    BY <2>1 DEF Inv1, Shapes, Control
  <2>4. CASE /\ next <= Len(targets)
             /\ probe' = [probe EXCEPT ![next] = "gate"]
             /\ next' = next + 1
             /\ UNCHANGED <<main, completed>>
    <3>1. ASSUME completed', NEW i \in 1..(next' - 1) PROVE probe'[i] # "none"
      <4>1. i \in Index
        BY <2>3, <2>4, <3>1, BoundsAssumption DEF Inv1, Shapes, Index
      <4>2. i \in 1..(next - 1) \/ i = next
        BY <2>3, <2>4, <3>1
      <4>3. QED BY <2>1, <2>4, <3>1, <4>1, <4>2 DEF Chosen, Inv1, Shapes
    <3>2. QED BY <2>1, <2>2, <2>4, <3>1 DEF Chosen
  <2>5. CASE main' = "wait" /\ ~completed'
    BY <2>1, <2>2, <2>5 DEF Chosen
  <2>6. CASE next > Len(targets) /\ main' = "wait" /\ UNCHANGED <<next, probe, completed>>
    <3>1. \A i \in DOMAIN targets : i \in 1..(next - 1)
      BY <2>3, <2>6
    <3>2. QED BY <2>1, <2>2, <2>6, <3>1 DEF Chosen
  <2>7. QED BY <1>2, <2>4, <2>5, <2>6 DEF Spawn
<1>3. CASE ~Begin /\ ~Spawn
  <2>1. /\ UNCHANGED <<hostVars, targets>>
        /\ completed' => completed
        /\ \/ main' = main /\ (main = "spawn" => next' = next)
           \/ main = "wait" /\ main' = "merge"
           \/ main = "merge" /\ main' = "returned"
    <3>1. CASE Merge
      BY <3>1 DEF Merge, poolVars
    <3>2. CASE Wait \/ Return
      BY <3>2 DEF Wait, Return, resultVars, poolVars
    <3>3. CASE Cancel \/ UNCHANGED vars
      BY <3>3 DEF Cancel, vars, resultVars, poolVars
    <3>4. ASSUME NEW i \in Index, Acquire(i) \/ Probe(i)
          PROVE  UNCHANGED <<hostVars, targets, main, next, resultVars>>
      BY <3>4 DEF Acquire, Probe
    <3>5. QED BY <1>3, <3>1, <3>2, <3>3, <3>4 DEF Next, Collect, Goroutine, resultVars
  <2>2. First' = First /\ swept' = swept
    BY <2>1, HostStays
  <2>3. ASSUME NEW i \in Index, probe[i] # "none" PROVE probe'[i] # "none"
    <3>1. CASE UNCHANGED probe
      BY <2>3, <3>1
    <3>2. ASSUME NEW j \in Index, Acquire(j) PROVE probe'[i] # "none"
      BY <2>3, <3>2 DEF Acquire, Inv1, Shapes
    <3>3. ASSUME NEW j \in Index, Probe(j) PROVE probe'[i] # "none"
      <4>1. \E word \in {"open", "done"} : probe' = [probe EXCEPT ![j] = word]
        <5>1. PICK e : FoundOne(j, e) \/ FoundNone(j, e) \/ Unknown(j, e)
          BY <3>3, Zenon DEF Probe
        <5>2. CASE FoundOne(j, e)
          BY <5>2 DEF FoundOne, Asked
        <5>3. CASE FoundNone(j, e)
          BY <5>3 DEF FoundNone, Asked
        <5>4. CASE Unknown(j, e)
          BY <5>4 DEF Unknown, Asked
        <5>5. QED BY <5>1, <5>2, <5>3, <5>4
      <4>2. QED BY <2>3, <4>1 DEF Inv1, Shapes
    <3>4. CASE Cancel \/ Wait \/ Merge \/ Return \/ UNCHANGED vars
      BY <3>1, <3>4 DEF Cancel, Wait, Merge, Return, vars, poolVars
    <3>5. QED BY <1>3, <3>2, <3>3, <3>4 DEF Next, Collect, Goroutine
  <2>4. /\ \A i \in DOMAIN targets : i \in Index
        /\ main = "spawn" => \A i \in 1..(next - 1) : i \in Index
    BY TargetAddress, BoundsAssumption DEF Inv1, Shapes, Index
  <2>5. QED BY <2>1, <2>2, <2>3, <2>4 DEF Chosen
<1>4. QED BY <1>1, <1>2, <1>3

-----------------------------------------------------------------------------
(* What an unknown verdict is owed to.                                     *)

\* Nothing that spoils a sweep is forgotten.
LEMMA CauseStays ==
  ASSUME Inv1, [Next]_vars
  PROVE  UNCHANGED hostVars /\ (cancelled => cancelled') /\ (Cause => Cause')
<1>1. UNCHANGED hostVars /\ (cancelled => cancelled')
  <2>1. CASE Cancel
    BY <2>1 DEF Cancel, poolVars
  <2>2. CASE UNCHANGED <<hostVars, cancelled>>
    BY <2>2
  <2>3. QED BY <2>1, <2>2 DEF Next, Collect, Goroutine, Begin, Spawn, Wait, Merge, Return, Acquire, Probe, vars, poolVars
<1>2. disturbed => disturbed'
  <2>1. ASSUME NEW i \in Index, Probe(i) PROVE disturbed => disturbed'
    <3>1. PICK e : Comes(i, e)
      BY <2>1, ProbeOutcome
    <3>2. QED BY <3>1 DEF Comes
  <2>2. CASE UNCHANGED historyVars
    BY <2>2 DEF historyVars
  <2>3. QED BY <2>1, <2>2 DEF Next, Collect, Goroutine, Cancel, Begin, Spawn, Wait, Merge, Return, Acquire, vars, poolVars
<1>3. service' = service
  BY <1>1, HostStays
<1>4. QED BY <1>1, <1>2, <1>3 DEF Cause

\* A port without TLS is never unknown while nothing runs out of time, so that a
\* verdict that is unknown has a cause.
LEMMA StepBlamed == Inv1 /\ Blamed /\ [Next]_vars => Blamed'
<1> SUFFICES ASSUME Inv1, Blamed, [Next]_vars PROVE Blamed'
  OBVIOUS
<1>1. Cause => Cause'
  BY CauseStays
<1>2. ASSUME NEW i \in Index, Probe(i) PROVE Blamed'
  <2>1. PICK e : Comes(i, e)
    BY <1>2, ProbeOutcome
  <2>2. CASE Unknown(i, e)
    <3> DEFINE a == service[DialAddress(targets[i])][asked[i] + 1]
    <3>1. /\ DialAddress(targets[i]) \in Addresses /\ asked[i] + 1 \in 1..Probes /\ a \in Answer
      BY <1>2, Talking, ProbeOutcome
    <3>2. DOMAIN service = Addresses
      BY DEF Inv1, Shapes
    <3>3. ~Presented(e) /\ ~Nothing(e)
      BY <2>2 DEF Unknown
    <3>4. Cause'
      <4>1. CASE cancelled \/ a = "refuses"
        <5>1. Cause
          BY <3>1, <3>2, <4>1 DEF Cause
        <5>2. QED BY <1>1, <5>1
      <4>2. CASE ~cancelled /\ a # "refuses"
        <5>1. e \notin Answers(a)
          BY <3>1, <3>3, <4>2, Outcomes DEF Answer
        <5>2. disturbed'
          BY <2>1, <4>2, <5>1 DEF Comes
        <5>3. QED BY <5>2 DEF Cause
      <4>3. QED BY <4>1, <4>2
    <3>5. QED BY <3>4 DEF Blamed
  <2>3. CASE UNCHANGED incomplete
    BY <1>1, <2>3 DEF Blamed
  <2>4. QED BY <2>1, <2>2, <2>3 DEF Comes, FoundOne, FoundNone
<1>3. CASE ~\E i \in Index : Probe(i)
  <2>1. UNCHANGED incomplete
    BY <1>3 DEF Next, Collect, Goroutine, Cancel, Begin, Spawn, Wait, Merge, Return, Acquire, vars, outcomeVars, poolVars
  <2>2. QED BY <1>1, <2>1 DEF Blamed
<1>4. QED BY <1>2, <1>3

-----------------------------------------------------------------------------
(* What is merged.                                                         *)

\* A certificate that answers to several names is kept once (recorded).
LEMMA StepFoundOnce == Inv1 /\ FoundOnce /\ [Next]_vars => FoundOnce'
<1> SUFFICES ASSUME Inv1, FoundOnce, [Next]_vars PROVE FoundOnce'
  OBVIOUS
<1>1. ASSUME NEW i \in Index, NEW e, FoundOne(i, e) PROVE FoundOnce'
  <2>1. found \in [Index -> Seq(Certificate)]
    BY DEF Inv1, Counters
  <2>2. found' = [found EXCEPT ![i] = IF e.cert \in Elements(@) THEN @ ELSE Append(@, e.cert)]
    BY <1>1 DEF FoundOne
  <2>3. ASSUME NEW h \in Index, NEW j \in DOMAIN found'[h], NEW k \in DOMAIN found'[h],
               found'[h][j] = found'[h][k]
        PROVE  j = k
    <3>1. CASE found'[h] = found[h]
      BY <2>3, <3>1 DEF FoundOnce
    <3>2. CASE found'[h] # found[h]
      <4>1. h = i /\ e.cert \notin Elements(found[i]) /\ found'[i] = Append(found[i], e.cert)
        BY <2>1, <2>2, <3>2
      <4> DEFINE q == found[i]
      <4>2. Len(q) \in Nat /\ DOMAIN q = 1..Len(q)
        BY <2>1
      <4>3. j \in 1..(Len(q) + 1) /\ k \in 1..(Len(q) + 1)
        BY <2>1, <2>3, <4>1
      <4>4. /\ \A x \in 1..Len(q) : found'[i][x] = q[x]
            /\ found'[i][Len(q) + 1] = e.cert
        BY <2>1, <4>1
      <4>5. \A x \in 1..Len(q) : q[x] # e.cert
        BY <4>1, <4>2 DEF Elements
      <4> HIDE DEF q
      <4>6. CASE j \in 1..Len(q) /\ k \in 1..Len(q)
        BY <2>3, <4>1, <4>2, <4>4, <4>6 DEF FoundOnce, q
      <4>7. CASE j = Len(q) + 1 \/ k = Len(q) + 1
        <5>1. (j = Len(q) + 1 \/ j \in 1..Len(q)) /\ (k = Len(q) + 1 \/ k \in 1..Len(q))
          BY <4>2, <4>3
        <5>2. QED BY <2>3, <4>1, <4>4, <4>5, <4>7, <5>1
      <4>8. QED BY <4>2, <4>3, <4>6, <4>7
    <3>3. QED BY <3>1, <3>2
  <2>4. QED BY <2>3 DEF FoundOnce
<1>2. CASE UNCHANGED found
  BY <1>2 DEF FoundOnce
<1>3. QED BY <1>1, <1>2 DEF Next, Collect, Goroutine, Cancel, Begin, Spawn, Wait, Merge, Return, poolVars,
                         Acquire, Probe, FoundNone, Unknown, vars, outcomeVars

\* The steps after which the merge has begun.
LEMMA MergingSteps ==
  ASSUME Inv1, [Next]_vars, main' \in {"merge", "returned"}
  PROVE  \/ Merge
         \/ next' = 1 /\ observations' = <<>>
         \/ main \in {"merge", "returned"}
              /\ UNCHANGED <<targets, next, found, incomplete, observations, completed>>
<1>1. CASE Merge
  BY <1>1
<1>2. CASE Wait
  BY <1>2 DEF Wait, resultVars, Inv1, Control, poolVars
<1>3. CASE Return \/ Cancel \/ UNCHANGED vars
  BY <1>3 DEF Return, Cancel, vars, resultVars, outcomeVars, poolVars
<1>4. ASSUME NEW i \in Index, Acquire(i)
      PROVE  main \in {"merge", "returned"} /\ UNCHANGED <<targets, next, found, incomplete, observations, completed>>
  BY <1>4 DEF Acquire, resultVars, outcomeVars
<1>5. ASSUME NEW i \in Index, Probe(i) PROVE FALSE
  <2>1. main' = main /\ main \in {"spawn", "wait"}
    BY <1>5, Talking, ProbeOutcome
  <2>2. QED BY <2>1
<1>6. ~Begin /\ ~Spawn
  BY DEF Begin, Spawn, poolVars
<1>7. QED BY <1>1, <1>2, <1>3, <1>4, <1>5, <1>6 DEF Next, Collect, Goroutine

LEMMA Concatenated ==
  ASSUME NEW T, NEW p \in Seq(T), NEW q \in Seq(T)
  PROVE  /\ p \o q \in Seq(T) /\ Len(p \o q) = Len(p) + Len(q)
         /\ \A k \in 1..Len(p) : (p \o q)[k] = p[k]
         /\ \A k \in 1..Len(q) : (p \o q)[Len(p) + k] = q[k]
OBVIOUS

\* The observations after Merge: those before, then the ones of this target.
LEMMA MergeAppends ==
  ASSUME Inv1, Merge
  PROVE  \E n \in Nat :
           LET L == Len(observations)
           IN /\ L \in Nat /\ next \in DOMAIN targets /\ next \in Index
              /\ found[next] \in Seq(Certificate) /\ n <= Len(found[next])
              /\ Len(observations') = L + n /\ DOMAIN observations' = 1..(L + n)
              /\ \A k \in 1..L : observations'[k] = observations[k]
              /\ \A k \in 1..n : observations'[L + k] = <<targets[next], found[next][k]>>
              /\ L + n <= Room /\ (n = Len(found[next]) \/ L + n = Room)
              /\ completed' = (completed /\ n = Len(found[next]) /\ ~incomplete[next])
<1> DEFINE new(n) == [k \in 1..n |-> <<targets[next], found[next][k]>>]
           L == Len(observations)
<1>1. PICK n \in Nat :
        /\ next \in DOMAIN targets /\ next \in Index
        /\ n <= Len(found[next]) /\ n + Len(observations) <= Room
        /\ n = Len(found[next]) \/ n + Len(observations) = Room
        /\ new(n) \in Seq(Listed \X Certificate) /\ Len(new(n)) = n
        /\ observations' = observations \o new(n)
        /\ completed' = (completed /\ n = Len(found[next]) /\ ~incomplete[next])
  BY MergeRecords
<1>2. \A k \in 1..n : new(n)[k] = <<targets[next], found[next][k]>>
  OBVIOUS
<1>3. observations \in Seq(Listed \X Certificate) /\ found[next] \in Seq(Certificate)
  BY <1>1 DEF Inv1, Counters, Recorded
<1>4. L \in Nat /\ Room \in Nat
  BY <1>3, BoundsAssumption
<1> HIDE DEF new
<1>5. /\ observations' \in Seq(Listed \X Certificate) /\ Len(observations') = L + n
      /\ \A k \in 1..L : observations'[k] = observations[k]
      /\ \A k \in 1..n : observations'[L + k] = new(n)[k]
  <2>1. \A T : \A q \in Seq(T) : observations \in Seq(T) =>
          /\ observations \o q \in Seq(T) /\ Len(observations \o q) = L + Len(q)
          /\ \A k \in 1..L : (observations \o q)[k] = observations[k]
          /\ \A k \in 1..Len(q) : (observations \o q)[L + k] = q[k]
    BY Concatenated
  <2>2. QED BY <1>1, <1>3, <2>1
<1>6. DOMAIN observations' = 1..(L + n)
  <2>1. DOMAIN observations' = 1..Len(observations')
    BY <1>5
  <2>2. QED BY <1>5, <2>1
<1>7. L + n <= Room /\ (n = Len(found[next]) \/ L + n = Room)
  BY <1>1, <1>4
<1>8. QED BY <1>1, <1>2, <1>3, <1>4, <1>5, <1>6, <1>7

\* Two targets are two sockets: they differ in dedupe's key, and no two listeners
\* of a whole table that differ in it are reached at one address.
LEMMA TargetsDiffer ==
  ASSUME Inv1, Chosen, NEW i \in DOMAIN targets, NEW j \in DOMAIN targets, i # j
  PROVE  ~SameSocket(targets[i], targets[j])
<1>1. Key(targets[i]) # Key(targets[j])
  BY DEF Chosen
<1>2. ASSUME swept PROVE DialAddress(targets[i]) # DialAddress(targets[j])
  <2>1. targets[i] \in Elements(list) /\ targets[j] \in Elements(list)
    BY TargetAddress, FirstFacts DEF Inv1, Shapes
  <2>2. PICK a \in DOMAIN list : targets[i] = list[a]
    BY <2>1 DEF Elements
  <2>3. PICK b \in DOMAIN list : targets[j] = list[b]
    BY <2>1 DEF Elements
  <2>4. list \in Tables
    BY <1>2 DEF Inv1, Shapes
  <2>5. QED BY <1>1, <2>2, <2>3, <2>4, TablesAssumption
<1>3. QED BY <1>1, <1>2 DEF SameSocket

\* All that is found of a target is merged if the sweep is to be complete, and
\* no finding is merged twice.
LEMMA StepMerged == Inv1 /\ Chosen /\ FoundOnce /\ Merged /\ [Next]_vars => Merged'
<1> SUFFICES ASSUME Inv1, Chosen, FoundOnce, Merged, [Next]_vars PROVE Merged'
  OBVIOUS
<1>1. CASE Merge
  <2>1. UNCHANGED <<hostVars, targets, found, incomplete>> /\ main = "merge" /\ main' = main /\ next' = next + 1
    BY <1>1 DEF Merge, outcomeVars, poolVars
  <2> DEFINE L == Len(observations)
             Same(o, p) == o[2] = p[2] /\ SameSocket(o[1], p[1])
  <2>2. PICK n \in Nat :
          /\ L \in Nat /\ next \in DOMAIN targets /\ next \in Index
          /\ found[next] \in Seq(Certificate) /\ n <= Len(found[next])
          /\ DOMAIN observations' = 1..(L + n)
          /\ \A k \in 1..L : observations'[k] = observations[k]
          /\ \A k \in 1..n : observations'[L + k] = <<targets[next], found[next][k]>>
          /\ completed' = (completed /\ n = Len(found[next]) /\ ~incomplete[next])
    BY <1>1, MergeAppends
  <2>3. DOMAIN observations = 1..L /\ \A i \in DOMAIN targets : i \in Nat
    BY DEF Inv1, Shapes, Recorded
  <2>4. next \in Nat /\ DOMAIN found[next] = 1..Len(found[next]) /\ Len(found[next]) \in Nat
    BY <2>2, <2>3
  <2> HIDE DEF L
  <2>5. ASSUME NEW k \in DOMAIN observations'
        PROVE  k \in 1..L \/ \E h \in 1..n : k = L + h
    <3>1. k \in 1..(L + n) /\ k \in Int
      BY <2>2
    <3>2. CASE k <= L
      BY <2>2, <3>1, <3>2
    <3>3. CASE k > L
      <4>1. k - L \in 1..n /\ k = L + (k - L)
        BY <2>2, <3>1, <3>3
      <4>2. QED BY <4>1
    <3>4. QED BY <2>2, <3>1, <3>2, <3>3
  <2>6. Elements(observations) \subseteq Elements(observations')
    BY <2>2, <2>3 DEF Elements
  <2>7. ASSUME completed', NEW i \in DOMAIN targets, i < next'
        PROVE  ~incomplete[i] /\ \A c \in Elements(found[i]) : <<targets[i], c>> \in Elements(observations')
    <3>1. completed /\ n = Len(found[next]) /\ ~incomplete[next]
      BY <2>2, <2>7
    <3>2. CASE i < next
      BY <2>1, <2>6, <2>7, <3>1, <3>2 DEF Merged
    <3>3. CASE i = next
      <4>1. ASSUME NEW c \in Elements(found[next])
            PROVE  <<targets[next], c>> \in Elements(observations')
        <5>1. PICK k \in 1..n : c = found[next][k]
          BY <2>4, <3>1, <4>1 DEF Elements
        <5>2. L + k \in DOMAIN observations'
          <6>1. L + k \in 1..(L + n)
            BY <2>2, <5>1
          <6>2. QED BY <2>2, <6>1
        <5>3. QED BY <2>2, <5>1, <5>2 DEF Elements
      <4>2. QED BY <3>1, <3>3, <4>1
    <3>4. QED BY <2>1, <2>3, <2>4, <2>7, <3>2, <3>3
  <2>8. ASSUME NEW k \in DOMAIN observations'
        PROVE  \E i \in DOMAIN targets : i < next' /\ observations'[k][1] = targets[i]
    <3>1. CASE k \in 1..L
      <4>1. PICK i \in DOMAIN targets : i < next /\ observations[k][1] = targets[i]
        BY <2>3, <3>1 DEF Merged
      <4>2. i < next' /\ observations'[k] = observations[k]
        BY <2>1, <2>2, <2>3, <2>4, <3>1, <4>1
      <4>3. QED BY <4>1, <4>2
    <3>2. CASE \E h \in 1..n : k = L + h
      <4>1. observations'[k][1] = targets[next]
        <5>1. PICK h \in 1..n : k = L + h
          BY <3>2
        <5>2. observations'[L + h] = <<targets[next], found[next][h]>>
          BY <2>2
        <5>3. observations'[L + h][1] = targets[next]
          BY <5>2
        <5>4. QED BY <5>1, <5>3
      <4>2. next < next'
        BY <2>1, <2>4
      <4>3. QED BY <2>2, <4>1, <4>2
    <3>3. QED BY <2>5, <3>1, <3>2
  <2>9. ASSUME NEW j \in DOMAIN observations', NEW k \in DOMAIN observations',
               Same(observations'[j], observations'[k])
        PROVE  j = k
    <3>1. ASSUME NEW x \in 1..L, NEW h \in 1..n
          PROVE  ~Same(observations'[x], observations'[L + h]) /\ ~Same(observations'[L + h], observations'[x])
      <4>1. PICK i \in DOMAIN targets : i < next /\ observations[x][1] = targets[i]
        BY <2>3 DEF Merged
      <4>2. i # next
        BY <2>3, <2>4, <4>1
      <4>3. ~SameSocket(targets[i], targets[next]) /\ ~SameSocket(targets[next], targets[i])
        BY <2>2, <4>2, TargetsDiffer
      <4>4. observations'[x] = observations[x] /\ observations'[L + h] = <<targets[next], found[next][h]>>
        BY <2>2
      <4>5. observations'[x][1] = targets[i] /\ observations'[L + h][1] = targets[next]
        BY <4>1, <4>4
      <4>6. QED BY <4>3, <4>5
    <3>2. CASE j \in 1..L /\ k \in 1..L
      BY <2>2, <2>3, <2>9, <3>2 DEF Merged, OneFindingPerSocket
    <3>3. CASE (\E h \in 1..n : j = L + h) /\ (\E h \in 1..n : k = L + h)
      <4>1. PICK h \in 1..n : j = L + h
        BY <3>3
      <4>2. PICK g \in 1..n : k = L + g
        BY <3>3
      <4>3. found[next][h] = found[next][g]
        BY <2>2, <2>9, <4>1, <4>2
      <4>4. h \in DOMAIN found[next] /\ g \in DOMAIN found[next]
        BY <2>2, <2>4, <4>1, <4>2
      <4>5. h = g
        BY <2>2, <4>3, <4>4 DEF FoundOnce
      <4>6. QED BY <4>1, <4>2, <4>5
    <3>4. QED BY <2>5, <2>9, <3>1, <3>2, <3>3
  <2>10. OneFindingPerSocket'
    <3>1. ASSUME NEW o, NEW p PROVE SameSocket(o, p)' <=> SameSocket(o, p)
      BY <2>1 DEF SameSocket, Key, DialAddress, hostVars
    <3>2. QED BY <2>9, <3>1 DEF OneFindingPerSocket, SameSocket
  <2>11. QED BY <2>1, <2>7, <2>8, <2>10 DEF Merged
<1>2. CASE observations' = <<>> /\ (main' \in {"merge", "returned"} => next' = 1)
  <2>1. \A i \in DOMAIN targets' : ~(i < 1)
    BY StepInv1 DEF Inv1, Shapes
  <2>2. QED BY <1>2, <2>1 DEF Merged, OneFindingPerSocket
<1>3. CASE main \in {"merge", "returned"} /\ UNCHANGED <<targets, next, found, incomplete, observations, completed>>
  <2>1. swept' = swept
    BY CauseStays, HostStays
  <2>2. QED BY <1>3, <2>1 DEF Merged, OneFindingPerSocket, SameSocket, Key, DialAddress
<1>4. main' \notin {"merge", "returned"} => observations' = <<>>
  BY StepInv1 DEF Inv1, Control, Shapes
<1>5. QED BY <1>1, <1>2, <1>3, <1>4, MergingSteps

-----------------------------------------------------------------------------
(* Why a sweep is not complete.                                            *)

LEMMA StepReasoned == Inv1 /\ Blamed /\ Reasoned /\ [Next]_vars => Reasoned'
<1> SUFFICES ASSUME Inv1, Blamed, Reasoned, [Next]_vars, swept', ~completed'
             PROVE  Cause' \/ (Cardinality(First) > MaxProbes)' \/ (Len(observations) = Room)'
  BY DEF Reasoned
<1>1. UNCHANGED hostVars /\ (Cause => Cause')
  BY CauseStays
<1>2. First' = First /\ swept
  BY <1>1, HostStays
<1>3. CASE Begin
  <2>1. Cardinality(First) > MaxProbes
    BY <1>2, <1>3, BeginTargets DEF Inv1
  <2>2. QED BY <1>2, <2>1
<1>4. CASE Spawn
  <2>1. UNCHANGED <<cancelled, observations>> /\ (cancelled \/ completed' = completed)
    BY <1>4 DEF Spawn
  <2>2. CASE cancelled
    BY <1>1, <2>2 DEF Cause
  <2>3. CASE ~completed
    BY <1>1, <1>2, <2>1, <2>3 DEF Reasoned
  <2>4. QED BY <2>1, <2>2, <2>3
<1>5. CASE Merge
  <2> DEFINE L == Len(observations)
  <2>1. PICK n \in Nat :
          /\ L \in Nat /\ next \in Index /\ Len(observations') = L + n
          /\ L + n <= Room /\ (n = Len(found[next]) \/ L + n = Room)
          /\ completed' = (completed /\ n = Len(found[next]) /\ ~incomplete[next])
    BY <1>5, MergeAppends
  <2>2. CASE completed /\ n # Len(found[next])
    BY <2>1, <2>2
  <2>3. CASE incomplete[next]
    BY <1>1, <2>1, <2>3 DEF Blamed
  <2>4. CASE ~completed
    <3>1. L = Room => Len(observations') = Room
      BY <2>1, BoundsAssumption
    <3>2. QED BY <1>1, <1>2, <2>4, <3>1 DEF Reasoned
  <2>5. QED BY <2>1, <2>2, <2>3, <2>4
<1>6. CASE UNCHANGED resultVars
  BY <1>1, <1>2, <1>6 DEF Reasoned, resultVars
<1>7. QED BY <1>3, <1>4, <1>5, <1>6
          DEF Next, Collect, Goroutine, Cancel, Wait, Return, Acquire, Probe, vars, poolVars

-----------------------------------------------------------------------------
(* The whole invariant.                                                    *)

Inv == Inv1 /\ Chosen /\ Covered /\ Blamed /\ FoundOnce /\ Merged /\ Reasoned

LEMMA InitInv == Init => Inv
<1> SUFFICES ASSUME Init PROVE Inv
  OBVIOUS
<1>1. Inv1
  BY InitInv1
<1>2. DOMAIN targets = {} /\ DOMAIN observations = {} /\ main = "start" /\ completed
  BY DEF Init
<1>3. \A i \in Index : ~incomplete[i] /\ found[i] = <<>>
  BY DEF Init
<1>4. Chosen
  BY <1>2 DEF Chosen
<1>5. Covered
  BY <1>2 DEF Covered
<1>6. Blamed
  BY <1>3 DEF Blamed
<1>7. FoundOnce
  BY <1>3 DEF FoundOnce
<1>8. Merged
  BY <1>2 DEF Merged, OneFindingPerSocket
<1>9. Reasoned
  BY <1>2 DEF Reasoned
<1>10. QED BY <1>1, <1>4, <1>5, <1>6, <1>7, <1>8, <1>9 DEF Inv

LEMMA StepInv == Inv /\ [Next]_vars => Inv'
BY StepInv1, StepChosen, StepCovered, StepBlamed, StepFoundOnce, StepMerged, StepReasoned DEF Inv

\* One socket presenting one certificate is one finding, however many names it
\* answers to, whichever address family lists it, and, where the list is the host's
\* own table, at one location (recorded, dedupe, dialAddress).
THEOREM Once == Spec => []OneFindingPerSocket
<1>1. Inv => OneFindingPerSocket
  BY DEF Inv, Merged
<1>2. QED BY <1>1, InitInv, StepInv, PTL DEF Spec

\* A sweep of the host's own table that does not count has one of the reasons the
\* code means: a port that merely does not speak TLS is not among them
\* (handshake's order of questions).
THEOREM Quiet == Spec => []QuietPortsDoNotSpoil
<1>1. Inv => QuietPortsDoNotSpoil
  BY DEF Inv, Reasoned, Cause, QuietPortsDoNotSpoil
<1>2. QED BY <1>1, InitInv, StepInv, PTL DEF Spec

-----------------------------------------------------------------------------
(* The refinement.                                                         *)

\* A sweep that is about to be called complete has reported all it owes: every
\* listener was a target, its goroutine is done, and what it presented is merged.
LEMMA CompleteIsAll ==
  ASSUME Inv, main = "merge", next > Len(targets), completed
  PROVE  Owed \subseteq Findings
<1> SUFFICES ASSUME NEW f \in Owed PROVE f \in Findings
  OBVIOUS
<1>1. DOMAIN service = Addresses /\ targets \in Seq(First) /\ DOMAIN targets = 1..Len(targets)
      /\ Len(targets) \in Nat /\ next \in Nat
  BY BoundsAssumption DEF Inv, Inv1, Shapes
<1>2. /\ ~cancelled /\ f[2] \in Certificate
      /\ f = <<f[1], f[2]>> /\ <<f[1], 1>> \notin silent
  <2>1. ~cancelled /\ f \in Finding /\ <<f[1], 1>> \notin silent
    BY DEF Owed
  <2>2. f[2] \in Certificate /\ f = <<f[1], f[2]>>
    BY <2>1 DEF Finding
  <2>3. QED BY <2>1, <2>2
<1>3. PICK p \in 1..Probes : service[f[1]][p] = f[2] /\ <<f[1], p>> \notin silent
  BY DEF Owed
<1>4. PICK i \in DOMAIN targets : DialAddress(targets[i]) = f[1] /\ probe[i] # "none"
  <2>1. PICK s \in First : f[1] = DialAddress(s)
    BY DEF Owed
  <2>2. PICK i \in DOMAIN targets : targets[i] = s
    BY DEF Inv, Chosen
  <2>3. QED BY <2>1, <2>2 DEF Inv, Chosen
<1>5. i \in Index /\ probe[i] = "done"
  BY <1>4, TargetAddress DEF Inv, Inv1, Control
<1>6. i < next
  BY <1>1
<1>7. ~incomplete[i] /\ \A c \in Elements(found[i]) : <<targets[i], c>> \in Elements(observations)
  BY <1>6 DEF Inv, Merged
<1>8. Speaks(i)
  BY <1>2, <1>4 DEF Speaks
<1>9. /\ \A x \in 1..asked[i] :
           service[f[1]][x] \in Certificate /\ <<f[1], x>> \notin silent => service[f[1]][x] \in Elements(found[i])
      /\ asked[i] < Probes => \A x \in 1..Probes : service[f[1]][x] \notin Certificate
  BY <1>2, <1>4, <1>5, <1>7, <1>8 DEF Inv, Covered
<1>10. asked[i] = Probes
  <2>1. ~(asked[i] < Probes) /\ asked[i] \in 0..Probes
    BY <1>2, <1>3, <1>5, <1>9 DEF Inv, Inv1, Counters
  <2>2. QED BY <2>1, BoundsAssumption
<1>11. f[2] \in Elements(found[i])
  BY <1>2, <1>3, <1>9, <1>10
<1>12. <<targets[i], f[2]>> \in Elements(observations)
  BY <1>7, <1>11
<1>13. <<DialAddress(targets[i]), f[2]>> \in Findings
  BY <1>12 DEF Findings
<1>14. QED BY <1>2, <1>4, <1>13

\* What is owed only shrinks: when a listener was too loaded to answer, or the run
\* is cancelled.
LEMMA OwedShrinks ==
  ASSUME Inv1, [Next]_vars
  PROVE  Owed' \subseteq Owed /\ Finding' = Finding
<1>1. UNCHANGED hostVars /\ (cancelled => cancelled')
  BY CauseStays
<1>2. silent \subseteq silent'
  <2>1. ASSUME NEW i \in Index, Probe(i) PROVE silent \subseteq silent'
    <3>1. PICK e : Comes(i, e)
      BY <2>1, ProbeOutcome
    <3>2. QED BY <3>1 DEF Comes
  <2>2. CASE UNCHANGED historyVars
    BY <2>2 DEF historyVars
  <2>3. QED BY <2>1, <2>2 DEF Next, Collect, Goroutine, Cancel, Begin, Spawn, Wait, Merge, Return, Acquire, vars, poolVars
<1>3. Finding' = Finding
  BY DEF Finding, Listed, Lists, DialAddress, Elements
<1>4. swept' = swept /\ service' = service /\ First' = First
  BY <1>1, HostStays
<1>5. QED BY <1>1, <1>2, <1>3, <1>4 DEF Owed

\* The sweep keeps the promise of Sweep, however the goroutines interleave and
\* whatever times out, refuses or is cut off: it is called complete only when it
\* has reported all it owes (Completed, probeUnknown).
THEOREM Refinement == Spec => ImplementsSweep
<1>1. Init => S!Init
  BY DEF Init, S!Init, Owed, Findings, Elements
<1>2. ASSUME Inv, [Next]_vars PROVE [S!Next]_(S!vars)
  <2>1. Owed' \subseteq Owed /\ Owed \subseteq Finding /\ Finding' = Finding
    BY <1>2, OwedShrinks DEF Inv, Owed
  <2>2. CASE Merge
    <3>1. main = "merge" /\ main' = "merge"
      BY <2>2 DEF Merge, poolVars
    <3>2. Elements(observations) \subseteq Elements(observations')
      <4>1. PICK n \in Nat :
              LET L == Len(observations)
              IN /\ L \in Nat /\ DOMAIN observations' = 1..(L + n)
                 /\ \A k \in 1..L : observations'[k] = observations[k]
        BY <1>2, <2>2, MergeAppends DEF Inv
      <4>2. DOMAIN observations = 1..Len(observations)
        BY <1>2 DEF Inv, Inv1, Recorded
      <4>3. QED BY <4>1, <4>2 DEF Elements
    <3>3. Findings \subseteq Findings'
      BY <3>2 DEF Findings, DialAddress
    <3>4. Findings' \subseteq Finding
      <4>1. Elements(observations') \subseteq Listed \X Certificate
        <5>1. Listed' = Listed
          BY DEF Listed, Lists, Elements
        <5>2. observations' \in Seq(Listed \X Certificate)
          BY <1>2, <5>1, StepInv DEF Inv, Inv1, Recorded
        <5>3. QED BY <5>2 DEF Elements
      <4>2. QED BY <4>1 DEF Findings, Finding, DialAddress
    <3>5. S!Report
      BY <2>1, <3>1, <3>3, <3>4 DEF S!Report
    <3>6. QED BY <3>5 DEF S!Next
  <2>3. CASE Return
    <3>1. /\ main = "merge" /\ main' = "returned" /\ next > Len(targets)
          /\ UNCHANGED <<hostVars, cancelled, observations, completed, silent>>
      BY <2>3 DEF Return, resultVars, historyVars, poolVars
    <3>2. Owed' = Owed /\ Findings' = Findings
      BY <2>1, <3>1, HostStays DEF Owed, Findings, Elements, DialAddress
    <3>3. completed => Owed \subseteq Findings
      BY <1>2, <3>1, CompleteIsAll
    <3>4. S!Say
      BY <3>1, <3>2, <3>3 DEF S!Say
    <3>5. QED BY <3>4 DEF S!Next
  <2>4. CASE ~Merge /\ ~Return
    <3>1. \/ main # "returned" /\ main' # "returned" /\ observations' = observations
          \/ UNCHANGED vars
      <4>1. ASSUME NEW i \in Index, Acquire(i) \/ Probe(i)
            PROVE  main # "returned" /\ main' = main /\ observations' = observations
        <5>1. probe[i] \in {"gate", "open"} /\ main' = main /\ observations' = observations
          BY <4>1 DEF Acquire, Probe, resultVars
        <5>2. QED BY <1>2, <5>1 DEF Inv, Inv1, Control
      <4>2. CASE Cancel
        BY <4>2 DEF Cancel, resultVars, poolVars
      <4>3. CASE Begin \/ Spawn \/ Wait
        BY <4>3 DEF Begin, Spawn, Wait, resultVars, poolVars
      <4>4. QED BY <1>2, <2>4, <4>1, <4>2, <4>3 DEF Next, Collect, Goroutine
    <3>2. CASE main # "returned" /\ main' # "returned" /\ observations' = observations
      <4>1. S!Excuse
        BY <2>1, <3>2 DEF S!Excuse, Findings, Elements, DialAddress
      <4>2. QED BY <4>1 DEF S!Next
    <3>3. CASE UNCHANGED vars
      BY <3>3 DEF vars, hostVars, resultVars, historyVars, S!vars, Owed, First, Findings, Elements, Key, DialAddress, poolVars
    <3>4. QED BY <3>1, <3>2, <3>3
  <2>5. QED BY <2>2, <2>3, <2>4
<1>3. QED BY <1>1, <1>2, InitInv, StepInv, PTL DEF Spec, ImplementsSweep, S!Spec

=============================================================================
