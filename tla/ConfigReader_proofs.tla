------------------------ MODULE ConfigReader_proofs ------------------------
(***************************************************************************)
(* Theorems about ConfigReader, and about the collector of certificate     *)
(* stores that runs before it, for any stores, configurations and bounds:  *)
(*                                                                         *)
(*   StoresRefinement    os_store keeps the promise of Sweep               *)
(*   TypeCorrect         the shapes, the bounds on files, depth and room   *)
(*   GoneIsSeen          a sweep is incomplete only for something unseen   *)
(***************************************************************************)
EXTENDS ConfigReader, FiniteSetTheorems, SequenceTheorems, TLAPS

-----------------------------------------------------------------------------
(* The folds, each of its step.                                            *)

EntryStep(os, s, q, e) == IF e.parses THEN Append(q, Entry(os, s, e)) ELSE q
EntryFold == INSTANCE Folding WITH Op <- EntryStep

CertificateStep(same, also, q, n) ==
  IF n.op = "certificate" /\ n.value # NoFile THEN Append(q, n.value) ELSE q
CertificateFold == INSTANCE Folding WITH Op <- CertificateStep

EnteredStep(same, also, q, x) == Entered(q, x)
EnteredFold == INSTANCE Folding WITH Op <- EnteredStep

LevelStep(same, also, q, k) == FoldLeft(Entered, <<>>, q)
LevelFold == INSTANCE Folding WITH Op <- LevelStep

PlacedStep(same, also, q, site) == Placed(q, site)
PlacedFold == INSTANCE Folding WITH Op <- PlacedStep

BindingStep(iis, also, q, b) ==
  IF Presented(iis, b)
  THEN Append(q, [location |-> <<"IIS", b.site>>, cert |-> Filed(iis, b)[1].cert])
  ELSE q
BindingFold == INSTANCE Folding WITH Op <- BindingStep

LEMMA EntriesIs ==
  ASSUME NEW os, NEW s
  PROVE  Entries(os, s)
           = EntryFold!Over(os, s, <<>>,
               SubSeq(s.entries, 1, IF s.state = "broken off" THEN Len(s.entries) \div 2 ELSE Len(s.entries)))
BY Zenon DEF Entries, FoldLeft, EntryFold!Over, EntryFold!FoldLeft, MapThenFoldSet,
             EntryFold!MapThenFoldSet, Max, EntryFold!Max, EntryStep

LEMMA CertificatesIs ==
  ASSUME NEW nodes
  PROVE  Certificates(nodes) = CertificateFold!Over(0, 0, <<>>, nodes)
BY Zenon DEF Certificates, FoldLeft, CertificateFold!Over, CertificateFold!FoldLeft, MapThenFoldSet,
             CertificateFold!MapThenFoldSet, Max, CertificateFold!Max, CertificateStep

LEMMA EnteredIs ==
  ASSUME NEW q
  PROVE  FoldLeft(Entered, <<>>, q) = EnteredFold!Over(0, 0, <<>>, q)
BY Zenon DEF FoldLeft, EnteredFold!Over, EnteredFold!FoldLeft, MapThenFoldSet,
             EnteredFold!MapThenFoldSet, Max, EnteredFold!Max, EnteredStep

LEMMA PlacementsIs ==
  ASSUME NEW srv, NEW nodes
  PROVE  Placements(srv, nodes) = PlacedFold!Over(0, 0, <<>>, SitesIn(srv, nodes))
BY Zenon DEF Placements, FoldLeft, PlacedFold!Over, PlacedFold!FoldLeft, MapThenFoldSet,
             PlacedFold!MapThenFoldSet, Max, PlacedFold!Max, PlacedStep

LEMMA IISObservationsIs ==
  ASSUME NEW iis
  PROVE  IISObservations(iis) = BindingFold!Over(iis, 0, <<>>, iis.bindings)
BY Zenon DEF IISObservations, FoldLeft, BindingFold!Over, BindingFold!FoldLeft, MapThenFoldSet,
             BindingFold!MapThenFoldSet, Max, BindingFold!Max, BindingStep

TopOf(nodes) == <<[node |-> Node("section", "", "", nodes), level |-> <<>>]>>
LEMMA SitesInIs ==
  ASSUME NEW srv, NEW nodes
  PROVE  LET found == LevelFold!Over(0, 0, TopOf(nodes), Levels)
         IN SitesIn(srv, nodes) = [i \in DOMAIN found |-> Site(srv, found[i].node, found[i].level)]
BY Zenon DEF SitesIn, TopOf, FoldLeft, LevelFold!Over, LevelFold!FoldLeft, MapThenFoldSet,
             LevelFold!MapThenFoldSet, Max, LevelFold!Max, LevelStep

-----------------------------------------------------------------------------
(* Sequences.                                                              *)

LEMMA Members ==
  ASSUME NEW C, NEW q \in Seq(C)
  PROVE  ToSet(q) \subseteq C /\ q \in Seq(ToSet(q)) /\ DOMAIN q = 1..Len(q) /\ Len(q) \in Nat
BY DEF ToSet

LEMMA AppendSet ==
  ASSUME NEW C, NEW q \in Seq(C), NEW c \in C
  PROVE  ToSet(Append(q, c)) = ToSet(q) \cup {c}
<1>1. /\ Append(q, c) \in Seq(C)
      /\ DOMAIN q = 1..Len(q) /\ DOMAIN Append(q, c) = 1..(Len(q) + 1) /\ Len(q) \in Nat
      /\ \A i \in 1..Len(q) : Append(q, c)[i] = q[i]
      /\ Append(q, c)[Len(q) + 1] = c
  OBVIOUS
<1> DEFINE more == Append(q, c)
<1> HIDE DEF more
<1>2. 1..(Len(q) + 1) = (1..Len(q)) \cup {Len(q) + 1}
  BY <1>1
<1>3. \A x \in ToSet(more) : x \in ToSet(q) \cup {c}
  BY <1>1, <1>2 DEF ToSet, more
<1>4. \A x \in ToSet(q) \cup {c} : x \in ToSet(more)
  BY <1>1, <1>2 DEF ToSet, more
<1>5. QED BY <1>3, <1>4 DEF more

LEMMA JoinSet ==
  ASSUME NEW C, NEW q \in Seq(C), NEW r \in Seq(C)
  PROVE  q \o r \in Seq(C) /\ ToSet(q \o r) = ToSet(q) \cup ToSet(r)
<1>1. /\ q \o r \in Seq(C) /\ Len(q) \in Nat /\ Len(r) \in Nat
      /\ Len(q \o r) = Len(q) + Len(r)
      /\ \A i \in 1..Len(q) : (q \o r)[i] = q[i]
      /\ \A i \in 1..Len(r) : (q \o r)[Len(q) + i] = r[i]
      /\ \A i \in (Len(q) + 1)..(Len(q) + Len(r)) : (q \o r)[i] = r[i - Len(q)]
  OBVIOUS
<1>2. DOMAIN q = 1..Len(q) /\ DOMAIN r = 1..Len(r) /\ DOMAIN (q \o r) = 1..(Len(q) + Len(r))
  BY <1>1
<1> DEFINE both == q \o r
<1> HIDE DEF both
<1>3. \A x \in ToSet(q) : x \in ToSet(both)
  <2>1. \A i \in 1..Len(q) : i \in 1..(Len(q) + Len(r))
    BY <1>1
  <2>2. QED BY <1>1, <1>2, <2>1 DEF ToSet, both
<1>4. \A x \in ToSet(r) : x \in ToSet(both)
  <2>1. \A i \in 1..Len(r) : Len(q) + i \in 1..(Len(q) + Len(r))
    BY <1>1
  <2>2. QED BY <1>1, <1>2, <2>1 DEF ToSet, both
<1>5. \A x \in ToSet(both) : x \in ToSet(q) \cup ToSet(r)
  <2>1. TAKE x \in ToSet(both)
  <2>2. PICK i \in 1..(Len(q) + Len(r)) : x = both[i]
    BY <1>2 DEF ToSet, both
  <2>3. CASE i <= Len(q)
    <3>1. i \in 1..Len(q)
      BY <1>1, <2>2, <2>3
    <3>2. QED BY <1>1, <1>2, <2>2, <3>1 DEF ToSet, both
  <2>4. CASE ~(i <= Len(q))
    <3>1. i \in (Len(q) + 1)..(Len(q) + Len(r)) /\ i - Len(q) \in 1..Len(r)
      BY <1>1, <2>2, <2>4
    <3>2. QED BY <1>1, <1>2, <2>2, <3>1 DEF ToSet, both
  <2>5. QED BY <2>3, <2>4
<1>6. QED BY <1>1, <1>3, <1>4, <1>5 DEF both

LEMMA FirstSet ==
  ASSUME NEW C, NEW q \in Seq(C), NEW n \in 0..Len(q)
  PROVE  /\ SubSeq(q, 1, n) \in Seq(C) /\ Len(SubSeq(q, 1, n)) = n
         /\ \A i \in 1..n : SubSeq(q, 1, n)[i] = q[i]
         /\ ToSet(SubSeq(q, 1, n)) \subseteq ToSet(q)
<1>1. SubSeq(q, 1, n) \in Seq(C) /\ Len(SubSeq(q, 1, n)) = n /\ \A i \in 1..n : SubSeq(q, 1, n)[i] = q[i]
  OBVIOUS
<1>2. DOMAIN SubSeq(q, 1, n) = 1..n /\ \A i \in 1..n : i \in DOMAIN q
  BY <1>1
<1>3. QED BY <1>1, <1>2 DEF ToSet

LEMMA HeadTail ==
  ASSUME NEW C, NEW q \in Seq(C), q # <<>>
  PROVE  /\ Head(q) \in ToSet(q) /\ Tail(q) \in Seq(C) /\ Len(Tail(q)) = Len(q) - 1
         /\ ToSet(q) = {Head(q)} \cup ToSet(Tail(q))
<1>1. /\ Len(q) \in Nat \ {0} /\ DOMAIN q = 1..Len(q) /\ Head(q) = q[1]
      /\ Tail(q) \in Seq(C) /\ Len(Tail(q)) = Len(q) - 1
      /\ \A i \in 1..(Len(q) - 1) : Tail(q)[i] = q[i + 1]
  OBVIOUS
<1>2. DOMAIN Tail(q) = 1..(Len(q) - 1)
  BY <1>1
<1>3. 1 \in DOMAIN q /\ \A i \in 1..(Len(q) - 1) : i + 1 \in DOMAIN q
  BY <1>1
<1>4. \A x \in ToSet(q) : x \in {Head(q)} \cup ToSet(Tail(q))
  <2>1. TAKE x \in ToSet(q)
  <2>2. PICK i \in DOMAIN q : x = q[i]
    BY DEF ToSet
  <2>3. CASE i = 1
    BY <1>1, <2>2, <2>3
  <2>4. CASE i # 1
    <3>1. i - 1 \in 1..(Len(q) - 1) /\ (i - 1) + 1 = i
      BY <1>1, <2>2, <2>4
    <3>2. Tail(q)[i - 1] = x
      BY <1>1, <2>2, <3>1
    <3>3. QED BY <1>2, <3>1, <3>2 DEF ToSet
  <2>5. QED BY <2>3, <2>4
<1>5. \A x \in {Head(q)} \cup ToSet(Tail(q)) : x \in ToSet(q)
  BY <1>1, <1>2, <1>3 DEF ToSet
<1>6. QED BY <1>1, <1>3, <1>4, <1>5 DEF ToSet

-----------------------------------------------------------------------------
(* Stores.                                                                 *)

\* What can be read of the stores there are.
Found(os) ==
  UNION {{Entry(os, s, e) : e \in {e \in ToSet(s.entries) : e.parses}} :
           s \in {s \in ToSet(os.stores) : s.state \notin {"absent", "denied"}}}

\* What a complete sweep owes of a store.
Owes(os, s, e) ==
  /\ ~e.ca /\ (e.self => e.key) /\ s.state # "absent" /\ s.name \notin os.anchors
  /\ s.state # "broken off" /\ e.parses /\ (e.self => HasPrivateKey(os, e))

\* Entries takes every certificate that parses, and a prefix when the enumeration
\* breaks off.
LEMMA EntriesFacts ==
  ASSUME NEW os, NEW s \in ToSet(os.stores), s.entries \in Seq(ToSet(s.entries)),
         s.state \notin {"absent", "denied"}
  PROVE  /\ Entries(os, s) \in Seq(Found(os))
         /\ s.state # "broken off" =>
              \A e \in ToSet(s.entries) : e.parses => Entry(os, s, e) \in ToSet(Entries(os, s))
<1> DEFINE n == IF s.state = "broken off" THEN Len(s.entries) \div 2 ELSE Len(s.entries)
           q == SubSeq(s.entries, 1, n)
<1>1. Len(s.entries) \in Nat /\ n \in 0..Len(s.entries)
  <2>1. Len(s.entries) \in Nat
    OBVIOUS
  <2>2. \A k \in Nat : k \div 2 \in 0..k /\ k \in 0..k
    OBVIOUS
  <2>3. QED BY <2>1, <2>2
<1>2. q \in Seq(ToSet(s.entries))
  <2> HIDE DEF n
  <2>1. QED BY <1>1, FirstSet
<1>3. \A e \in ToSet(s.entries) : e.parses => Entry(os, s, e) \in Found(os)
  BY DEF Found
<1> DEFINE Holds == [i \in 0..Len(q) |-> {r \in Seq(Found(os)) :
                       \A j \in 1..i : q[j].parses => Entry(os, s, q[j]) \in ToSet(r)}]
<1>4. Len(q) \in Nat /\ DOMAIN q = 1..Len(q) /\ 0 \in 0..Len(q) /\ Len(q) \in 0..Len(q)
  <2> HIDE DEF q
  <2>1. QED BY <1>2
<1>5. <<>> \in Holds[0]
  <2> HIDE DEF q
  <2>1. <<>> \in Seq(Found(os)) /\ 1..0 = {}
    OBVIOUS
  <2>2. QED BY <1>4, <2>1
<1>6. ASSUME NEW i \in DOMAIN q, NEW r \in Holds[i - 1]
      PROVE  EntryStep(os, s, r, q[i]) \in Holds[i]
  <2> HIDE DEF q
  <2>1. i - 1 \in 0..Len(q) /\ i \in 0..Len(q) /\ q[i] \in ToSet(s.entries) /\ i \in 1..Len(q)
    BY <1>2, <1>4
  <2>2. r \in Seq(Found(os)) /\ \A j \in 1..(i - 1) : q[j].parses => Entry(os, s, q[j]) \in ToSet(r)
    BY <2>1
  <2>3. \A j \in 1..i : j = i \/ j \in 1..(i - 1)
    BY <2>1
  <2>4. CASE q[i].parses
    <3>1. EntryStep(os, s, r, q[i]) = Append(r, Entry(os, s, q[i])) /\ Entry(os, s, q[i]) \in Found(os)
      BY <1>3, <2>1, <2>4 DEF EntryStep
    <3> DEFINE x == Entry(os, s, q[i])
    <3>2. Append(r, x) \in Seq(Found(os)) /\ ToSet(Append(r, x)) = ToSet(r) \cup {x}
      <4> HIDE DEF x
      <4>1. x \in Found(os)
        BY <3>1 DEF x
      <4>2. QED BY <2>2, <4>1, AppendSet
    <3>3. \A j \in 1..i : q[j].parses => Entry(os, s, q[j]) \in ToSet(Append(r, x))
      BY <2>2, <2>3, <3>2
    <3> HIDE DEF x
    <3>4. Append(r, x) \in Holds[i]
      BY <2>1, <3>2, <3>3
    <3>5. QED BY <3>1, <3>4 DEF x
  <2>5. CASE ~q[i].parses
    <3>1. EntryStep(os, s, r, q[i]) = r
      BY <2>5 DEF EntryStep
    <3>2. \A j \in 1..i : q[j].parses => Entry(os, s, q[j]) \in ToSet(r)
      BY <2>2, <2>3, <2>5
    <3>3. QED BY <2>1, <2>2, <3>1, <3>2
  <2>6. QED BY <2>4, <2>5
<1>7. EntryFold!Over(os, s, <<>>, q) \in Holds[Len(q)]
  <2> HIDE DEF Holds, q
  <2>1. QED BY <1>2, <1>5, <1>6, EntryFold!FoldInduction, SMT
<1>8. Entries(os, s) = EntryFold!Over(os, s, <<>>, q)
  BY EntriesIs
<1> HIDE DEF q
<1>9. Entries(os, s) \in Seq(Found(os)) /\ \A j \in 1..Len(q) : q[j].parses => Entry(os, s, q[j]) \in ToSet(Entries(os, s))
  BY <1>4, <1>7, <1>8
<1>10. s.state # "broken off" => q = s.entries
  <2>1. s.state # "broken off" => q = SubSeq(s.entries, 1, Len(s.entries))
    BY DEF q
  <2>2. SubSeq(s.entries, 1, Len(s.entries)) = s.entries
    OBVIOUS
  <2>3. QED BY <2>1, <2>2
<1>11. QED BY <1>4, <1>9, <1>10 DEF ToSet

\* What was read, what is left of it, and what was reported: as long as the sweep
\* may be complete, all that is owed of the stores asked for is still held or was
\* reported.
StoresInv ==
  /\ host \in Hosts
  /\ asked \in 0..Len(OS.stores)
  /\ stores \in {"reading", "recording", "returned"}
  /\ storesSeen \in BOOLEAN
  /\ held \in Seq(Found(OS))
  /\ inStores \in Seq(ToSet(inStores))
  /\ \A p \in ToSet(inStores) : \E x \in Found(OS) : ~TrustAnchor(x) /\ p = <<x.store, x.cert>>
  /\ storesSeen =>
       \A i \in 1..asked : \A e \in ToSet(OS.stores[i].entries) :
         Owes(OS, OS.stores[i], e) =>
           \/ <<OS.stores[i].name, e.cert>> \in ToSet(inStores)
           \/ Entry(OS, OS.stores[i], e) \in ToSet(held)
  /\ stores # "reading" /\ storesSeen => asked = Len(OS.stores)
  /\ stores = "returned" /\ storesSeen => held = <<>>

\* What is owed is not taken for a trust anchor.
LEMMA OwedIsNoAnchor ==
  ASSUME NEW s, NEW e, Owes(OS, s, e)
  PROVE  ~TrustAnchor(Entry(OS, s, e))
<1> DEFINE x == Entry(OS, s, e)
<1>1. x.store = s.name /\ x.ca = e.ca /\ x.self = e.self /\ x.key = HasPrivateKey(OS, e)
  BY DEF Entry
<1>2. e.self => HasPrivateKey(OS, e)
  BY DEF Owes
<1>3. s.name \notin OS.anchors /\ ~e.ca
  BY DEF Owes
<1> HIDE DEF x
<1>4. ~TrustAnchor(x)
  BY <1>1, <1>2, <1>3, Zenon DEF TrustAnchor
<1>5. QED BY <1>4 DEF x

\* What is found and is no trust anchor is served.
LEMMA FoundIsServed ==
  ASSUME NEW x \in Found(OS), ~TrustAnchor(x)
  PROVE  <<x.store, x.cert>> \in Served(OS)
<1>0. PICK s \in ToSet(OS.stores) :
        s.state \notin {"absent", "denied"} /\ \E e \in ToSet(s.entries) : e.parses /\ x = Entry(OS, s, e)
  BY DEF Found
<1>1. PICK e \in ToSet(s.entries) : x = Entry(OS, s, e)
  BY <1>0
<1>2. x.store = s.name /\ x.cert = e.cert /\ x.ca = e.ca /\ x.self = e.self /\ x.key = HasPrivateKey(OS, e)
  BY <1>1 DEF Entry
<1>3. x.store \notin OS.anchors /\ ~x.ca /\ (x.self => x.key)
  BY Zenon DEF TrustAnchor
<1>4. ~e.ca /\ s.name \notin OS.anchors
  BY <1>2, <1>3
<1>5. e.self => e.key
  BY <1>2, <1>3, Zenon DEF HasPrivateKey
<1>6. e \in {e_1 \in ToSet(s.entries) : ~e_1.ca /\ (e_1.self => e_1.key)}
  BY <1>4, <1>5
<1>7. s \in {s_1 \in ToSet(OS.stores) : s_1.state # "absent" /\ s_1.name \notin OS.anchors}
  BY <1>0, <1>4
<1>8. <<s.name, e.cert>> \in Served(OS)
  <2>1. <<s.name, e.cert>> \in {<<s.name, e_1.cert>> : e_1 \in {e_1 \in ToSet(s.entries) : ~e_1.ca /\ (e_1.self => e_1.key)}}
    BY <1>6
  <2>2. QED BY <1>7, <2>1 DEF Served
<1>9. QED BY <1>2, <1>8

LEMMA InitStores == Init => StoresInv
<1> SUFFICES ASSUME Init PROVE StoresInv
  OBVIOUS
<1>1. /\ host \in Hosts /\ asked = 0 /\ held = <<>> /\ inStores = <<>> /\ storesSeen = TRUE
      /\ stores = "reading"
  BY DEF Init, StoresInit
<1>2. OS.stores \in Seq(ToSet(OS.stores))
  BY <1>1, StoresAssumption DEF OS
<1>3. Len(OS.stores) \in Nat
  BY <1>2
<1>4. asked \in 0..Len(OS.stores) /\ 1..asked = {}
  BY <1>1, <1>3
<1>5. ToSet(inStores) = {} /\ inStores \in Seq(ToSet(inStores)) /\ held \in Seq(Found(OS))
  BY <1>1 DEF ToSet
<1>6. QED BY <1>1, <1>4, <1>5 DEF StoresInv

\* No other step touches the stores.
LEMMA OthersLeaveStores == Collect \/ Cancel => UNCHANGED <<host, asked, held, inStores, storesSeen, stores>>
<1>1. Start \/ Absent \/ Begin \/ RecordSite => UNCHANGED <<host, asked, held, inStores, storesSeen, stores>>
  BY DEF Start, Absent, Begin, RecordSite, storeVars
<1>2. IIS \/ Return \/ Stop \/ Cancel => UNCHANGED <<host, asked, held, inStores, storesSeen, stores>>
  BY DEF IIS, Return, Stop, Cancel, storeVars
<1>3. Directive \/ ServerRoot \/ Include \/ Section \/ EndSection
        => UNCHANGED <<host, asked, held, inStores, storesSeen, stores>>
  BY DEF Directive, ServerRoot, Include, Section, EndSection, storeVars
<1>4. EndFile \/ Broken \/ Splice => UNCHANGED <<host, asked, held, inStores, storesSeen, stores>>
  BY DEF EndFile, Broken, Splice, storeVars
<1>5. QED BY <1>1, <1>2, <1>3, <1>4 DEF Collect, Parse

LEMMA ReadStoreKeeps == StoresInv /\ ReadStore => StoresInv'
<1> SUFFICES ASSUME StoresInv, ReadStore PROVE StoresInv'
  OBVIOUS
<1> DEFINE s == OS.stores[asked + 1]
<1>1. /\ stores = "reading" /\ asked < Len(OS.stores) /\ asked' = asked + 1
      /\ UNCHANGED <<host, inStores, stores>>
      /\ IF s.state \in {"absent", "denied"}
         THEN storesSeen' = (storesSeen /\ ~Failed(s)) /\ UNCHANGED held
         ELSE held' = held \o Entries(OS, s) /\ UNCHANGED storesSeen
  BY Zenon DEF ReadStore
<1>2. /\ host \in Hosts /\ asked \in 0..Len(OS.stores) /\ storesSeen \in BOOLEAN
      /\ held \in Seq(Found(OS)) /\ inStores \in Seq(ToSet(inStores)) /\ OS' = OS
  BY <1>1 DEF StoresInv, OS
<1>3. OS.stores \in Seq(ToSet(OS.stores)) /\ \A x \in ToSet(OS.stores) : x.entries \in Seq(ToSet(x.entries))
  BY <1>2, StoresAssumption DEF OS
<1>4. Len(OS.stores) \in Nat /\ DOMAIN OS.stores = 1..Len(OS.stores)
  BY <1>3
<1>5. asked + 1 \in 1..Len(OS.stores) /\ asked' \in 0..Len(OS.stores)
  BY <1>1, <1>2, <1>4
<1>6. s \in ToSet(OS.stores)
  BY <1>4, <1>5 DEF ToSet
<1>7. \A i \in 1..asked' : i \in 1..asked \/ i = asked + 1
  BY <1>1, <1>2, <1>4
<1> HIDE DEF s
<1> DEFINE Kept(i, e, seen, h) ==
             \/ <<OS.stores[i].name, e.cert>> \in ToSet(inStores)
             \/ Entry(OS, OS.stores[i], e) \in ToSet(h)
<1>8. storesSeen => \A i \in 1..asked : \A e \in ToSet(OS.stores[i].entries) :
         Owes(OS, OS.stores[i], e) => Kept(i, e, storesSeen, held)
  BY DEF StoresInv
<1>9. CASE s.state \in {"absent", "denied"}
  <2>1. storesSeen' = (storesSeen /\ ~Failed(s)) /\ held' = held
    BY <1>1, <1>9
  <2>2. storesSeen' \in BOOLEAN
    BY <2>1
  <2>3. storesSeen' => storesSeen /\ s.state = "absent"
    BY <1>9, <2>1 DEF Failed
  <2>4. s.state = "absent" => \A e : ~Owes(OS, s, e)
    BY DEF Owes
  <2>5. storesSeen' => \A i \in 1..asked' : \A e \in ToSet(OS.stores[i].entries) :
         Owes(OS, OS.stores[i], e) => Kept(i, e, storesSeen', held')
    <3> HIDE DEF Kept
    <3>1. SUFFICES ASSUME storesSeen', NEW i \in 1..asked', NEW e \in ToSet(OS.stores[i].entries),
                          Owes(OS, OS.stores[i], e)
                   PROVE  Kept(i, e, storesSeen', held')
      OBVIOUS
    <3>2. i \in 1..asked
      BY <1>7, <2>3, <2>4, <3>1 DEF s
    <3>3. Kept(i, e, storesSeen, held)
      BY <1>8, <2>3, <3>1, <3>2
    <3>4. QED BY <2>1, <3>3 DEF Kept
  <2>6. QED BY <1>1, <1>2, <1>5, <2>1, <2>2, <2>5 DEF StoresInv, TrustAnchor
<1>10. CASE s.state \notin {"absent", "denied"}
  <2>1. held' = held \o Entries(OS, s) /\ storesSeen' = storesSeen
    BY <1>1, <1>10
  <2>2. /\ Entries(OS, s) \in Seq(Found(OS))
        /\ s.state # "broken off" =>
             \A e \in ToSet(s.entries) : e.parses => Entry(OS, s, e) \in ToSet(Entries(OS, s))
    BY <1>3, <1>6, <1>10, EntriesFacts
  <2>3. held' \in Seq(Found(OS)) /\ ToSet(held') = ToSet(held) \cup ToSet(Entries(OS, s))
    <3> DEFINE C == Found(OS)
               more == Entries(OS, s)
    <3>1. held \in Seq(C) /\ more \in Seq(C) /\ held' = held \o more
      BY <1>2, <2>1, <2>2
    <3> HIDE DEF C, more
    <3>2. held' \in Seq(C) /\ ToSet(held') = ToSet(held) \cup ToSet(more)
      BY <3>1, JoinSet
    <3>3. QED BY <3>2 DEF C, more
  <2>4. storesSeen' => \A i \in 1..asked' : \A e \in ToSet(OS.stores[i].entries) :
         Owes(OS, OS.stores[i], e) => Kept(i, e, storesSeen', held')
    <3> HIDE DEF Kept
    <3>1. SUFFICES ASSUME storesSeen', NEW i \in 1..asked', NEW e \in ToSet(OS.stores[i].entries),
                          Owes(OS, OS.stores[i], e)
                   PROVE  Kept(i, e, storesSeen', held')
      OBVIOUS
    <3>2. CASE i \in 1..asked
      <4>1. Kept(i, e, storesSeen, held)
        BY <1>8, <2>1, <3>1, <3>2
      <4>2. QED BY <2>3, <4>1 DEF Kept
    <3>3. CASE i = asked + 1
      <4>1. s.state # "broken off" /\ e.parses /\ e \in ToSet(s.entries)
        BY <3>1, <3>3 DEF Owes, s
      <4>2. Entry(OS, s, e) \in ToSet(held')
        BY <2>2, <2>3, <4>1
      <4>3. QED BY <3>3, <4>2 DEF Kept, s
    <3>4. QED BY <1>7, <3>2, <3>3
  <2>5. QED BY <1>1, <1>2, <1>5, <2>1, <2>3, <2>4 DEF StoresInv, TrustAnchor
<1>11. QED BY <1>9, <1>10

LEMMA RecordEntryKeeps == StoresInv /\ RecordEntry => StoresInv' /\ ToSet(inStores) \subseteq ToSet(inStores')
<1> SUFFICES ASSUME StoresInv, RecordEntry PROVE StoresInv' /\ ToSet(inStores) \subseteq ToSet(inStores')
  OBVIOUS
<1> DEFINE x == Head(held)
<1>1. /\ stores = "recording" /\ held # <<>>
      /\ IF TrustAnchor(x) THEN held' = Tail(held) /\ UNCHANGED <<room, full, inStores, storesSeen>>
         ELSE IF full \/ room = 0
         THEN full' = TRUE /\ storesSeen' = FALSE /\ held' = <<>> /\ UNCHANGED <<room, inStores>>
         ELSE /\ room' = room - 1 /\ inStores' = Append(inStores, <<x.store, x.cert>>)
              /\ held' = Tail(held) /\ UNCHANGED <<full, storesSeen>>
      /\ UNCHANGED <<host, cancelled, asked, stores>>
  BY Zenon DEF RecordEntry
<1>2. /\ host \in Hosts /\ asked \in 0..Len(OS.stores) /\ storesSeen \in BOOLEAN
      /\ held \in Seq(Found(OS)) /\ inStores \in Seq(ToSet(inStores)) /\ OS' = OS
      /\ \A p \in ToSet(inStores) : \E y \in Found(OS) : ~TrustAnchor(y) /\ p = <<y.store, y.cert>>
      /\ stores # "reading" /\ storesSeen => asked = Len(OS.stores)
  BY <1>1 DEF StoresInv, OS
<1>3. x \in ToSet(held) /\ Tail(held) \in Seq(Found(OS)) /\ ToSet(held) = {x} \cup ToSet(Tail(held))
  BY <1>1, <1>2, HeadTail
<1>4. x \in Found(OS)
  BY <1>2, <1>3, Members
<1> HIDE DEF x
<1>5. storesSeen => \A i \in 1..asked : \A e \in ToSet(OS.stores[i].entries) :
        Owes(OS, OS.stores[i], e) =>
          \/ <<OS.stores[i].name, e.cert>> \in ToSet(inStores)
          \/ Entry(OS, OS.stores[i], e) = x
          \/ Entry(OS, OS.stores[i], e) \in ToSet(Tail(held))
  BY <1>3 DEF StoresInv
<1>6. CASE TrustAnchor(x)
  <2>1. held' = Tail(held) /\ UNCHANGED <<inStores, storesSeen, asked, stores, host>>
    BY <1>1, <1>6
  <2>2. storesSeen' => \A i \in 1..asked : \A e \in ToSet(OS.stores[i].entries) :
          Owes(OS, OS.stores[i], e) =>
            \/ <<OS.stores[i].name, e.cert>> \in ToSet(inStores')
            \/ Entry(OS, OS.stores[i], e) \in ToSet(held')
    BY <1>5, <1>6, <2>1, OwedIsNoAnchor
  <2>3. QED BY <1>1, <1>2, <1>3, <2>1, <2>2 DEF StoresInv, TrustAnchor
<1>7. CASE ~TrustAnchor(x) /\ (full \/ room = 0)
  <2>1. storesSeen' = FALSE /\ held' = <<>> /\ UNCHANGED <<inStores, asked, stores, host>>
    BY <1>1, <1>7
  <2>2. held' \in Seq(Found(OS))
    BY <2>1
  <2>3. QED BY <1>1, <1>2, <2>1, <2>2 DEF StoresInv, TrustAnchor
<1>8. CASE ~TrustAnchor(x) /\ ~(full \/ room = 0)
  <2>1. /\ inStores' = Append(inStores, <<x.store, x.cert>>) /\ held' = Tail(held)
        /\ UNCHANGED <<storesSeen, asked, stores, host>>
    BY <1>1, <1>8
  <2> DEFINE p == <<x.store, x.cert>>
             C == ToSet(inStores) \cup {p}
  <2>2. inStores \in Seq(C) /\ p \in C
    BY <1>2
  <2>3. ToSet(inStores') = C /\ inStores' \in Seq(C)
    <3> HIDE DEF C, p
    <3>1. inStores' = Append(inStores, p)
      BY <2>1 DEF p
    <3>2. ToSet(Append(inStores, p)) = ToSet(inStores) \cup {p} /\ Append(inStores, p) \in Seq(C)
      BY <2>2, AppendSet
    <3>3. QED BY <3>1, <3>2 DEF C
  <2>4. \A q \in ToSet(inStores') : \E y \in Found(OS) : ~TrustAnchor(y) /\ q = <<y.store, y.cert>>
    BY <1>2, <1>4, <1>8, <2>3
  <2>5. storesSeen' => \A i \in 1..asked : \A e \in ToSet(OS.stores[i].entries) :
          Owes(OS, OS.stores[i], e) =>
            \/ <<OS.stores[i].name, e.cert>> \in ToSet(inStores')
            \/ Entry(OS, OS.stores[i], e) \in ToSet(held')
    <3>1. SUFFICES ASSUME storesSeen, NEW i \in 1..asked, NEW e \in ToSet(OS.stores[i].entries),
                          Owes(OS, OS.stores[i], e), Entry(OS, OS.stores[i], e) = x
                   PROVE  <<OS.stores[i].name, e.cert>> = p
      BY <1>5, <2>1, <2>3
    <3>2. x.store = OS.stores[i].name /\ x.cert = e.cert
      BY <3>1 DEF Entry
    <3>3. QED BY <3>2
  <2> HIDE DEF p, C
  <2>6. inStores' \in Seq(ToSet(inStores')) /\ ToSet(inStores) \subseteq ToSet(inStores')
    BY <2>3 DEF C
  <2>7. QED BY <1>1, <1>2, <1>3, <2>1, <2>4, <2>5, <2>6 DEF StoresInv, TrustAnchor
<1>9. QED BY <1>6, <1>7, <1>8

LEMMA StepStores == StoresInv /\ [Next]_vars => StoresInv'
<1> SUFFICES ASSUME StoresInv, [Next]_vars PROVE StoresInv'
  OBVIOUS
<1>1. CASE UNCHANGED <<host, asked, held, inStores, storesSeen, stores>>
  BY <1>1 DEF StoresInv, TrustAnchor, OS
<1>2. CASE NoStores
  <2>1. /\ storesSeen' = FALSE /\ stores' = "returned" /\ UNCHANGED <<host, asked, held, inStores>>
    BY <1>2 DEF NoStores
  <2>2. QED BY <2>1 DEF StoresInv, TrustAnchor, OS
<1>3. CASE AllRead
  <2>1. /\ stores' = "recording" /\ asked = Len(OS.stores)
        /\ UNCHANGED <<host, asked, held, inStores, storesSeen>>
    BY <1>3 DEF AllRead
  <2>2. QED BY <2>1 DEF StoresInv, TrustAnchor, OS
<1>4. CASE StoresReturn
  <2>1. /\ stores = "recording" /\ held = <<>> /\ stores' = "returned"
        /\ UNCHANGED <<host, asked, held, inStores, storesSeen>>
    BY <1>4 DEF StoresReturn
  <2>2. QED BY <2>1 DEF StoresInv, TrustAnchor, OS
<1>5. CASE ReadStore
  BY <1>5, ReadStoreKeeps
<1>6. CASE RecordEntry
  BY <1>6, RecordEntryKeeps
<1>7. CASE UNCHANGED vars
  BY <1>1, <1>7 DEF vars, storeVars
<1>8. QED BY <1>1, <1>2, <1>3, <1>4, <1>5, <1>6, <1>7, OthersLeaveStores DEF Next, StoresNext

LEMMA StoresServe == StoresInv => ToSet(inStores) \subseteq Served(OS)
BY FoundIsServed DEF StoresInv

LEMMA ServedIsStored ==
  ASSUME host \in Hosts, NEW p \in Served(OS)
  PROVE  p \in Stored
<1>1. PICK s \in ToSet(OS.stores) : \E e \in ToSet(s.entries) : p = <<s.name, e.cert>>
  BY DEF Served
<1>2. p \in {s.name} \X {e.cert : e \in ToSet(s.entries)}
  BY <1>1
<1>3. p \in UNION {{s_1.name} \X {e.cert : e \in ToSet(s_1.entries)} : s_1 \in ToSet(host.os.stores)}
  BY <1>2 DEF OS
<1>4. QED BY <1>3 DEF Stored

\* os_store says complete only when it has reported all that the machine serves
\* out of any stores, wherever it is cancelled or refused (OSStore.Collect,
\* readOSStores).
THEOREM StoresRefinement == Spec => StoresImplementSweep
<1> DEFINE Owed == Served(OS) \ (Unread(OS) \cup Keyless(OS))
           Said == IF stores # "returned" THEN "nothing" ELSE IF storesSeen THEN "complete" ELSE "incomplete"
<1>1. host \in Hosts => Owed \subseteq Stored
  BY ServedIsStored
<1>2. StoresInv /\ storesSeen /\ stores # "reading" /\ held = <<>> => Owed \subseteq ToSet(inStores)
  <2>1. SUFFICES ASSUME StoresInv, storesSeen, stores # "reading", held = <<>>, NEW p \in Owed
                 PROVE  p \in ToSet(inStores)
    OBVIOUS
  <2>2. PICK s \in ToSet(OS.stores) : /\ s.state # "absent" /\ s.name \notin OS.anchors
                                      /\ \E e \in ToSet(s.entries) : ~e.ca /\ (e.self => e.key) /\ p = <<s.name, e.cert>>
    BY DEF Served
  <2>3. PICK e \in ToSet(s.entries) : ~e.ca /\ (e.self => e.key) /\ p = <<s.name, e.cert>>
    BY <2>2
  <2>4. ~(s.state = "broken off" \/ ~e.parses)
    <3> DEFINE Goes(x) == s.state = "broken off" \/ ~x.parses
    <3>1. SUFFICES ASSUME Goes(e) PROVE p \in Unread(OS)
      OBVIOUS
    <3>2. p \in {<<s.name, x.cert>> : x \in {x \in ToSet(s.entries) : Goes(x)}}
      BY <2>3, <3>1
    <3>3. QED BY <3>2 DEF Unread
  <2>12. e.self => HasPrivateKey(OS, e)
    <3> DEFINE Goes(x) == x.self /\ ~HasPrivateKey(OS, x)
    <3>1. SUFFICES ASSUME Goes(e) PROVE p \in Keyless(OS)
      OBVIOUS
    <3> HIDE DEF Goes
    <3>2. p \in {<<s.name, x.cert>> : x \in {x \in ToSet(s.entries) : Goes(x)}}
      BY <2>3, <3>1
    <3>3. QED BY <3>2 DEF Keyless, Goes
  <2>5. Owes(OS, s, e)
    BY <2>2, <2>3, <2>4, <2>12, Zenon DEF Owes
  <2>6. host \in Hosts /\ asked = Len(OS.stores)
    BY <2>1 DEF StoresInv
  <2>7. DOMAIN OS.stores = 1..asked
    <3>1. OS.stores \in Seq(ToSet(OS.stores))
      BY <2>6, StoresAssumption DEF OS
    <3>2. QED BY <2>6, <3>1
  <2>8. PICK i \in 1..asked : s = OS.stores[i]
    BY <2>7 DEF ToSet
  <2>9. <<s.name, e.cert>> \in ToSet(inStores) \/ Entry(OS, s, e) \in ToSet(held)
    BY <2>1, <2>5, <2>8 DEF StoresInv
  <2>10. ToSet(held) = {}
    BY <2>1 DEF ToSet
  <2>11. QED BY <2>3, <2>9, <2>10
<1>3. Init => StoresSweep!Init
  <2>1. SUFFICES ASSUME Init PROVE Owed \in SUBSET Stored /\ ToSet(inStores) = {} /\ Said = "nothing"
    BY Zenon DEF StoresSweep!Init
  <2>2. host \in Hosts /\ inStores = <<>> /\ stores = "reading"
    BY <2>1, Zenon DEF Init, StoresInit
  <2>3. ToSet(inStores) = {}
    BY <2>2 DEF ToSet
  <2>4. Owed \in SUBSET Stored
    BY <1>1, <2>2
  <2>5. QED BY <2>2, <2>3, <2>4
<1>4. ASSUME StoresInv, [Next]_vars PROVE [StoresSweep!Next]_(StoresSweep!vars)
  <2>1. host' = host
    <3>1. NoStores \/ ReadStore \/ AllRead \/ RecordEntry \/ StoresReturn => host' = host
      BY Zenon DEF NoStores, ReadStore, AllRead, RecordEntry, StoresReturn
    <3>2. QED BY <1>4, <3>1, OthersLeaveStores DEF Next, StoresNext, vars
  <2>2. Owed' = Owed /\ Stored' = Stored
    BY <2>1 DEF Served, Unread, Keyless, HasPrivateKey, OS, Stored
  <2> HIDE DEF Owed
  <2>3. CASE UNCHANGED <<inStores, storesSeen, stores>>
    <3>1. ToSet(inStores)' = ToSet(inStores) /\ Said' = Said
      BY <2>3 DEF ToSet
    <3>2. QED BY <2>2, <3>1, Zenon DEF StoresSweep!vars, Owed
  <2>4. CASE UNCHANGED inStores /\ stores # "returned" /\ stores' # "returned"
    <3>1. ToSet(inStores)' = ToSet(inStores) /\ Said' = Said
      BY <2>4 DEF ToSet
    <3>2. QED BY <2>2, <3>1, Zenon DEF StoresSweep!vars, Owed
  <2>5. CASE /\ UNCHANGED inStores /\ stores # "returned" /\ stores' = "returned" /\ storesSeen' \in BOOLEAN
             /\ storesSeen' => Owed \subseteq ToSet(inStores)
    <3>1. ToSet(inStores)' = ToSet(inStores) /\ Said = "nothing" /\ Said' = IF storesSeen' THEN "complete" ELSE "incomplete"
      BY <2>5 DEF ToSet
    <3>2. Said' \in {"complete", "incomplete"} /\ (Said' = "complete" => Owed \subseteq ToSet(inStores))
      BY <2>5, <3>1
    <3> HIDE DEF Said
    <3>3. StoresSweep!Say
      BY <2>2, <3>1, <3>2, Zenon DEF StoresSweep!Say, Owed, Said
    <3>4. QED BY <3>3 DEF StoresSweep!Next
  <2>6. CASE RecordEntry
    <3>1. stores = "recording" /\ stores' = "recording" /\ host \in Hosts
      BY <1>4, <2>6 DEF RecordEntry, StoresInv
    <3>2. Said = "nothing" /\ Said' = "nothing"
      BY <3>1
    <3>3. ToSet(inStores) \subseteq ToSet(inStores')
      BY <1>4, <2>6, RecordEntryKeeps
    <3>4. ToSet(inStores') \in SUBSET Stored
      <4>1. StoresInv' /\ host' \in Hosts
        BY <1>4, <2>1, <3>1, StepStores
      <4>2. (ToSet(inStores) \subseteq Served(OS))'
        BY <4>1, StoresServe, PTL
      <4>3. ToSet(inStores') \subseteq Served(OS)
        BY <2>1, <4>2 DEF OS, Served
      <4>4. \A p \in Served(OS) : p \in Stored
        BY <3>1, ServedIsStored
      <4>5. QED BY <4>3, <4>4
    <3> HIDE DEF Said
    <3>5. StoresSweep!Report
      BY <2>2, <3>2, <3>3, <3>4, Zenon DEF StoresSweep!Report, Owed, Said
    <3>6. QED BY <3>5 DEF StoresSweep!Next
  <2>7. CASE NoStores
    <3>1. UNCHANGED inStores /\ stores # "returned" /\ stores' = "returned" /\ storesSeen' = FALSE
      BY <2>7 DEF NoStores
    <3>2. QED BY <2>5, <3>1
  <2>8. CASE StoresReturn
    <3>1. /\ UNCHANGED <<inStores, storesSeen>> /\ stores = "recording" /\ stores' = "returned" /\ held = <<>>
      BY <2>8 DEF StoresReturn
    <3>2. storesSeen \in BOOLEAN
      BY <1>4 DEF StoresInv
    <3>3. QED BY <1>2, <1>4, <2>5, <3>1, <3>2 DEF Owed
  <2>9. CASE ReadStore
    <3>1. UNCHANGED <<inStores, stores>> /\ stores = "reading"
      BY <2>9 DEF ReadStore
    <3>2. QED BY <2>4, <3>1
  <2>10. CASE AllRead
    <3>1. UNCHANGED inStores /\ stores = "reading" /\ stores' = "recording"
      BY <2>10 DEF AllRead
    <3>2. QED BY <2>4, <3>1
  <2>11. CASE UNCHANGED vars
    BY <2>3, <2>11 DEF vars, storeVars
  <2>12. QED BY <1>4, <2>3, <2>6, <2>7, <2>8, <2>9, <2>10, <2>11, OthersLeaveStores DEF Next, StoresNext
<1>5. QED BY <1>3, <1>4, InitStores, StepStores, PTL DEF Spec, StoresImplementSweep, StoresSweep!Spec

-----------------------------------------------------------------------------
(* Trees.                                                                  *)

\* A set of nodes with all that is below them, whose certificates there are.
Wood(h, T) ==
  \A t \in T : /\ t.children \in Seq(T)
               /\ t.op = "certificate" => t.value \in DOMAIN h.certs \cup {NoFile}
Grown(h, nodes) == \E T : nodes \in Seq(T) /\ Wood(h, T)

LEMMA GrownJoin ==
  ASSUME NEW h, NEW q, NEW r, Grown(h, q), Grown(h, r)
  PROVE  Grown(h, q \o r)
<1>1. PICK T : q \in Seq(T) /\ Wood(h, T)
  BY DEF Grown
<1>2. PICK U : r \in Seq(U) /\ Wood(h, U)
  BY DEF Grown
<1>3. q \in Seq(T \cup U) /\ r \in Seq(T \cup U)
  BY <1>1, <1>2
<1>4. q \o r \in Seq(T \cup U)
  BY <1>3
<1>5. ASSUME NEW t \in T \cup U
      PROVE  t.children \in Seq(T \cup U) /\ (t.op = "certificate" => t.value \in DOMAIN h.certs \cup {NoFile})
  <2>1. t.children \in Seq(T) \/ t.children \in Seq(U)
    BY <1>1, <1>2 DEF Wood
  <2>2. t.children \in Seq(T \cup U)
    BY <2>1
  <2>3. QED BY <1>1, <1>2, <2>2 DEF Wood
<1>6. Wood(h, T \cup U)
  BY <1>5 DEF Wood
<1>7. QED BY <1>4, <1>6 DEF Grown

LEMMA GrownNode ==
  ASSUME NEW h, NEW op, NEW f, NEW v, NEW q, Grown(h, q),
         op = "certificate" => v \in DOMAIN h.certs \cup {NoFile}
  PROVE  Grown(h, <<Node(op, f, v, q)>>)
<1>1. PICK T : q \in Seq(T) /\ Wood(h, T)
  BY DEF Grown
<1> DEFINE n == Node(op, f, v, q)
           U == T \cup {n}
<1>2. n.op = op /\ n.value = v /\ n.children = q
  BY DEF Node
<1> HIDE DEF n
<1>3. \A s \in Seq(T) : s \in Seq(U)
  OBVIOUS
<1>4. <<n>> \in Seq(U)
  OBVIOUS
<1> HIDE DEF U
<1>5. ASSUME NEW t \in U
      PROVE  t.children \in Seq(U) /\ (t.op = "certificate" => t.value \in DOMAIN h.certs \cup {NoFile})
  <2>1. CASE t \in T
    BY <1>1, <1>3, <2>1 DEF Wood
  <2>2. CASE t = n
    BY <1>1, <1>2, <1>3, <2>2
  <2>3. QED BY <2>1, <2>2 DEF U
<1>6. Wood(h, U)
  BY <1>5 DEF Wood
<1>7. QED BY <1>4, <1>6 DEF Grown, n

LEMMA GrownNone == \A h : Grown(h, <<>>)
<1>1. ASSUME NEW h PROVE Grown(h, <<>>)
  <2>1. <<>> \in Seq({}) /\ Wood(h, {})
    BY DEF Wood
  <2>2. QED BY <2>1, Zenon DEF Grown
<1>2. QED BY <1>1

\* What is told to present are certificates that there are.
LEMMA CertificatesFacts ==
  ASSUME NEW h, NEW T, Wood(h, T), NEW q \in Seq(T)
  PROVE  Certificates(q) \in Seq(DOMAIN h.certs)
<1> DEFINE Holds == Seq(DOMAIN h.certs)
<1>1. <<>> \in Holds
  OBVIOUS
<1>2. ASSUME NEW r \in Holds, NEW n \in T PROVE CertificateStep(0, 0, r, n) \in Holds
  <2>1. n.op = "certificate" /\ n.value # NoFile => n.value \in DOMAIN h.certs
    BY DEF Wood
  <2>2. CASE n.op = "certificate" /\ n.value # NoFile
    <3> DEFINE D == DOMAIN h.certs
               c == n.value
    <3>1. CertificateStep(0, 0, r, n) = Append(r, c)
      BY <2>2 DEF CertificateStep
    <3>2. r \in Seq(D) /\ c \in D
      BY <2>1, <2>2
    <3> HIDE DEF D, c
    <3>3. Append(r, c) \in Seq(D)
      BY <3>2
    <3>4. QED BY <3>1, <3>3 DEF D
  <2>3. CASE ~(n.op = "certificate" /\ n.value # NoFile)
    BY <2>3 DEF CertificateStep
  <2>4. QED BY <2>2, <2>3
<1> HIDE DEF Holds
<1>3. CertificateFold!Over(0, 0, <<>>, q) \in Holds
  BY <1>1, <1>2, CertificateFold!FoldInvariant, SMT
<1>4. QED BY <1>3, CertificatesIs DEF Holds

\* A tree and the levels of a walk.
Walked(h, T) == [node : T, level : Seq(DOMAIN h.certs)]

LEMMA InsideFacts ==
  ASSUME NEW h, NEW T, Wood(h, T), NEW x \in Walked(h, T)
  PROVE  Inside(x) \in Seq(Walked(h, T))
<1> DEFINE n == x.node
           level == x.level \o Certificates(n.children)
<1>1. n \in T /\ x.level \in Seq(DOMAIN h.certs) /\ n.children \in Seq(T)
  BY DEF Walked, Wood
<1>2. Certificates(n.children) \in Seq(DOMAIN h.certs)
  BY <1>1, CertificatesFacts
<1>3. level \in Seq(DOMAIN h.certs)
  <2> DEFINE l == x.level
             own == Certificates(n.children)
  <2>1. l \in Seq(DOMAIN h.certs) /\ own \in Seq(DOMAIN h.certs)
    BY <1>1, <1>2
  <2> HIDE DEF l, own
  <2>2. l \o own \in Seq(DOMAIN h.certs)
    BY <2>1
  <2>3. QED BY <2>2 DEF l, own
<1>4. Inside(x) = [k \in DOMAIN n.children |-> [node |-> n.children[k], level |-> level]]
  BY Zenon DEF Inside
<1> DEFINE c == n.children
<1>5. c \in Seq(T) /\ Inside(x) = [k \in DOMAIN c |-> [node |-> c[k], level |-> level]]
  BY <1>1, <1>4
<1> HIDE DEF n, level, c
<1>6. DOMAIN c = 1..Len(c) /\ Len(c) \in Nat /\ \A k \in DOMAIN c : c[k] \in T
  BY <1>5
<1>7. \A k \in DOMAIN c : [node |-> c[k], level |-> level] \in Walked(h, T)
  BY <1>3, <1>6 DEF Walked
<1> HIDE DEF Walked
<1>8. [k \in 1..Len(c) |-> [node |-> c[k], level |-> level]] \in Seq(Walked(h, T))
  BY <1>6, <1>7
<1>9. QED BY <1>5, <1>6, <1>8

LEMMA EnteredFacts ==
  ASSUME NEW h, NEW T, Wood(h, T), NEW q \in Seq(Walked(h, T))
  PROVE  FoldLeft(Entered, <<>>, q) \in Seq(Walked(h, T))
<1> DEFINE W == Walked(h, T)
           Holds == Seq(W)
<1>1. <<>> \in Holds
  OBVIOUS
<1>2. ASSUME NEW r \in Holds, NEW x \in W PROVE EnteredStep(0, 0, r, x) \in Holds
  <2>1. Inside(x) \in Seq(W)
    BY InsideFacts
  <2>2. <<x>> \in Seq(W)
    <3> HIDE DEF W
    <3>1. QED OBVIOUS
  <2>3. EnteredStep(0, 0, r, x) = r \o <<x>> \/ EnteredStep(0, 0, r, x) = r \o Inside(x)
    BY DEF EnteredStep, Entered
  <2>4. r \o <<x>> \in Seq(W) /\ r \o Inside(x) \in Seq(W)
    <3> DEFINE a == <<x>>
               b == Inside(x)
    <3>1. r \in Seq(W) /\ a \in Seq(W) /\ b \in Seq(W)
      BY <2>1, <2>2
    <3> HIDE DEF W, Holds, a, b
    <3>2. r \o a \in Seq(W) /\ r \o b \in Seq(W)
      BY <3>1, JoinSet
    <3>3. QED BY <3>2 DEF a, b
  <2>5. QED BY <2>3, <2>4
<1> HIDE DEF W, Holds
<1>3. EnteredFold!Over(0, 0, <<>>, q) \in Holds
  <2>1. q \in Seq(W)
    BY DEF W
  <2>2. QED BY <1>1, <1>2, <2>1, EnteredFold!FoldInvariant, SMT
<1>4. QED BY <1>3, EnteredIs DEF Holds, W

LEMMA ImageIsFinite ==
  ASSUME NEW S, IsFiniteSet(S), NEW f
  PROVE  IsFiniteSet({f[x] : x \in S})
<1> DEFINE T == {f[x] : x \in S}
           g == [x \in S |-> f[x]]
<1>1. g \in [S -> T] /\ \A t \in T : \E x \in S : g[x] = t
  OBVIOUS
<1> HIDE DEF g, T
<1>2. g \in Surjection(S, T)
  BY <1>1 DEF Surjection
<1>3. IsFiniteSet(T)
  BY <1>2, FS_Surjection
<1>4. QED BY <1>3 DEF T

LEMMA NestingType ==
  ASSUME host \in Hosts
  PROVE  Nesting \in Nat
<1> DEFINE Of(f) == {<<f, i>> : i \in {i \in DOMAIN host.files[f].items :
                              host.files[f].items[i].op \in {"section", "server", "upstream"}}}
           All == {Of(f) : f \in DOMAIN host.files}
<1>1. IsFiniteSet(DOMAIN host.files)
  BY ConfigurationsAssumption
<1>2. ASSUME NEW f \in DOMAIN host.files PROVE IsFiniteSet(Of(f))
  <2> DEFINE items == host.files[f].items
             I == {i \in DOMAIN items : items[i].op \in {"section", "server", "upstream"}}
  <2>1. items \in Seq(ToSet(items))
    BY ConfigurationsAssumption
  <2>2. Len(items) \in Nat /\ DOMAIN items = 1..Len(items)
    <3> HIDE DEF items
    <3>1. QED BY <2>1
  <2>3. IsFiniteSet(DOMAIN items)
    BY <2>2, FS_Interval
  <2>4. IsFiniteSet(I)
    BY <2>3, FS_Subset
  <2> HIDE DEF I
  <2>5. IsFiniteSet({<<f, i>> : i \in I})
    <3> DEFINE g == [i \in I |-> <<f, i>>]
    <3>1. {g[i] : i \in I} = {<<f, i>> : i \in I}
      OBVIOUS
    <3> HIDE DEF g
    <3>2. QED BY <2>4, <3>1, ImageIsFinite
  <2>6. QED BY <2>5 DEF I
<1>3. IsFiniteSet(All)
  <2> DEFINE g == [f \in DOMAIN host.files |-> Of(f)]
  <2> HIDE DEF Of
  <2>1. {g[f] : f \in DOMAIN host.files} = All
    OBVIOUS
  <2> HIDE DEF g, All
  <2>2. QED BY <1>1, <2>1, ImageIsFinite
<1>4. \A s \in All : IsFiniteSet(s)
  BY <1>2
<1> HIDE DEF All
<1>5. IsFiniteSet(UNION All)
  BY <1>3, <1>4, FS_UNION
<1>6. Cardinality(UNION All) \in Nat
  BY <1>5, FS_CardinalityType
<1>7. Nesting = 2 + Cardinality(UNION All)
  BY Zenon DEF Nesting, All
<1>8. QED BY <1>6, <1>7

\* Whatever a tree is, its sites are told to present certificates that there are.
LEMMA SitesInFacts ==
  ASSUME host \in Hosts, NEW srv, NEW nodes, Grown(host, nodes)
  PROVE  LET q == SitesIn(srv, nodes)
         IN q \in Seq(ToSet(q)) /\ \A site \in ToSet(q) : site.certs \in Seq(DOMAIN host.certs)
<1> DEFINE top == Node("section", "", "", nodes)
           C == DOMAIN host.certs
<1>1. Grown(host, <<top>>)
  BY GrownNode
<1>2. PICK T : <<top>> \in Seq(T) /\ Wood(host, T)
  BY <1>1 DEF Grown
<1> DEFINE W == Walked(host, T)
           Holds == Seq(W)
           base == TopOf(nodes)
           found == LevelFold!Over(0, 0, base, Levels)
<1>3. base \in Holds
  <2>1. top \in T
    <3> HIDE DEF top
    <3>1. <<top>>[1] = top /\ 1 \in DOMAIN <<top>>
      OBVIOUS
    <3>2. QED BY <1>2, <3>1
  <2>2. [node |-> top, level |-> <<>>] \in W
    <3> HIDE DEF top
    <3>1. <<>> \in Seq(C)
      OBVIOUS
    <3>2. QED BY <2>1, <3>1 DEF Walked
  <2>3. base = <<[node |-> top, level |-> <<>>]>>
    BY DEF TopOf
  <2> HIDE DEF W, base, top
  <2>4. QED BY <2>2, <2>3
<1>4. ASSUME NEW q \in Holds, NEW k \in Nat PROVE LevelStep(0, 0, q, k) \in Holds
  BY <1>2, EnteredFacts DEF LevelStep
<1>5. Levels \in Seq(Nat)
  <2>1. Nesting \in Nat
    BY NestingType
  <2>2. QED BY <2>1 DEF Levels
<1>6. found \in Holds
  <2> HIDE DEF Holds, base
  <2>1. QED BY <1>3, <1>4, <1>5, LevelFold!FoldInvariant, SMT
<1>7. SitesIn(srv, nodes) = [i \in DOMAIN found |-> Site(srv, found[i].node, found[i].level)]
  BY SitesInIs
<1> HIDE DEF found
<1>8. DOMAIN found = 1..Len(found) /\ Len(found) \in Nat /\ \A i \in DOMAIN found : found[i] \in W
  <2> HIDE DEF W
  <2>1. QED BY <1>6
<1>9. ASSUME NEW i \in DOMAIN found PROVE Site(srv, found[i].node, found[i].level).certs \in Seq(C)
  <2>1. found[i].node.children \in Seq(T) /\ found[i].level \in Seq(C)
    <3>1. found[i].node \in T /\ found[i].level \in Seq(C)
      BY <1>8 DEF Walked
    <3>2. QED BY <1>2, <3>1 DEF Wood
  <2>2. Certificates(found[i].node.children) \in Seq(C)
    BY <1>2, <2>1, CertificatesFacts
  <2>3. \/ Site(srv, found[i].node, found[i].level).certs = Certificates(found[i].node.children)
        \/ Site(srv, found[i].node, found[i].level).certs = found[i].level
    BY DEF Site
  <2>4. QED BY <2>1, <2>2, <2>3
<1> DEFINE At(i) == Site(srv, found[i].node, found[i].level)
           q == [i \in 1..Len(found) |-> At(i)]
<1>10. SitesIn(srv, nodes) = q
  BY <1>7, <1>8
<1>11. \A i \in 1..Len(found) : At(i).certs \in Seq(C)
  BY <1>8, <1>9
<1> HIDE DEF At
<1>12. DOMAIN q = 1..Len(found) /\ \A i \in 1..Len(found) : q[i] = At(i)
  OBVIOUS
<1>13. q \in Seq(ToSet(q))
  <2>1. \A i \in 1..Len(found) : At(i) \in ToSet(q)
    BY <1>12 DEF ToSet
  <2>2. QED BY <1>8, <2>1
<1> HIDE DEF q
<1>14. \A site \in ToSet(q) : site.certs \in Seq(C)
  BY <1>11, <1>12 DEF ToSet
<1>15. QED BY <1>10, <1>13, <1>14

LEMMA PlacementsFacts ==
  ASSUME host \in Hosts, NEW srv, NEW nodes, Grown(host, nodes)
  PROVE  LET q == Placements(srv, nodes)
         IN q \in Seq(ToSet(q)) /\ \A x \in ToSet(q) : x.cert \in DOMAIN host.certs
<1> DEFINE C == DOMAIN host.certs
           from == SitesIn(srv, nodes)
           S == ToSet(from)
           X == [location : {s.location : s \in S}, cert : C]
           Holds == Seq(X)
<1>1. from \in Seq(S) /\ \A s \in S : s.certs \in Seq(C)
  BY SitesInFacts
<1>2. <<>> \in Holds
  OBVIOUS
<1>3. ASSUME NEW q \in Holds, NEW s \in S PROVE PlacedStep(0, 0, q, s) \in Holds
  <2> DEFINE c == s.certs
             l == s.location
             more == [k \in DOMAIN c |-> [location |-> l, cert |-> c[k]]]
  <2>1. PlacedStep(0, 0, q, s) = q \o more
    BY DEF PlacedStep, Placed
  <2>2. c \in Seq(C) /\ l \in {x.location : x \in S}
    BY <1>1
  <2> HIDE DEF c, l, S
  <2>3. DOMAIN c = 1..Len(c) /\ Len(c) \in Nat /\ \A k \in DOMAIN c : c[k] \in C
    BY <2>2
  <2>4. \A k \in DOMAIN c : [location |-> l, cert |-> c[k]] \in X
    BY <2>2, <2>3
  <2> HIDE DEF X
  <2>5. more \in Seq(X)
    BY <2>3, <2>4
  <2> HIDE DEF more
  <2>6. q \o more \in Seq(X)
    BY <2>5, JoinSet
  <2>7. QED BY <2>1, <2>6
<1>4. PlacedFold!Over(0, 0, <<>>, from) \in Holds
  <2> HIDE DEF Holds, S, from
  <2>1. QED BY <1>1, <1>2, <1>3, PlacedFold!FoldInvariant, SMT
<1>5. Placements(srv, nodes) \in Seq(X)
  BY <1>4, PlacementsIs
<1>6. \A x \in X : x.cert \in C
  OBVIOUS
<1> HIDE DEF X
<1>7. QED BY <1>5, <1>6, Members

-----------------------------------------------------------------------------
(* IIS.                                                                    *)

LEMMA IISObservationsType ==
  ASSUME host \in Hosts
  PROVE  LET q == IISObservations(host.iis) IN q \in Seq(ToSet(q)) /\ Len(q) \in Nat
<1> DEFINE iis == host.iis
           B == ToSet(iis.bindings)
           Of(b) == [location |-> <<"IIS", b.site>>, cert |-> Filed(iis, b)[1].cert]
           X == {Of(b) : b \in B}
           Holds == Seq(X)
<1>1. iis.bindings \in Seq(B)
  BY ConfigurationsAssumption
<1>2. <<>> \in Holds
  OBVIOUS
<1>3. ASSUME NEW q \in Holds, NEW b \in B PROVE BindingStep(iis, 0, q, b) \in Holds
  <2>1. BindingStep(iis, 0, q, b) = Append(q, Of(b)) \/ BindingStep(iis, 0, q, b) = q
    BY DEF BindingStep
  <2>2. Of(b) \in X
    OBVIOUS
  <2> HIDE DEF Of, X
  <2>3. Append(q, Of(b)) \in Seq(X)
    BY <2>2
  <2>4. QED BY <2>1, <2>3
<1> HIDE DEF X, B
<1>4. BindingFold!Over(iis, 0, <<>>, iis.bindings) \in Holds
  <2> HIDE DEF Holds, iis
  <2>1. QED BY <1>1, <1>2, <1>3, BindingFold!FoldInvariant, SMT
<1>5. IISObservations(iis) \in Seq(X)
  BY <1>4, IISObservationsIs
<1> DEFINE q == IISObservations(iis)
<1> HIDE DEF q
<1>6. q \in Seq(X)
  BY <1>5 DEF q
<1>7. q \in Seq(ToSet(q)) /\ Len(q) \in Nat
  BY <1>6, Members
<1>8. QED BY <1>7 DEF q

\* A binding that counts against a sweep has a certificate in no store that could
\* be read.
LEMMA IISIncompleteFor ==
  ASSUME host \in Hosts, ~IISComplete(host.iis)
  PROVE  \/ \E s \in DOMAIN host.iis.stores : ~host.iis.stores[s].readable
         \/ \E k \in DOMAIN host.iis.bound :
              host.iis.bound[k].cert \notin host.iis.stores[host.iis.bound[k].store].certs
<1> DEFINE iis == host.iis
<1>1. \A k \in DOMAIN iis.bound : iis.bound[k].store \in DOMAIN iis.stores
  BY ConfigurationsAssumption
<1>2. \A k \in KeysRead(iis) : k \in DOMAIN iis.bound /\ iis.bound[k].store \in StoresNamed(iis)
  BY DEF KeysRead, StoresNamed
<1> HIDE DEF iis
<1>3. CASE \E s \in StoresNamed(iis) : ~iis.stores[s].readable
  <2>1. \A s \in StoresNamed(iis) : s \in DOMAIN iis.stores
    BY <1>1 DEF StoresNamed, KeysRead
  <2>2. QED BY <1>3, <2>1 DEF iis
<1>4. CASE \A s \in StoresNamed(iis) : iis.stores[s].readable
  <2>1. PICK i \in DOMAIN iis.bindings :
          /\ Filed(iis, iis.bindings[i]) # <<>>
          /\ Filed(iis, iis.bindings[i])[1].cert \notin Fetched(iis)
    BY <1>4, Zenon DEF IISComplete, iis
  <2> DEFINE b == iis.bindings[i]
             at == {j \in DOMAIN RegistryKeys(b) : RegistryKeys(b)[j] \in KeysRead(iis)}
  <2>2. at # {} /\ Filed(iis, b) = <<iis.bound[RegistryKeys(b)[Min(at)]]>>
    BY <2>1, Zenon DEF Filed
  <2>3. at \subseteq 1..3
    <3> DEFINE first == <<b.address, b.host>>
               second == <<"any", b.host>>
               third == <<b.address, "">>
               fourth == <<"any", "">>
    <3>1. RegistryKeys(b) = <<first, second, third>> \/ RegistryKeys(b) = <<third, fourth>>
      BY DEF RegistryKeys
    <3> HIDE DEF first, second, third, fourth, b
    <3>2. DOMAIN <<first, second, third>> = 1..3 /\ DOMAIN <<third, fourth>> = 1..2
      OBVIOUS
    <3>3. DOMAIN RegistryKeys(b) \subseteq 1..3
      BY <3>1, <3>2
    <3>4. QED BY <3>3
  <2> HIDE DEF at, b
  <2>4. \E x \in at : \A y \in at : x <= y
    <3>1. at \subseteq Nat /\ at # {}
      BY <2>2, <2>3
    <3>2. QED BY <3>1, EntryFold!Least
  <2>5. Min(at) \in at
    BY <2>4 DEF Min
  <2> DEFINE key == RegistryKeys(b)[Min(at)]
  <2>6. key \in KeysRead(iis)
    BY <2>5 DEF at
  <2> HIDE DEF key
  <2>7. iis.bound[key].cert \notin Fetched(iis)
    <3>1. Filed(iis, b)[1] = iis.bound[key]
      BY <2>2 DEF key
    <3>2. QED BY <2>1, <3>1 DEF b
  <2>8. iis.stores[iis.bound[key].store].certs \subseteq Fetched(iis)
    BY <1>2, <1>4, <2>6 DEF Fetched
  <2>9. key \in DOMAIN iis.bound /\ iis.bound[key].cert \notin iis.stores[iis.bound[key].store].certs
    BY <1>2, <2>6, <2>7, <2>8
  <2>10. QED BY <2>9 DEF iis
<1>5. QED BY <1>3, <1>4

-----------------------------------------------------------------------------
(* What may be read for a main file.                                       *)

LEMMA NamesAreFiles ==
  ASSUME NEW h \in Hosts, NEW m, NEW f \in DOMAIN h.files
  PROVE  Names(h, m, f) \subseteq DOMAIN h.files
<1>1. SUFFICES ASSUME NEW g \in Names(h, m, f) PROVE g \in DOMAIN h.files
  OBVIOUS
<1>2. PICK x \in Includes(h, f) : \E r \in Roots(h, m) : g \in ToSet(x.files[r])
  BY DEF Names
<1>3. PICK r \in Roots(h, m) : g \in ToSet(x.files[r])
  BY <1>2
<1>4. x \in ToSet(h.files[f].items) /\ x.op = "include"
  BY DEF Includes
<1>5. r \in {"own"} \cup ServerRoots(h)
  BY DEF Roots
<1>6. x.files[r] \in Seq(DOMAIN h.files)
  <2>1. {"own"} \cup ServerRoots(h) \subseteq DOMAIN x.files /\ \A s \in DOMAIN x.files : x.files[s] \in Seq(DOMAIN h.files)
    BY <1>4, ConfigurationsAssumption
  <2>2. QED BY <1>5, <2>1
<1>7. QED BY <1>3, <1>6, Members

LEMMA ReachedFirst ==
  ASSUME NEW h \in Hosts, NEW i \in DOMAIN h.mains
  PROVE  h.mains[i].file \in Reached(h, h.mains[i])
<1>1. h.mains \in Seq([server : {"nginx", "apache"}, file : DOMAIN h.files])
  BY ConfigurationsAssumption
<1>2. h.mains[i] \in [server : {"nginx", "apache"}, file : DOMAIN h.files]
  <2> DEFINE q == h.mains
             M == [server : {"nginx", "apache"}, file : DOMAIN h.files]
  <2>1. q \in Seq(M) /\ i \in DOMAIN q
    BY <1>1
  <2> HIDE DEF q, M
  <2>2. q[i] \in M
    BY <2>1
  <2>3. QED BY <2>2 DEF q, M
<1>3. h.mains[i].file \in DOMAIN h.files
  BY <1>2
<1>4. QED BY <1>3 DEF Reached

LEMMA ReachedNext ==
  ASSUME NEW h \in Hosts, NEW m, NEW f \in Reached(h, m), NEW g \in Names(h, m, f)
  PROVE  g \in Reached(h, m)
<1>1. f \in DOMAIN h.files
  BY DEF Reached
<1>2. g \in DOMAIN h.files
  BY <1>1, NamesAreFiles
<1>3. \A s \in SUBSET DOMAIN h.files : m.file \in s /\ (\A e \in s : Names(h, m, e) \subseteq s) => f \in s
  BY DEF Reached
<1>4. \A s \in SUBSET DOMAIN h.files : m.file \in s /\ (\A e \in s : Names(h, m, e) \subseteq s) => g \in s
  BY <1>3
<1>5. QED BY <1>2, <1>4 DEF Reached

LEMMA ReachedFinite ==
  ASSUME NEW h \in Hosts, NEW m
  PROVE  IsFiniteSet(Reached(h, m)) /\ Reached(h, m) \subseteq DOMAIN h.files
<1>1. IsFiniteSet(DOMAIN h.files) /\ Reached(h, m) \subseteq DOMAIN h.files
  BY ConfigurationsAssumption DEF Reached
<1>2. QED BY <1>1, FS_Subset

\* Wherever the reader stands, the include it comes to names its files under a
\* root that is one of these.
LEMMA IncludedAreNames ==
  ASSUME NEW h \in Hosts, NEW m, NEW f \in DOMAIN h.files, NEW x \in ToSet(h.files[f].items), x.op = "include",
         NEW root \in {"own"} \cup ServerRoots(h)
  PROVE  LET r == IF m.server = "apache" THEN root ELSE "own"
         IN /\ r \in Roots(h, m) /\ x \in Includes(h, f)
            /\ x.files[r] \in Seq(Names(h, m, f))
<1> DEFINE r == IF m.server = "apache" THEN root ELSE "own"
<1>1. r \in Roots(h, m) /\ x \in Includes(h, f)
  BY DEF Roots, Includes
<1>2. r \in DOMAIN x.files
  BY <1>1, ConfigurationsAssumption DEF Roots
<1> HIDE DEF r
<1>3. x.files[r] \in Seq(DOMAIN h.files)
  BY <1>2, ConfigurationsAssumption
<1> DEFINE q == x.files[r]
<1>4. ToSet(q) \subseteq Names(h, m, f)
  BY <1>1 DEF Names
<1>5. q \in Seq(ToSet(q))
  BY <1>3, Members
<1>6. q \in Seq(Names(h, m, f))
  <2> HIDE DEF q
  <2>1. QED BY <1>4, <1>5
<1>7. QED BY <1>1, <1>6 DEF r

-----------------------------------------------------------------------------
(* The stack of frames.                                                    *)

\* A frame of a file that there is; what its last include has yet to bring in it
\* names.
IsFrame(h, m, fr) ==
  /\ DOMAIN fr = {"file", "op", "pos", "depth", "nodes", "todo"}
  /\ fr.file \in DOMAIN h.files
  /\ fr.op \in {"file", "server", "section"}
  /\ fr.pos \in Nat \ {0}
  /\ fr.depth \in 0..MaxDepth
  /\ Grown(h, fr.nodes)
  /\ fr.todo \in Seq(Names(h, m, fr.file))

\* A way down from the main file through files read, none of which comes twice.
Way(h, m, v, d, way) ==
  /\ way \in [0..d -> v] /\ way[0] = m.file
  /\ \A i, j \in 0..d : way[i] = way[j] => i = j
  /\ \A i \in 1..d : way[i] \in Names(h, m, way[i - 1])

\* The frames stand along such a way, none above one further down.
Stacked(h, m, v, st) ==
  /\ st \in Seq(ToSet(st)) /\ st # <<>>
  /\ \A k \in 1..Len(st) : IsFrame(h, m, st[k])
  /\ st[1].op = "file"
  /\ \A j, k \in 1..Len(st) : j <= k => st[j].depth <= st[k].depth
  /\ \E way : /\ Way(h, m, v, st[Len(st)].depth, way)
              /\ \A k \in 1..Len(st) : st[k].file = way[st[k].depth]

Alike(fr, gr) == fr.file = gr.file /\ fr.op = gr.op /\ fr.depth = gr.depth

\* Frames that change in what was read of them, and of which some are dropped.
LEMMA StackStands ==
  ASSUME NEW h, NEW m, NEW v, NEW w, v \subseteq w, NEW st, Stacked(h, m, v, st),
         NEW new, new \in Seq(ToSet(new)), Len(new) \in 1..Len(st),
         \A k \in 1..Len(new) : IsFrame(h, m, new[k]) /\ Alike(new[k], st[k])
  PROVE  Stacked(h, m, w, new)
<1>1. Len(st) \in Nat \ {0} /\ Len(new) \in Nat \ {0} /\ \A k \in 1..Len(new) : k \in 1..Len(st)
  BY DEF Stacked
<1>2. PICK way : /\ Way(h, m, v, st[Len(st)].depth, way)
                 /\ \A k \in 1..Len(st) : st[k].file = way[st[k].depth]
  BY DEF Stacked
<1> DEFINE d == st[Len(st)].depth
           e == new[Len(new)].depth
           less == [i \in 0..e |-> way[i]]
<1>3. d \in Nat /\ e \in Nat /\ e <= d
  <2>1. Len(st) \in 1..Len(st) /\ Len(new) \in 1..Len(new) /\ Len(new) \in 1..Len(st)
    BY <1>1
  <2>2. IsFrame(h, m, st[Len(st)]) /\ IsFrame(h, m, new[Len(new)])
    BY <2>1 DEF Stacked
  <2>3. d \in 0..MaxDepth /\ e \in 0..MaxDepth
    BY <2>2 DEF IsFrame
  <2>4. e = st[Len(new)].depth
    BY <2>1 DEF Alike
  <2>5. st[Len(new)].depth <= d
    BY <1>1, <2>1 DEF Stacked
  <2>6. QED BY <2>3, <2>4, <2>5, ReaderBoundsAssumption
<1>4. \A j, k \in 1..Len(new) : j <= k => new[j].depth <= new[k].depth
  BY <1>1 DEF Stacked, Alike
<1> HIDE DEF d, e
<1>5. Way(h, m, w, e, less)
  <2>1. /\ way \in [0..d -> v] /\ way[0] = m.file
        /\ \A i, j \in 0..d : way[i] = way[j] => i = j
        /\ \A i \in 1..d : way[i] \in Names(h, m, way[i - 1])
    BY <1>2 DEF Way, d
  <2>2. \A i \in 0..e : i \in 0..d /\ less[i] = way[i]
    BY <1>3
  <2>3. less \in [0..e -> w] /\ less[0] = m.file
    BY <1>3, <2>1, <2>2
  <2>4. \A i \in 1..e : i - 1 \in 0..e /\ i \in 0..e /\ i \in 1..d
    BY <1>3
  <2> HIDE DEF less
  <2>5. \A i \in 1..e : less[i] \in Names(h, m, less[i - 1])
    BY <2>1, <2>2, <2>4
  <2>6. \A i, j \in 0..e : less[i] = less[j] => i = j
    BY <2>1, <2>2
  <2>7. QED BY <2>3, <2>5, <2>6 DEF Way
<1>6. \A k \in 1..Len(new) : new[k].file = less[new[k].depth]
  <2>1. SUFFICES ASSUME NEW k \in 1..Len(new) PROVE new[k].file = less[new[k].depth]
    OBVIOUS
  <2>2. new[k].file = way[new[k].depth]
    BY <1>1, <1>2 DEF Alike
  <2>3. Len(new) \in 1..Len(new) /\ k <= Len(new)
    BY <1>1
  <2>4. new[k].depth <= e /\ new[k].depth \in 0..MaxDepth
    BY <1>4, <2>3 DEF e, IsFrame
  <2>5. new[k].depth \in 0..e
    BY <1>3, <2>4, ReaderBoundsAssumption
  <2>6. QED BY <2>2, <2>5
<1>7. new # <<>> /\ new[1].op = "file"
  <2>1. 1 \in 1..Len(new)
    BY <1>1
  <2>2. QED BY <2>1 DEF Stacked, Alike
<1> HIDE DEF less
<1>8. QED BY <1>4, <1>5, <1>6, <1>7 DEF Stacked, e

\* What stands on a stack.
LEMMA LastFacts ==
  ASSUME NEW h, NEW m, NEW v, NEW st, Stacked(h, m, v, st)
  PROVE  /\ Len(st) \in Nat \ {0} /\ DOMAIN st = 1..Len(st) /\ Last(st) = st[Len(st)] /\ IsFrame(h, m, Last(st))
         /\ Len(Front(st)) = Len(st) - 1 /\ \A k \in 1..(Len(st) - 1) : Front(st)[k] = st[k]
         /\ \A C : st \in Seq(C) => Front(st) \in Seq(C)
         /\ Last(st).op # "file" => Len(st) > 1
         /\ Front(st) # <<>> <=> Len(st) > 1
<1>1. Len(st) \in Nat \ {0} /\ DOMAIN st = 1..Len(st)
  BY DEF Stacked
<1>2. Last(st) = st[Len(st)] /\ Len(st) \in 1..Len(st)
  BY <1>1 DEF Last
<1>3. IsFrame(h, m, Last(st))
  BY <1>2 DEF Stacked
<1> DEFINE n == Len(st) - 1
<1>4. n \in 0..Len(st)
  BY <1>1
<1>5. Front(st) = SubSeq(st, 1, n)
  BY DEF Front
<1>6. ASSUME NEW C, st \in Seq(C)
      PROVE  Front(st) \in Seq(C) /\ Len(Front(st)) = n /\ \A k \in 1..n : Front(st)[k] = st[k]
  BY <1>4, <1>5, <1>6, FirstSet
<1>7. Front(st) \in Seq(ToSet(st)) /\ Len(Front(st)) = n /\ \A k \in 1..n : Front(st)[k] = st[k]
  BY <1>6 DEF Stacked
<1>8. Front(st) # <<>> <=> Len(st) > 1
  <2> DEFINE q == Front(st)
  <2>1. q \in Seq(ToSet(st)) /\ Len(q) = n
    BY <1>7
  <2> HIDE DEF q
  <2>2. q # <<>> <=> Len(q) # 0
    BY <2>1, EmptySeq
  <2>3. QED BY <1>1, <2>1, <2>2 DEF q
<1>9. Last(st).op # "file" => Len(st) > 1
  BY <1>1, <1>2 DEF Stacked
<1>10. QED BY <1>1, <1>2, <1>3, <1>6, <1>7, <1>8, <1>9

LEMMA AppendFacts ==
  ASSUME NEW C, NEW q \in Seq(C), NEW c
  PROVE  /\ Append(q, c) \in Seq(ToSet(Append(q, c)))
         /\ Len(Append(q, c)) = Len(q) + 1
         /\ \A k \in 1..Len(q) : Append(q, c)[k] = q[k]
         /\ Append(q, c)[Len(q) + 1] = c
<1>1. q \in Seq(C \cup {c}) /\ c \in C \cup {c}
  OBVIOUS
<1>2. Append(q, c) \in Seq(C \cup {c})
  BY <1>1
<1>3. Append(q, c) \in Seq(ToSet(Append(q, c)))
  BY <1>2, Members
<1>4. QED BY <1>3

\* The innermost frame goes on.
LEMMA TopGoesOn ==
  ASSUME NEW h, NEW m, NEW v, NEW w, v \subseteq w, NEW st, Stacked(h, m, v, st),
         NEW fr, IsFrame(h, m, fr), Alike(fr, Last(st))
  PROVE  Stacked(h, m, w, Append(Front(st), fr))
<1> DEFINE new == Append(Front(st), fr)
           C == ToSet(st)
<1>1. /\ Len(st) \in Nat \ {0} /\ Last(st) = st[Len(st)] /\ Len(Front(st)) = Len(st) - 1
      /\ \A k \in 1..(Len(st) - 1) : Front(st)[k] = st[k]
  BY LastFacts
<1>2. Front(st) \in Seq(C)
  <2>1. st \in Seq(ToSet(st))
    BY DEF Stacked
  <2>2. \A D : st \in Seq(D) => Front(st) \in Seq(D)
    BY LastFacts
  <2>3. QED BY <2>1, <2>2, Zenon
<1>3. /\ new \in Seq(ToSet(new)) /\ Len(new) = Len(Front(st)) + 1
      /\ \A k \in 1..Len(Front(st)) : new[k] = Front(st)[k]
      /\ new[Len(Front(st)) + 1] = fr
  BY <1>2, AppendFacts
<1> HIDE DEF new
<1>4. Len(new) = Len(st) /\ Len(new) \in 1..Len(st)
  BY <1>1, <1>3
<1>5. ASSUME NEW k \in 1..Len(new) PROVE IsFrame(h, m, new[k]) /\ Alike(new[k], st[k])
  <2>1. CASE k = Len(st)
    BY <1>1, <1>3, <2>1
  <2>2. CASE k # Len(st)
    <3>1. k \in 1..(Len(st) - 1) /\ k \in 1..Len(st)
      BY <1>1, <1>4, <2>2
    <3>2. new[k] = st[k]
      BY <1>1, <1>3, <3>1
    <3>3. QED BY <3>1, <3>2 DEF Stacked, Alike
  <2>3. QED BY <2>1, <2>2
<1>6. Stacked(h, m, w, new)
  BY <1>3, <1>4, <1>5, StackStands
<1>7. QED BY <1>6 DEF new

\* The innermost frame ends, and the one around it goes on.
LEMMA TopEnds ==
  ASSUME NEW h, NEW m, NEW v, NEW st, Stacked(h, m, v, st), Len(st) > 1,
         NEW fr, IsFrame(h, m, fr), Alike(fr, Last(Front(st)))
  PROVE  Stacked(h, m, v, Append(Front(Front(st)), fr))
<1> DEFINE less == Front(st)
<1>1. /\ Len(st) \in Nat \ {0} /\ Len(less) = Len(st) - 1 /\ \A k \in 1..(Len(st) - 1) : less[k] = st[k]
      /\ less \in Seq(ToSet(st))
  <2>1. st \in Seq(ToSet(st))
    BY DEF Stacked
  <2> HIDE DEF less
  <2>2. QED BY <2>1, LastFacts DEF less
<1> HIDE DEF less
<1>2. less \in Seq(ToSet(less)) /\ Len(less) \in 1..Len(st)
  BY <1>1, Members
<1>3. \A k \in 1..Len(less) : IsFrame(h, m, less[k]) /\ Alike(less[k], st[k])
  <2>1. SUFFICES ASSUME NEW k \in 1..Len(less) PROVE IsFrame(h, m, less[k]) /\ Alike(less[k], st[k])
    OBVIOUS
  <2>2. k \in 1..Len(st) /\ less[k] = st[k]
    BY <1>1
  <2>3. QED BY <2>2 DEF Stacked, Alike
<1>4. Stacked(h, m, v, less)
  BY <1>2, <1>3, StackStands
<1>5. Alike(fr, Last(less))
  BY DEF less
<1>6. Stacked(h, m, v, Append(Front(less), fr))
  BY <1>4, <1>5, TopGoesOn
<1>7. QED BY <1>6 DEF less

LEMMA StackIsCut ==
  ASSUME NEW h, NEW m, NEW v, NEW st, Stacked(h, m, v, st), NEW n \in 1..Len(st)
  PROVE  Stacked(h, m, v, SubSeq(st, 1, n))
<1> DEFINE new == SubSeq(st, 1, n)
<1>1. st \in Seq(ToSet(st)) /\ Len(st) \in Nat
  BY DEF Stacked
<1>2. n \in 0..Len(st)
  BY <1>1
<1>3. new \in Seq(ToSet(st)) /\ Len(new) = n /\ \A k \in 1..n : new[k] = st[k]
  BY <1>1, <1>2, FirstSet
<1> HIDE DEF new
<1>4. new \in Seq(ToSet(new)) /\ Len(new) \in 1..Len(st)
  BY <1>3, Members
<1>5. \A k \in 1..Len(new) : IsFrame(h, m, new[k]) /\ Alike(new[k], st[k])
  <2>1. SUFFICES ASSUME NEW k \in 1..Len(new) PROVE IsFrame(h, m, new[k]) /\ Alike(new[k], st[k])
    OBVIOUS
  <2>2. k \in 1..Len(st) /\ new[k] = st[k]
    BY <1>1, <1>3
  <2>3. QED BY <2>2 DEF Stacked, Alike
<1>6. Stacked(h, m, v, new)
  BY <1>4, <1>5, StackStands
<1>7. QED BY <1>6 DEF new

\* A section of the file at hand, or a file it names that was not read before.
LEMMA StackGrows ==
  ASSUME NEW h, NEW m, NEW v, NEW w, v \subseteq w, NEW st, Stacked(h, m, v, st), NEW fr, IsFrame(h, m, fr),
         \/ fr.file = Last(st).file /\ fr.depth = Last(st).depth
         \/ /\ fr.depth = Last(st).depth + 1 /\ fr.file \in Names(h, m, Last(st).file)
            /\ fr.file \in w /\ fr.file \notin v
  PROVE  Stacked(h, m, w, Append(st, fr))
<1> DEFINE new == Append(st, fr)
           n == Len(st)
           d == st[n].depth
           e == fr.depth
<1>1. n \in Nat \ {0} /\ Last(st) = st[n] /\ IsFrame(h, m, st[n])
  BY LastFacts
<1>2. st \in Seq(ToSet(st))
  BY DEF Stacked
<1>3. /\ new \in Seq(ToSet(new)) /\ Len(new) = n + 1
      /\ \A k \in 1..n : new[k] = st[k]
      /\ new[n + 1] = fr
  BY <1>2, AppendFacts
<1> HIDE DEF new
<1>4. PICK way : Way(h, m, v, d, way) /\ \A k \in 1..n : st[k].file = way[st[k].depth]
  BY DEF Stacked
<1>5. d \in Nat /\ e \in Nat /\ (e = d \/ e = d + 1)
  BY <1>1, ReaderBoundsAssumption DEF IsFrame
<1>6. \A k \in 1..n : st[k].depth \in Nat /\ st[k].depth <= d
  <2>1. SUFFICES ASSUME NEW k \in 1..n PROVE st[k].depth \in Nat /\ st[k].depth <= d
    OBVIOUS
  <2>2. IsFrame(h, m, st[k]) /\ n \in 1..n /\ k <= n
    BY <1>1 DEF Stacked
  <2>3. st[k].depth \in Nat
    BY <2>2, ReaderBoundsAssumption DEF IsFrame
  <2>4. QED BY <2>2, <2>3 DEF Stacked
<1>7. \A k \in 1..(n + 1) : k = n + 1 \/ k \in 1..n
  BY <1>1
<1>8. \A k \in 1..Len(new) : IsFrame(h, m, new[k])
  BY <1>3, <1>7 DEF Stacked
<1>9. \A j, k \in 1..Len(new) : j <= k => new[j].depth <= new[k].depth
  <2>1. SUFFICES ASSUME NEW j \in 1..(n + 1), NEW k \in 1..(n + 1), j <= k PROVE new[j].depth <= new[k].depth
    BY <1>3
  <2>2. CASE k \in 1..n
    <3>1. j \in 1..n
      BY <1>1, <2>1, <2>2
    <3>2. st[j].depth <= st[k].depth
      BY <2>1, <2>2, <3>1 DEF Stacked
    <3>3. QED BY <1>3, <2>2, <3>1, <3>2
  <2>3. CASE k = n + 1 /\ j \in 1..n
    BY <1>3, <1>5, <1>6, <2>3
  <2>4. CASE k = n + 1 /\ j = n + 1
    BY <1>3, <1>5, <2>4
  <2>5. QED BY <1>7, <2>2, <2>3, <2>4
<1>10. /\ way \in [0..d -> v] /\ way[0] = m.file
       /\ \A i, j \in 0..d : way[i] = way[j] => i = j
       /\ \A i \in 1..d : way[i] \in Names(h, m, way[i - 1])
  BY <1>4 DEF Way
<1>11. way[d] = st[n].file
  BY <1>1, <1>4
<1>12. new # <<>> /\ new[1].op = "file"
  <2>1. 1 \in 1..n
    BY <1>1
  <2>2. QED BY <1>1, <1>3, <2>1 DEF Stacked
<1>13. \E on : Way(h, m, w, e, on) /\ \A k \in 1..(n + 1) : new[k].file = on[new[k].depth]
  <2>1. CASE fr.file = Last(st).file /\ fr.depth = Last(st).depth
    <3>1. e = d /\ fr.file = way[d]
      BY <1>1, <1>11, <2>1
    <3>2. way \in [0..e -> w]
      BY <1>10, <3>1
    <3> HIDE DEF d, e
    <3>3. Way(h, m, w, e, way)
      BY <1>10, <3>1, <3>2 DEF Way
    <3>4. \A k \in 1..(n + 1) : new[k].file = way[new[k].depth]
      BY <1>3, <1>4, <1>7, <3>1 DEF e
    <3>5. QED BY <3>3, <3>4
  <2>2. CASE /\ fr.depth = Last(st).depth + 1 /\ fr.file \in Names(h, m, Last(st).file)
             /\ fr.file \in w /\ fr.file \notin v
    <3> DEFINE f == fr.file
               on == [i \in 0..e |-> IF i = e THEN f ELSE way[i]]
    <3>1. e = d + 1 /\ f \in Names(h, m, way[d]) /\ f \in w /\ f \notin v
      BY <1>1, <1>11, <2>2
    <3> HIDE DEF f, d, e
    <3>2. \A i \in 0..e : i = e \/ i \in 0..d
      BY <1>5, <3>1
    <3>3. /\ on[e] = f /\ \A i \in 0..d : on[i] = way[i]
      BY <1>5, <3>1
    <3>4. on \in [0..e -> w]
      BY <1>10, <3>1, <3>2
    <3> HIDE DEF on
    <3>5. \A i \in 0..d : way[i] # f
      BY <1>10, <3>1
    <3>6. \A i, j \in 0..e : on[i] = on[j] => i = j
      BY <1>10, <3>2, <3>3, <3>5
    <3>7. \A i \in 1..e : on[i] \in Names(h, m, on[i - 1])
      <4>1. TAKE i \in 1..e
      <4>2. CASE i = e
        <5>1. i - 1 = d /\ d \in 0..d
          BY <1>5, <3>1, <4>2
        <5>2. QED BY <3>1, <3>3, <4>2, <5>1
      <4>3. CASE i # e
        <5>1. i \in 1..d /\ i \in 0..d /\ i - 1 \in 0..d
          BY <1>5, <3>1, <4>3
        <5>2. QED BY <1>10, <3>3, <5>1
      <4>4. QED BY <4>2, <4>3
    <3>8. on[0] = m.file
      BY <1>5, <1>10, <3>3
    <3>9. Way(h, m, w, e, on)
      BY <3>4, <3>6, <3>7, <3>8 DEF Way
    <3>10. \A k \in 1..(n + 1) : new[k].file = on[new[k].depth]
      <4>1. TAKE k \in 1..(n + 1)
      <4>2. CASE k \in 1..n
        <5>1. new[k] = st[k] /\ st[k].depth \in 0..d /\ st[k].file = way[st[k].depth]
          BY <1>3, <1>4, <1>5, <1>6, <4>2 DEF d
        <5>2. QED BY <3>3, <5>1
      <4>3. CASE k = n + 1
        BY <1>3, <3>3, <4>3 DEF e, f
      <4>4. QED BY <1>7, <4>2, <4>3
    <3>11. QED BY <3>9, <3>10
  <2>3. QED BY <2>1, <2>2
<1>14. Stacked(h, m, w, new)
  <2>1. new[Len(new)].depth = e
    BY <1>3
  <2> HIDE DEF d, e, n
  <2>2. QED BY <1>3, <1>8, <1>9, <1>12, <1>13, <2>1 DEF Stacked, n
<1>15. QED BY <1>14 DEF new

-----------------------------------------------------------------------------
(* The invariant of the reader.                                            *)

Here == host.mains[next]

\* What was recorded and the room that is left for more.
Counted ==
  /\ observations \in Seq(ToSet(observations))
  /\ room \in 0..Room /\ room = Room - Len(observations) - Len(inStores)
  /\ completed \in BOOLEAN /\ full \in BOOLEAN /\ cancelled \in BOOLEAN

\* Where Collect has come to, and the sites it has yet to record.
Placing ==
  /\ main \in {"waiting", "main files", "sites", "read", "returned"}
  /\ next \in 1..(Len(host.mains) + 1)
  /\ main = "sites" => next <= Len(host.mains) /\ sites # <<>>
  /\ sites \in Seq(ToSet(sites)) /\ \A x \in ToSet(sites) : x.cert \in DOMAIN host.certs

\* A reader keeps to what its main file reaches, and what it notes is a reason.
ReadIn ==
  /\ visited \cup problems \subseteq DOMAIN host.files
  /\ opened \in 0..MaxFiles
  /\ serverRoot \in {"own"} \cup ServerRoots(host)
  /\ stack # <<>> =>
       /\ main = "main files" /\ next <= Len(host.mains)
       /\ Stacked(host, Here, visited, stack)
       /\ Here.file \in visited /\ visited \subseteq Reached(host, Here)
       /\ opened <= Cardinality(visited)
       /\ problems # {} => Unseen(host, Here)

\* Why a sweep may be incomplete.
Because ==
  \/ cancelled \/ full
  \/ \E c \in DOMAIN host.certs : host.certs[c] = "unreadable"
  \/ host.iis.state = "unreadable"
  \/ \E s \in DOMAIN host.iis.stores : ~host.iis.stores[s].readable
  \/ \E k \in DOMAIN host.iis.bound : host.iis.bound[k].cert \notin host.iis.stores[host.iis.bound[k].store].certs
  \/ \E m \in ToSet(host.mains) : Unseen(host, m)
Excused == ~completed => Because

ReaderInv == StoresInv /\ Counted /\ Placing /\ ReadIn /\ Excused

LEMMA MainsFacts ==
  ASSUME host \in Hosts
  PROVE  /\ Len(host.mains) \in Nat /\ DOMAIN host.mains = 1..Len(host.mains)
         /\ \A i \in 1..Len(host.mains) :
              host.mains[i] \in ToSet(host.mains) /\ host.mains[i].file \in DOMAIN host.files
<1> DEFINE q == host.mains
           M == [server : {"nginx", "apache"}, file : DOMAIN host.files]
<1>1. q \in Seq(M)
  BY ConfigurationsAssumption
<1>2. \A x \in M : x.file \in DOMAIN host.files
  OBVIOUS
<1> HIDE DEF q, M
<1>3. Len(q) \in Nat /\ DOMAIN q = 1..Len(q) /\ \A i \in 1..Len(q) : q[i] \in M
  BY <1>1
<1>4. \A i \in 1..Len(q) : q[i] \in ToSet(q)
  BY <1>3 DEF ToSet
<1>5. QED BY <1>2, <1>3, <1>4 DEF q

\* The items of a file.
LEMMA ItemsFacts ==
  ASSUME host \in Hosts, NEW f \in DOMAIN host.files
  PROVE  LET items == host.files[f].items
         IN Len(items) \in Nat /\ \A i \in 1..Len(items) : items[i] \in ToSet(items)
<1> DEFINE items == host.files[f].items
<1>1. items \in Seq(ToSet(items))
  BY ConfigurationsAssumption
<1> HIDE DEF items
<1>2. Len(items) \in Nat /\ \A i \in 1..Len(items) : items[i] \in ToSet(items)
  BY <1>1
<1>3. QED BY <1>2 DEF items

\* Whatever its innermost frame stands in was read, and can be.
LEMMA TopFacts ==
  ASSUME ReaderInv, stack # <<>>
  PROVE  /\ host \in Hosts /\ next \in 1..Len(host.mains) /\ Here \in ToSet(host.mains)
         /\ Stacked(host, Here, visited, stack)
         /\ IsFrame(host, Here, Top) /\ Top.file \in DOMAIN host.files
         /\ Top.file \in visited /\ Top.file \in Reached(host, Here)
<1>1. host \in Hosts /\ next \in 1..(Len(host.mains) + 1) /\ next <= Len(host.mains)
  BY DEF ReaderInv, StoresInv, Placing, ReadIn
<1>2. next \in 1..Len(host.mains) /\ Here \in ToSet(host.mains)
  BY <1>1, MainsFacts DEF Here
<1>3. Stacked(host, Here, visited, stack) /\ visited \subseteq Reached(host, Here)
  BY DEF ReaderInv, ReadIn
<1>4. /\ Len(stack) \in Nat \ {0} /\ Top = stack[Len(stack)] /\ IsFrame(host, Here, Top)
  BY <1>3, LastFacts DEF Top
<1>5. PICK way : /\ Way(host, Here, visited, stack[Len(stack)].depth, way)
                 /\ \A k \in 1..Len(stack) : stack[k].file = way[stack[k].depth]
  BY <1>3 DEF Stacked
<1>6. Top.depth \in Nat /\ Top.file \in DOMAIN host.files
  BY <1>4, ReaderBoundsAssumption DEF IsFrame
<1>7. way \in [0..Top.depth -> visited] /\ Top.file = way[Top.depth]
  BY <1>4, <1>5 DEF Way
<1>8. Top.file \in visited
  BY <1>6, <1>7
<1>9. QED BY <1>1, <1>2, <1>3, <1>4, <1>6, <1>8

LEMMA ItemFacts ==
  ASSUME ReaderInv, NEW ops, Come(ops)
  PROVE  /\ stack # <<>> /\ main = "main files" /\ Top.todo = <<>>
         /\ Item \in ToSet(host.files[Top.file].items) /\ Item.op \in ops
<1>1. stack # <<>> /\ main = "main files" /\ Top.todo = <<>> /\ ~AtEnd /\ Item.op \in ops
  BY DEF Come, Reading
<1>2. host \in Hosts /\ IsFrame(host, Here, Top) /\ Top.file \in DOMAIN host.files
  BY <1>1, TopFacts
<1>3. Top.pos \in Nat \ {0}
  BY <1>2 DEF IsFrame
<1>4. Len(host.files[Top.file].items) \in Nat /\ ~(Top.pos > Len(host.files[Top.file].items))
  BY <1>1, <1>2, ItemsFacts DEF AtEnd, File
<1>5. Top.pos \in 1..Len(host.files[Top.file].items)
  BY <1>3, <1>4
<1>6. Item \in ToSet(host.files[Top.file].items)
  BY <1>2, <1>5, ItemsFacts DEF Item, File
<1>7. QED BY <1>1, <1>6

\* Changes to a frame.
LEMMA FrameMoves ==
  ASSUME NEW h, NEW m, NEW fr, IsFrame(h, m, fr), NEW p \in Nat \ {0}
  PROVE  LET g == [fr EXCEPT !.pos = p] IN IsFrame(h, m, g) /\ Alike(g, fr)
<1> DEFINE g == [fr EXCEPT !.pos = p]
<1>1. DOMAIN fr = {"file", "op", "pos", "depth", "nodes", "todo"}
  BY DEF IsFrame
<1>2. /\ DOMAIN g = DOMAIN fr /\ g.pos = p /\ g.file = fr.file /\ g.op = fr.op /\ g.depth = fr.depth
      /\ g.nodes = fr.nodes /\ g.todo = fr.todo
  BY <1>1
<1> HIDE DEF g
<1>3. IsFrame(h, m, g)
  BY <1>1, <1>2 DEF IsFrame
<1>4. QED BY <1>2, <1>3 DEF Alike, g

LEMMA FrameGoesThrough ==
  ASSUME NEW h, NEW m, NEW fr, IsFrame(h, m, fr), NEW q \in Seq(Names(h, m, fr.file))
  PROVE  LET g == [fr EXCEPT !.todo = q] IN IsFrame(h, m, g) /\ Alike(g, fr)
<1> DEFINE g == [fr EXCEPT !.todo = q]
<1>1. DOMAIN fr = {"file", "op", "pos", "depth", "nodes", "todo"}
  BY DEF IsFrame
<1>2. /\ DOMAIN g = DOMAIN fr /\ g.pos = fr.pos /\ g.file = fr.file /\ g.op = fr.op /\ g.depth = fr.depth
      /\ g.nodes = fr.nodes /\ g.todo = q
  BY <1>1
<1> HIDE DEF g
<1>3. IsFrame(h, m, g)
  BY <1>1, <1>2 DEF IsFrame
<1>4. QED BY <1>2, <1>3 DEF Alike, g

LEMMA FrameGathers ==
  ASSUME NEW h, NEW m, NEW fr, IsFrame(h, m, fr), NEW q, Grown(h, q)
  PROVE  IsFrame(h, m, Added(fr, q)) /\ Alike(Added(fr, q), fr)
<1> DEFINE g == Added(fr, q)
<1>1. DOMAIN fr = {"file", "op", "pos", "depth", "nodes", "todo"}
  BY DEF IsFrame
<1>2. /\ DOMAIN g = DOMAIN fr /\ g.pos = fr.pos /\ g.file = fr.file /\ g.op = fr.op /\ g.depth = fr.depth
      /\ g.nodes = fr.nodes \o q /\ g.todo = fr.todo
  BY <1>1 DEF Added
<1> HIDE DEF g
<1>3. Grown(h, g.nodes)
  BY <1>2, GrownJoin DEF IsFrame
<1>4. IsFrame(h, m, g)
  BY <1>1, <1>2, <1>3 DEF IsFrame
<1>5. QED BY <1>2, <1>4 DEF Alike, g

LEMMA FrameBegins ==
  ASSUME NEW h, NEW m, NEW f, f \in DOMAIN h.files, NEW op, op \in {"file", "server", "section"},
         NEW p, p \in Nat \ {0}, NEW d, d \in 0..MaxDepth
  PROVE  IsFrame(h, m, Frame(f, op, p, d))
<1> DEFINE g == Frame(f, op, p, d)
<1>1. /\ DOMAIN g = {"file", "op", "pos", "depth", "nodes", "todo"}
      /\ g.pos = p /\ g.file = f /\ g.op = op /\ g.depth = d /\ g.nodes = <<>> /\ g.todo = <<>>
  BY DEF Frame
<1> HIDE DEF g
<1>2. <<>> \in Seq(Names(h, m, f))
  OBVIOUS
<1>3. IsFrame(h, m, g)
  BY <1>1, <1>2, GrownNone DEF IsFrame
<1>4. QED BY <1>1, <1>3 DEF g

\* A step of the reader that opens nothing.
LEMMA ReaderGoesOn ==
  ASSUME ReaderInv, stack # <<>>, UNCHANGED <<host, next, main, visited, opened>>,
         Stacked(host, Here, visited, stack'),
         serverRoot' \in {"own"} \cup ServerRoots(host),
         problems' \subseteq DOMAIN host.files, problems' # {} => Unseen(host, Here)
  PROVE  ReadIn'
<1>1. /\ visited \subseteq DOMAIN host.files /\ opened \in 0..MaxFiles
      /\ main = "main files" /\ next <= Len(host.mains)
      /\ Here.file \in visited /\ visited \subseteq Reached(host, Here)
      /\ opened <= Cardinality(visited)
  BY DEF ReaderInv, ReadIn
<1>2. Here' = Here
  BY DEF Here
<1>3. QED BY <1>1, <1>2 DEF ReadIn

LEMMA DirectiveKeeps == ReaderInv /\ Directive => ReadIn'
<1> SUFFICES ASSUME ReaderInv, Directive PROVE ReadIn'
  OBVIOUS
<1> DEFINE n == IF Item.op = "upstream"
                THEN Node("section", Top.file, "", <<Node("server", Top.file, "", <<>>)>>)
                ELSE Node(Item.op, Top.file, Item.value, <<>>)
           g == Added(Top, <<n>>)
           fr == [g EXCEPT !.pos = @ + 1]
<1>1. /\ Come({"certificate", "name", "upstream"}) /\ stack' = Append(Front(stack), fr)
      /\ UNCHANGED <<host, next, main, visited, opened, serverRoot, problems>>
  BY Zenon DEF Directive, SetTop, Under, readerVars
<1>2. /\ stack # <<>> /\ Item \in ToSet(host.files[Top.file].items)
      /\ Item.op \in {"certificate", "name", "upstream"}
  BY <1>1, ItemFacts
<1>3. /\ host \in Hosts /\ Stacked(host, Here, visited, stack) /\ IsFrame(host, Here, Top)
      /\ Top.file \in DOMAIN host.files
  BY <1>2, TopFacts
<1>4. Grown(host, <<n>>)
  <2>1. CASE Item.op = "upstream"
    <3>1. Grown(host, <<Node("server", Top.file, "", <<>>)>>)
      BY GrownNone, GrownNode
    <3>2. QED BY <2>1, <3>1, GrownNode
  <2>2. CASE Item.op # "upstream"
    <3>1. Item.op = "certificate" => Item.value \in DOMAIN host.certs \cup {NoFile}
      BY <1>2, <1>3, ConfigurationsAssumption
    <3>2. QED BY <2>2, <3>1, GrownNone, GrownNode
  <2>3. QED BY <2>1, <2>2
<1> HIDE DEF n
<1>5. IsFrame(host, Here, g) /\ Alike(g, Top)
  BY <1>3, <1>4, FrameGathers
<1> HIDE DEF g
<1>6. IsFrame(host, Here, fr) /\ Alike(fr, g)
  <2>1. g.pos + 1 \in Nat \ {0}
    BY <1>5 DEF IsFrame
  <2>2. QED BY <1>5, <2>1, FrameMoves
<1> HIDE DEF fr
<1>7. Stacked(host, Here, visited, stack')
  BY <1>1, <1>3, <1>5, <1>6, TopGoesOn DEF Top, Alike
<1>8. QED BY <1>1, <1>2, <1>7, ReaderGoesOn DEF ReaderInv, ReadIn

LEMMA ServerRootKeeps == ReaderInv /\ ServerRoot => ReadIn'
<1> SUFFICES ASSUME ReaderInv, ServerRoot PROVE ReadIn'
  OBVIOUS
<1> DEFINE fr == [Top EXCEPT !.pos = @ + 1]
<1>1. /\ Come({"server root"}) /\ stack' = Append(Front(stack), fr) /\ serverRoot' = Item.value
      /\ UNCHANGED <<host, next, main, visited, opened, problems>>
  BY Zenon DEF ServerRoot, SetTop, Under, readerVars
<1>2. stack # <<>> /\ Item \in ToSet(host.files[Top.file].items) /\ Item.op = "server root"
  <2>1. stack # <<>> /\ Item \in ToSet(host.files[Top.file].items) /\ Item.op \in {"server root"}
    BY <1>1, ItemFacts, Zenon
  <2>2. QED BY <2>1
<1>3. /\ Stacked(host, Here, visited, stack) /\ IsFrame(host, Here, Top)
      /\ Top.file \in DOMAIN host.files
  BY <1>2, TopFacts
<1>4. IsFrame(host, Here, fr) /\ Alike(fr, Top)
  <2>1. Top.pos + 1 \in Nat \ {0}
    BY <1>3 DEF IsFrame
  <2>2. QED BY <1>3, <2>1, FrameMoves
<1> HIDE DEF fr
<1>5. Stacked(host, Here, visited, stack')
  BY <1>1, <1>3, <1>4, TopGoesOn DEF Top
<1>6. serverRoot' \in ServerRoots(host)
  <2>1. Item.value \in {x.value : x \in {x \in ToSet(host.files[Top.file].items) : x.op = "server root"}}
    BY <1>2
  <2>2. QED BY <1>1, <1>3, <2>1 DEF ServerRoots
<1>7. QED BY <1>1, <1>2, <1>5, <1>6, ReaderGoesOn DEF ReaderInv, ReadIn

\* A plain path that names nothing is something unseen; none is hidden.
LEMMA IncludeKeeps == ReaderInv /\ Include => ReadIn'
<1> SUFFICES ASSUME ReaderInv, Include PROVE ReadIn'
  OBVIOUS
<1> DEFINE r == IF Here.server = "apache" THEN serverRoot ELSE "own"
           files == IF Item.hidden THEN <<>> ELSE Item.files[r]
           g == [Top EXCEPT !.pos = @ + 1]
           fr == [g EXCEPT !.todo = files]
<1>1. /\ Come({"include"}) /\ stack' = Append(Front(stack), [Top EXCEPT !.pos = @ + 1, !.todo = files])
      /\ problems' = problems \cup IF files = <<>> /\ Item.plain THEN {Top.file} ELSE {}
      /\ UNCHANGED <<host, next, main, visited, opened, serverRoot>>
  BY Zenon DEF Include, SetTop, Under, server, Here
<1>2. stack # <<>> /\ Item \in ToSet(host.files[Top.file].items) /\ Item.op = "include"
  <2>1. stack # <<>> /\ Item \in ToSet(host.files[Top.file].items) /\ Item.op \in {"include"}
    BY <1>1, ItemFacts, Zenon
  <2>2. QED BY <2>1
<1>3. /\ host \in Hosts /\ Stacked(host, Here, visited, stack) /\ IsFrame(host, Here, Top)
      /\ Top.file \in DOMAIN host.files /\ Top.file \in Reached(host, Here)
  BY <1>2, TopFacts
<1>4. r \in Roots(host, Here) /\ Item \in Includes(host, Top.file) /\ files \in Seq(Names(host, Here, Top.file))
  <2>1. serverRoot \in {"own"} \cup ServerRoots(host)
    BY DEF ReaderInv, ReadIn
  <2> HIDE DEF files
  <2>2. /\ r \in Roots(host, Here) /\ Item \in Includes(host, Top.file)
        /\ Item.files[r] \in Seq(Names(host, Here, Top.file))
    BY <1>2, <1>3, <2>1, IncludedAreNames
  <2>3. files = <<>> \/ files = Item.files[r]
    BY DEF files
  <2> DEFINE N == Names(host, Here, Top.file)
             named == Item.files[r]
  <2> HIDE DEF N, named
  <2>4. named \in Seq(N) /\ (files = <<>> \/ files = named)
    BY <2>2, <2>3 DEF N, named
  <2>5. <<>> \in Seq(N)
    OBVIOUS
  <2>6. files \in Seq(N)
    BY <2>4, <2>5, Zenon
  <2>7. QED BY <2>2, <2>6 DEF N
<1> HIDE DEF r, files
<1>5. IsFrame(host, Here, g) /\ Alike(g, Top)
  <2>1. Top.pos + 1 \in Nat \ {0}
    BY <1>3 DEF IsFrame
  <2>2. QED BY <1>3, <2>1, FrameMoves
<1>6. [Top EXCEPT !.pos = @ + 1, !.todo = files] = fr
  OBVIOUS
<1> HIDE DEF g
<1>7. IsFrame(host, Here, fr) /\ Alike(fr, g)
  <2>1. files \in Seq(Names(host, Here, g.file))
    BY <1>4, <1>5 DEF Alike
  <2>2. QED BY <1>5, <2>1, FrameGoesThrough
<1>8. stack' = Append(Front(stack), fr)
  BY <1>1, <1>6
<1> HIDE DEF fr
<1>9. Stacked(host, Here, visited, stack')
  BY <1>3, <1>5, <1>7, <1>8, TopGoesOn DEF Top, Alike
<1>10. files = <<>> /\ Item.plain => Unseen(host, Here)
  <2>1. Item.plain => files = Item.files[r]
    BY <1>2, <1>3, ConfigurationsAssumption DEF files
  <2>2. QED BY <1>3, <1>4, <2>1, Zenon DEF Unseen
<1>11. problems' \subseteq DOMAIN host.files /\ (problems' # {} => Unseen(host, Here))
  BY <1>1, <1>2, <1>3, <1>10 DEF ReaderInv, ReadIn
<1>12. QED BY <1>1, <1>2, <1>9, <1>11, ReaderGoesOn DEF ReaderInv, ReadIn

LEMMA SectionKeeps == ReaderInv /\ Section => ReadIn'
<1> SUFFICES ASSUME ReaderInv, Section PROVE ReadIn'
  OBVIOUS
<1> DEFINE fr == Frame(Top.file, Item.op, Top.pos + 1, Top.depth)
<1>1. /\ Come({"server", "section"}) /\ stack' = Append(stack, fr)
      /\ UNCHANGED <<host, next, main, visited, opened, serverRoot, problems>>
  BY Zenon DEF Section, readerVars
<1>2. stack # <<>> /\ Item.op \in {"server", "section"}
  BY <1>1, ItemFacts
<1>3. /\ Stacked(host, Here, visited, stack) /\ IsFrame(host, Here, Top)
      /\ Top.file \in DOMAIN host.files
  BY <1>2, TopFacts
<1>4. IsFrame(host, Here, fr) /\ fr.file = Top.file /\ fr.depth = Top.depth
  <2>1. Top.pos + 1 \in Nat \ {0} /\ Top.depth \in 0..MaxDepth
    BY <1>3 DEF IsFrame
  <2>2. Item.op \in {"file", "server", "section"}
    BY <1>2
  <2>3. IsFrame(host, Here, fr)
    BY <1>3, <2>1, <2>2, FrameBegins
  <2>4. QED BY <2>3 DEF Frame
<1> HIDE DEF fr
<1>5. Stacked(host, Here, visited, stack')
  BY <1>1, <1>3, <1>4, StackGrows DEF Top
<1>6. QED BY <1>1, <1>2, <1>5, ReaderGoesOn DEF ReaderInv, ReadIn

LEMMA EndSectionKeeps == ReaderInv /\ EndSection => ReadIn'
<1> SUFFICES ASSUME ReaderInv, EndSection PROVE ReadIn'
  OBVIOUS
<1> DEFINE outer == Last(Front(stack))
           p == IF AtEnd THEN Top.pos ELSE Top.pos + 1
           n == Node(Top.op, Top.file, "", Top.nodes)
           g == Added(outer, <<n>>)
           fr == [g EXCEPT !.pos = p]
<1>1. /\ stack # <<>> /\ main = "main files" /\ Top.op # "file" /\ stack' = Append(Front(Front(stack)), fr)
      /\ UNCHANGED <<host, next, main, visited, opened, serverRoot, problems>>
  BY Zenon DEF EndSection, Reading, Under, readerVars
<1>2. /\ Stacked(host, Here, visited, stack) /\ IsFrame(host, Here, Top)
  BY <1>1, TopFacts
<1>3. Len(stack) \in Nat /\ Len(stack) > 1 /\ IsFrame(host, Here, outer)
  <2>1. /\ Len(stack) \in Nat /\ Len(stack) > 1 /\ Len(Front(stack)) = Len(stack) - 1
        /\ \A k \in 1..(Len(stack) - 1) : Front(stack)[k] = stack[k]
    <3>1. Last(stack).op # "file" => Len(stack) > 1
      BY <1>2, LastFacts
    <3>2. Len(stack) > 1
      BY <1>1, <3>1 DEF Top
    <3>3. QED BY <1>2, <3>2, LastFacts
  <2>2. outer = stack[Len(stack) - 1] /\ Len(stack) - 1 \in 1..Len(stack)
    BY <2>1 DEF Last
  <2>3. QED BY <1>2, <2>1, <2>2 DEF Stacked
<1>4. Grown(host, <<n>>)
  BY <1>2, GrownNode DEF IsFrame
<1> HIDE DEF n, outer
<1>5. IsFrame(host, Here, g) /\ Alike(g, outer)
  BY <1>3, <1>4, FrameGathers
<1>6. p \in Nat \ {0}
  BY <1>2 DEF IsFrame
<1> HIDE DEF g, p
<1>7. IsFrame(host, Here, fr) /\ Alike(fr, g)
  BY <1>5, <1>6, FrameMoves
<1> HIDE DEF fr
<1>8. Stacked(host, Here, visited, stack')
  <2>1. Alike(fr, Last(Front(stack)))
    BY <1>5, <1>7 DEF Alike, outer
  <2>2. QED BY <1>1, <1>2, <1>3, <1>7, <2>1, TopEnds
<1>9. QED BY <1>1, <1>8, ReaderGoesOn DEF ReaderInv, ReadIn

\* An included file ends: its nodes go where the include stands.
LEMMA EndFileKeeps == ReaderInv /\ EndFile => ReadIn' /\ Placing' /\ Excused'
<1> SUFFICES ASSUME ReaderInv, EndFile PROVE ReadIn' /\ Placing' /\ Excused'
  OBVIOUS
<1>1. /\ stack # <<>> /\ main = "main files"
      /\ IF Under = <<>> THEN Parsed(Top.nodes)
         ELSE /\ stack' = Append(Front(Under), Added(Last(Under), Top.nodes))
              /\ UNCHANGED <<next, completed, sites, main>>
      /\ UNCHANGED <<host, visited, opened, problems, serverRoot, full, cancelled>>
  BY Zenon DEF EndFile, Reading, readerVars
<1>2. /\ host \in Hosts /\ Stacked(host, Here, visited, stack) /\ IsFrame(host, Here, Top)
      /\ next \in 1..Len(host.mains) /\ Here \in ToSet(host.mains)
  BY <1>1, TopFacts
<1>3. Len(host.mains) \in Nat /\ Grown(host, Top.nodes)
  BY <1>2, MainsFacts DEF IsFrame
<1>4. CASE Under = <<>>
  <2>1. /\ stack' = <<>> /\ completed' = (completed /\ problems = {})
        /\ sites' = Placements(server, Top.nodes)
        /\ IF sites' = <<>> THEN next' = next + 1 /\ UNCHANGED main ELSE main' = "sites" /\ UNCHANGED next
    BY <1>1, <1>4, Zenon DEF Parsed
  <2>2. ReadIn'
    BY <1>1, <2>1 DEF ReadIn, ReaderInv
  <2>3. sites' \in Seq(ToSet(sites')) /\ \A x \in ToSet(sites') : x.cert \in DOMAIN host.certs
    BY <1>2, <1>3, <2>1, PlacementsFacts
  <2>4. Placing'
    <3>1. CASE sites' = <<>>
      <4>1. main' = "main files" /\ next' = next + 1 /\ host' = host
        BY <1>1, <2>1, <3>1
      <4>2. next' \in 1..(Len(host.mains) + 1)
        <5>1. next \in 1..Len(host.mains) /\ Len(host.mains) \in Nat /\ next' = next + 1
          BY <1>2, <1>3, <4>1
        <5>2. QED BY <5>1
      <4>3. QED BY <2>3, <4>1, <4>2 DEF Placing
    <3>2. CASE sites' # <<>>
      <4>1. main' = "sites" /\ next' = next /\ host' = host
        BY <1>1, <2>1, <3>2
      <4>2. next' \in 1..(Len(host.mains) + 1) /\ next' <= Len(host.mains)
        BY <1>2, <1>3, <4>1
      <4>3. QED BY <2>3, <3>2, <4>1, <4>2 DEF Placing
    <3>3. QED BY <3>1, <3>2
  <2>5. Excused'
    <3>1. CASE problems = {}
      BY <1>1, <2>1, <3>1 DEF ReaderInv, Excused, Because
    <3>2. CASE problems # {}
      <4>1. Unseen(host, Here)
        BY <1>1, <3>2 DEF ReaderInv, ReadIn
      <4>2. QED BY <1>1, <1>2, <4>1 DEF Excused, Because
    <3>3. QED BY <3>1, <3>2
  <2>6. QED BY <2>2, <2>4, <2>5
<1>5. CASE Under # <<>>
  <2> DEFINE outer == Last(Front(stack))
             fr == Added(outer, Top.nodes)
  <2>1. /\ stack' = Append(Front(Front(stack)), fr) /\ UNCHANGED <<next, completed, sites, main>>
    BY <1>1, <1>5 DEF Under
  <2>2. Len(stack) > 1 /\ IsFrame(host, Here, outer)
    <3>1. /\ Len(stack) \in Nat /\ Len(stack) > 1 /\ Len(Front(stack)) = Len(stack) - 1
          /\ \A k \in 1..(Len(stack) - 1) : Front(stack)[k] = stack[k]
      BY <1>2, <1>5, LastFacts DEF Under
    <3>2. outer = stack[Len(stack) - 1] /\ Len(stack) - 1 \in 1..Len(stack)
      BY <3>1 DEF Last
    <3>3. QED BY <1>2, <3>1, <3>2 DEF Stacked
  <2>3. IsFrame(host, Here, fr) /\ Alike(fr, outer)
    BY <1>3, <2>2, FrameGathers
  <2> HIDE DEF fr
  <2>4. Stacked(host, Here, visited, stack')
    BY <1>2, <2>1, <2>2, <2>3, TopEnds
  <2>5. ReadIn'
    BY <1>1, <2>1, <2>4, ReaderGoesOn DEF ReaderInv, ReadIn
  <2>6. Placing' /\ Excused'
    BY <1>1, <2>1 DEF ReaderInv, Placing, Excused, Because
  <2>7. QED BY <2>5, <2>6
<1>6. QED BY <1>4, <1>5

\* A file that cannot be parsed is something unseen.
LEMMA BrokenKeeps == ReaderInv /\ Broken => ReadIn' /\ Placing' /\ Excused'
<1> SUFFICES ASSUME ReaderInv, Broken PROVE ReadIn' /\ Placing' /\ Excused'
  OBVIOUS
<1> DEFINE files == {i \in DOMAIN stack : stack[i].op = "file"}
           here == Max(files)
<1>1. /\ Come({"broken"})
      /\ IF here = 1
         THEN stack' = <<>> /\ next' = next + 1 /\ completed' = FALSE /\ UNCHANGED problems
         ELSE /\ stack' = SubSeq(stack, 1, here - 1)
              /\ problems' = problems \cup {stack[here].file}
              /\ UNCHANGED <<next, completed>>
      /\ UNCHANGED <<host, serverRoot, visited, opened, sites, full, cancelled, main>>
  BY Zenon DEF Broken
<1>2. /\ stack # <<>> /\ main = "main files"
      /\ Item \in ToSet(host.files[Top.file].items) /\ Item.op \in {"broken"}
  BY <1>1, ItemFacts, Zenon
<1>3. /\ host \in Hosts /\ Stacked(host, Here, visited, stack) /\ Top.file \in Reached(host, Here)
      /\ next \in 1..Len(host.mains) /\ Here \in ToSet(host.mains)
  BY <1>2, TopFacts
<1>4. Unseen(host, Here)
  BY <1>2, <1>3 DEF Unseen
<1>5. Len(stack) \in Nat \ {0} /\ DOMAIN stack = 1..Len(stack) /\ 1 \in files
  BY <1>3, LastFacts DEF Stacked
<1>6. here \in files /\ here \in 1..Len(stack)
  <2>1. files \in SUBSET (1..Len(stack)) /\ files # {}
    BY <1>5
  <2> HIDE DEF files
  <2>2. EntryFold!Max(files) \in files
    BY <1>5, <2>1, EntryFold!Largest
  <2>3. QED BY <2>1, <2>2 DEF Max, EntryFold!Max
<1>7. Len(host.mains) \in Nat
  BY <1>3, MainsFacts
<1> HIDE DEF here
<1>8. CASE here = 1
  <2>1. stack' = <<>> /\ next' = next + 1 /\ completed' = FALSE /\ UNCHANGED problems
    BY <1>1, <1>8
  <2>2. ReadIn'
    BY <1>1, <2>1 DEF ReaderInv, ReadIn
  <2>3. Placing'
    <3>1. next' \in 1..(Len(host.mains) + 1)
      BY <1>3, <1>7, <2>1
    <3>2. QED BY <1>1, <1>2, <3>1 DEF ReaderInv, Placing
  <2>4. Excused'
    BY <1>1, <1>3, <1>4 DEF Excused, Because
  <2>5. QED BY <2>2, <2>3, <2>4
<1>9. CASE here # 1
  <2>1. /\ stack' = SubSeq(stack, 1, here - 1) /\ problems' = problems \cup {stack[here].file}
        /\ UNCHANGED <<next, completed>>
    BY <1>1, <1>9
  <2>2. here - 1 \in 1..Len(stack)
    BY <1>5, <1>6, <1>9
  <2>3. Stacked(host, Here, visited, stack')
    BY <1>3, <2>1, <2>2, StackIsCut
  <2>4. stack[here].file \in DOMAIN host.files
    BY <1>3, <1>6 DEF Stacked, IsFrame
  <2>5. problems' \subseteq DOMAIN host.files
    BY <2>1, <2>4 DEF ReaderInv, ReadIn
  <2>6. ReadIn'
    BY <1>1, <1>2, <1>4, <2>1, <2>3, <2>5, ReaderGoesOn DEF ReaderInv, ReadIn
  <2>7. Placing' /\ Excused'
    BY <1>1, <2>1 DEF ReaderInv, Placing, Excused, Because
  <2>8. QED BY <2>6, <2>7
<1>10. QED BY <1>8, <1>9

\* More files than may be opened were reached.
LEMMA TooManyFiles ==
  ASSUME ReaderInv, stack # <<>>, NEW f \in Reached(host, Here), f \notin visited, opened >= MaxFiles
  PROVE  Cardinality(Reached(host, Here)) > MaxFiles
<1> DEFINE more == visited \cup {f}
           R == Reached(host, Here)
<1>1. host \in Hosts
  BY TopFacts
<1>2. /\ visited \subseteq R /\ opened \in 0..MaxFiles /\ opened <= Cardinality(visited)
  BY DEF ReaderInv, ReadIn
<1>3. IsFiniteSet(R)
  BY <1>1, ReachedFinite
<1> HIDE DEF R
<1>4. IsFiniteSet(visited) /\ Cardinality(visited) \in Nat
  BY <1>2, <1>3, FS_Subset, FS_CardinalityType
<1>5. Cardinality(more) = Cardinality(visited) + 1
  BY <1>4, FS_AddElement
<1>6. more \subseteq R
  BY <1>2 DEF R
<1>7. Cardinality(more) <= Cardinality(R) /\ Cardinality(R) \in Nat
  <2> HIDE DEF more
  <2>1. QED BY <1>3, <1>6, FS_Subset, FS_CardinalityType
<1> HIDE DEF more
<1>8. Cardinality(R) > MaxFiles
  BY <1>2, <1>4, <1>5, <1>7, ReaderBoundsAssumption
<1>9. QED BY <1>8 DEF R

\* The frames themselves show that an include is too deep.
LEMMA IncludeTooDeep ==
  ASSUME ReaderInv, stack # <<>>, NEW f \in Names(host, Here, Top.file), Top.depth + 1 > MaxDepth
  PROVE  TooDeep(host, Here)
<1>1. /\ Stacked(host, Here, visited, stack) /\ IsFrame(host, Here, Top) /\ visited \subseteq Reached(host, Here)
  BY TopFacts DEF ReaderInv, ReadIn
<1>2. Top.depth \in 0..MaxDepth /\ MaxDepth \in Nat
  BY <1>1, ReaderBoundsAssumption DEF IsFrame
<1>3. Top.depth = MaxDepth
  BY <1>2
<1>4. Len(stack) \in 1..Len(stack) /\ Top = stack[Len(stack)]
  BY <1>1, LastFacts DEF Top
<1>5. PICK way : /\ Way(host, Here, visited, MaxDepth, way)
                 /\ \A k \in 1..Len(stack) : stack[k].file = way[stack[k].depth]
  BY <1>1, <1>3, <1>4 DEF Stacked
<1>6. way[MaxDepth] = Top.file
  BY <1>3, <1>4, <1>5
<1>7. /\ way \in [0..MaxDepth -> visited] /\ way[0] = Here.file
      /\ \A i, j \in 0..MaxDepth : way[i] = way[j] => i = j
      /\ \A i \in 1..MaxDepth : way[i] \in Names(host, Here, way[i - 1])
  BY <1>5 DEF Way
<1>8. way \in [0..MaxDepth -> Reached(host, Here)]
  BY <1>1, <1>7
<1>9. Names(host, Here, way[MaxDepth]) # {}
  BY <1>6
<1>10. QED BY <1>7, <1>8, <1>9 DEF TooDeep

\* What an include brings in, or why it does not.
LEMMA SpliceKeeps == ReaderInv /\ Splice => ReadIn'
<1> SUFFICES ASSUME ReaderInv, Splice PROVE ReadIn'
  OBVIOUS
<1> DEFINE f == Head(Top.todo)
           rest == [Top EXCEPT !.todo = Tail(@)]
           over == Append(Front(stack), rest)
           more == visited \cup {f}
<1>1. /\ main = "main files" /\ stack # <<>> /\ Top.todo # <<>>
      /\ IF Top.depth + 1 > MaxDepth
         THEN stack' = over /\ problems' = problems \cup {f} /\ UNCHANGED <<visited, opened>>
         ELSE /\ Read(f)
              /\ stack' = over \o IF Refused(f) \/ PassedOver(f) THEN <<>> ELSE <<Frame(f, "file", 1, Top.depth + 1)>>
      /\ UNCHANGED <<host, next, serverRoot, main>>
  BY Zenon DEF Splice, SetTop, Under
<1>2. /\ host \in Hosts /\ Stacked(host, Here, visited, stack) /\ IsFrame(host, Here, Top)
      /\ Top.file \in DOMAIN host.files /\ Top.file \in Reached(host, Here)
  BY <1>1, TopFacts
<1> DEFINE N == Names(host, Here, Top.file)
<1>3. f \in N /\ Tail(Top.todo) \in Seq(N)
  <2> DEFINE q == Top.todo
  <2>1. q \in Seq(N) /\ q # <<>>
    BY <1>1, <1>2 DEF IsFrame
  <2> HIDE DEF N, q
  <2>2. Head(q) \in N /\ Tail(q) \in Seq(N)
    BY <2>1
  <2>3. QED BY <2>2 DEF q
<1>4. f \in Reached(host, Here) /\ f \in DOMAIN host.files
  BY <1>2, <1>3, ReachedNext, NamesAreFiles
<1>5. IsFrame(host, Here, rest) /\ Alike(rest, Top)
  BY <1>2, <1>3, FrameGoesThrough
<1> HIDE DEF f, rest
<1>6. /\ visited \subseteq DOMAIN host.files /\ problems \subseteq DOMAIN host.files /\ opened \in 0..MaxFiles
      /\ serverRoot \in {"own"} \cup ServerRoots(host)
      /\ next <= Len(host.mains) /\ Here.file \in visited /\ visited \subseteq Reached(host, Here)
      /\ opened <= Cardinality(visited)
      /\ problems # {} => Unseen(host, Here)
  BY <1>1 DEF ReaderInv, ReadIn
<1>7. Here' = Here
  BY <1>1 DEF Here
<1>8. CASE Top.depth + 1 > MaxDepth
  <2>1. stack' = over /\ problems' = problems \cup {f} /\ UNCHANGED <<visited, opened>>
    BY <1>1, <1>8
  <2>2. Stacked(host, Here, visited, stack')
    BY <1>2, <1>5, <2>1, TopGoesOn DEF Top
  <2>3. Unseen(host, Here)
    BY <1>1, <1>3, <1>8, IncludeTooDeep DEF Unseen
  <2>4. QED BY <1>1, <1>4, <1>6, <2>1, <2>2, <2>3, ReaderGoesOn
<1>9. CASE ~(Top.depth + 1 > MaxDepth)
  <2>1. /\ visited' = more
        /\ opened' = opened + (IF Refused(f) \/ PassedOver(f) THEN 0 ELSE 1)
        /\ problems' = problems \cup IF Refused(f) THEN {f} ELSE {}
        /\ stack' = over \o IF Refused(f) \/ PassedOver(f) THEN <<>> ELSE <<Frame(f, "file", 1, Top.depth + 1)>>
    BY <1>1, <1>9, Zenon DEF Read
  <2>2. IsFiniteSet(visited) /\ Cardinality(visited) \in Nat
    BY <1>2, <1>6, ReachedFinite, FS_Subset, FS_CardinalityType
  <2>3. Cardinality(more) = IF f \in visited THEN Cardinality(visited) ELSE Cardinality(visited) + 1
    BY <2>2, FS_AddElement
  <2>4. more \subseteq Reached(host, Here) /\ more \subseteq DOMAIN host.files /\ Here.file \in more /\ visited \subseteq more
    BY <1>4, <1>6
  <2>5. Refused(f) => Unseen(host, Here)
    <3>1. SUFFICES ASSUME Refused(f) PROVE Unseen(host, Here)
      OBVIOUS
    <3>2. f \notin visited /\ (opened >= MaxFiles \/ File(f).state \in {"missing", "unreadable", "large"})
      BY <3>1 DEF Refused
    <3>3. CASE opened >= MaxFiles
      BY <1>1, <1>4, <3>2, <3>3, TooManyFiles DEF Unseen
    <3>4. CASE File(f).state \in {"missing", "unreadable", "large"}
      <4>1. f # Here.file
        BY <1>6, <3>2
      <4>2. \/ host.files[f].state \in {"unreadable", "large"}
            \/ f # Here.file /\ host.files[f].state = "missing"
        BY <3>4, <4>1 DEF File
      <4>3. QED BY <1>4, <4>2 DEF Unseen
    <3>5. QED BY <3>2, <3>3, <3>4
  <2>6. problems' \subseteq DOMAIN host.files /\ (problems' # {} => Unseen(host, Here))
    BY <1>4, <1>6, <2>1, <2>5
  <2>7. Stacked(host, Here, more, over)
    BY <1>2, <1>5, <2>4, TopGoesOn DEF Top
  <2>8. Stacked(host, Here, visited, over)
    BY <1>2, <1>5, TopGoesOn DEF Top
  <2>9. CASE Refused(f) \/ PassedOver(f)
    <3>1. opened' = opened /\ stack' = over \o <<>>
      BY <1>6, <2>1, <2>9
    <3>2. stack' = over
      <4>1. over \in Seq(ToSet(over))
        BY <2>7 DEF Stacked
      <4> HIDE DEF over
      <4>2. QED BY <3>1, <4>1
    <3>3. opened' <= Cardinality(more)
      BY <1>6, <2>2, <2>3, <3>1
    <3> HIDE DEF over, more
    <3>4. QED BY <1>1, <1>6, <1>7, <2>1, <2>4, <2>6, <2>7, <3>1, <3>2, <3>3 DEF ReadIn
  <2>10. CASE ~(Refused(f) \/ PassedOver(f))
    <3> DEFINE fr == Frame(f, "file", 1, Top.depth + 1)
    <3>1. opened' = opened + 1 /\ stack' = over \o <<fr>>
      BY <2>1, <2>10
    <3>2. f \notin visited /\ ~(opened >= MaxFiles)
      BY <2>10 DEF Refused, PassedOver
    <3>3. /\ IsFrame(host, Here, fr) /\ fr.file = f /\ fr.depth = Top.depth + 1
      <4> DEFINE d == Top.depth + 1
                 op == "file"
                 p == 1
      <4>1. d \in 0..MaxDepth /\ p \in Nat \ {0} /\ op \in {"file", "server", "section"}
        BY <1>2, <1>9, ReaderBoundsAssumption DEF IsFrame
      <4> HIDE DEF d, op, p
      <4>2. IsFrame(host, Here, Frame(f, op, p, d))
        BY <1>4, <4>1, FrameBegins
      <4>3. Frame(f, op, p, d).file = f /\ Frame(f, op, p, d).depth = d
        BY DEF Frame
      <4>4. QED BY <4>2, <4>3 DEF d, op, p
    <3> HIDE DEF fr
    <3>4. stack' = Append(over, fr)
      <4>1. over \in Seq(ToSet(over))
        BY <2>7 DEF Stacked
      <4> HIDE DEF over
      <4>2. QED BY <3>1, <4>1
    <3>5. Last(over) = rest
      <4>1. Front(stack) \in Seq(ToSet(stack))
        <5>1. stack \in Seq(ToSet(stack))
          BY <1>2 DEF Stacked
        <5>2. \A C : stack \in Seq(C) => Front(stack) \in Seq(C)
          BY <1>2, LastFacts
        <5>3. QED BY <5>1, <5>2, Zenon
      <4>2. over[Len(Front(stack)) + 1] = rest /\ Len(over) = Len(Front(stack)) + 1
        BY <4>1, AppendFacts
      <4>3. QED BY <4>2 DEF Last
    <3> HIDE DEF over
    <3>6. Stacked(host, Here, more, stack')
      <4>1. rest.file = Top.file /\ rest.depth = Top.depth
        BY <1>5 DEF Alike
      <4>2. /\ fr.depth = Last(over).depth + 1 /\ fr.file \in Names(host, Here, Last(over).file)
            /\ fr.file \in more /\ fr.file \notin visited
        BY <1>3, <3>2, <3>3, <3>5, <4>1
      <4>3. QED BY <2>4, <2>8, <3>3, <3>4, <4>2, StackGrows
    <3>7. opened' \in 0..MaxFiles /\ opened' <= Cardinality(more)
      BY <1>6, <2>2, <2>3, <3>1, <3>2, ReaderBoundsAssumption
    <3> HIDE DEF more
    <3>8. QED BY <1>1, <1>6, <1>7, <2>1, <2>4, <2>6, <3>6, <3>7 DEF ReadIn
  <2>11. QED BY <2>9, <2>10
<1>10. QED BY <1>8, <1>9

\* A main file that cannot be read is something unseen, and a new reader has seen
\* its main file only.
LEMMA BeginKeeps == ReaderInv /\ Begin => ReadIn' /\ Placing' /\ Excused'
<1> SUFFICES ASSUME ReaderInv, Begin PROVE ReadIn' /\ Placing' /\ Excused'
  OBVIOUS
<1> DEFINE f == host.mains[next].file
<1>1. /\ main = "main files" /\ stack = <<>> /\ next <= Len(host.mains)
      /\ visited' = {f} /\ serverRoot' = "own"
      /\ opened' = IF File(f).state = "ok" THEN 1 ELSE 0
      /\ problems' = IF File(f).state \in {"unreadable", "large"} THEN {f} ELSE {}
      /\ IF File(f).state = "ok"
         THEN stack' = <<Frame(f, "file", 1, 0)>> /\ UNCHANGED <<next, completed>>
         ELSE /\ next' = next + 1 /\ completed' = (completed /\ problems' = {})
              /\ UNCHANGED stack
      /\ UNCHANGED <<host, sites, full, cancelled, main>>
  BY Zenon DEF Begin
<1>2. host \in Hosts /\ next \in 1..(Len(host.mains) + 1)
  BY DEF ReaderInv, StoresInv, Placing
<1>3. Len(host.mains) \in Nat /\ DOMAIN host.mains = 1..Len(host.mains)
  BY <1>2, MainsFacts
<1>4. next \in 1..Len(host.mains)
  <2>1. /\ Len(host.mains) \in Nat /\ next \in 1..(Len(host.mains) + 1) /\ next <= Len(host.mains)
    BY <1>1, <1>2, <1>3
  <2>2. QED BY <2>1
<1>5. f \in DOMAIN host.files /\ Here \in ToSet(host.mains) /\ f = Here.file
  BY <1>2, <1>4, MainsFacts DEF Here
<1>6. f \in Reached(host, Here)
  BY <1>2, <1>3, <1>4, ReachedFirst DEF Here
<1> HIDE DEF f
<1>7. /\ visited' \cup problems' \subseteq DOMAIN host.files /\ opened' \in 0..MaxFiles
      /\ serverRoot' \in {"own"} \cup ServerRoots(host)
  <2>1. problems' \subseteq {f} /\ visited' = {f} /\ serverRoot' = "own"
    BY <1>1
  <2>2. opened' \in {0, 1}
    BY <1>1
  <2>3. {0, 1} \subseteq 0..MaxFiles
    BY ReaderBoundsAssumption
  <2>4. visited' \cup problems' \subseteq DOMAIN host.files
    BY <1>5, <2>1
  <2>5. QED BY <2>1, <2>2, <2>3, <2>4
<1>8. CASE File(f).state = "ok"
  <2> DEFINE fr == Frame(f, "file", 1, 0)
  <2>1. stack' = <<fr>> /\ opened' = 1 /\ problems' = {} /\ UNCHANGED <<next, completed>>
    BY <1>1, <1>8
  <2>2. IsFrame(host, Here, fr) /\ fr.file = f /\ fr.op = "file" /\ fr.depth = 0
    <3>1. 0 \in 0..MaxDepth /\ 1 \in Nat \ {0} /\ "file" \in {"file", "server", "section"}
      BY ReaderBoundsAssumption
    <3>2. IsFrame(host, Here, fr)
      BY <1>5, <3>1, FrameBegins
    <3>3. QED BY <3>2 DEF Frame
  <2> HIDE DEF fr
  <2>3. Stacked(host, Here, {f}, <<fr>>)
    <3> DEFINE st == <<fr>>
               way == [i \in 0..0 |-> f]
    <3>1. /\ Len(st) = 1 /\ st[1] = fr /\ st # <<>> /\ st \in Seq({fr})
      OBVIOUS
    <3>2. st \in Seq(ToSet(st))
      <4> HIDE DEF st
      <4>1. QED BY <3>1, Members
    <3>3. way \in [0..0 -> {f}] /\ way[0] = f
      OBVIOUS
    <3> HIDE DEF way
    <3>4. Way(host, Here, {f}, 0, way)
      <4>1. way \in [0..0 -> {f}] /\ way[0] = Here.file
        BY <1>5, <3>3
      <4>2. (\A i, j \in 0..0 : way[i] = way[j] => i = j) /\ 1..0 = {}
        OBVIOUS
      <4>3. QED BY <4>1, <4>2 DEF Way
    <3> HIDE DEF st
    <3>5. \A k \in 1..Len(st) : k = 1
      BY <3>1
    <3>6. st[Len(st)].depth = 0 /\ \A k \in 1..Len(st) : st[k].file = way[st[k].depth]
      BY <2>2, <3>1, <3>3, <3>5
    <3>7. (\A k \in 1..Len(st) : IsFrame(host, Here, st[k])) /\ st[1].op = "file"
      BY <2>2, <3>1, <3>5
    <3>8. \A j, k \in 1..Len(st) : j <= k => st[j].depth <= st[k].depth
      BY <2>2, <3>1, <3>5
    <3>9. Stacked(host, Here, {f}, st)
      BY <3>1, <3>2, <3>4, <3>6, <3>7, <3>8 DEF Stacked
    <3>10. QED BY <3>9 DEF st
  <2>4. Cardinality({f}) = 1
    BY FS_EmptySet, FS_AddElement
  <2>5. ReadIn'
    <3>1. Here' = Here /\ main' = "main files" /\ next' <= Len(host.mains)
      BY <1>1, <2>1 DEF Here
    <3>2. opened' <= Cardinality(visited')
      <4>1. visited' = {f} /\ opened' = 1
        BY <1>1, <2>1
      <4>2. Cardinality(visited') = 1
        BY <2>4, <4>1
      <4>3. QED BY <4>1, <4>2
    <3>3. Stacked(host, Here, visited', stack')
      BY <1>1, <2>1, <2>3
    <3>4. Here.file \in visited' /\ visited' \subseteq Reached(host, Here)
      BY <1>1, <1>5, <1>6
    <3>5. QED BY <1>1, <1>7, <2>1, <3>1, <3>2, <3>3, <3>4 DEF ReadIn
  <2>6. Placing' /\ Excused'
    BY <1>1, <2>1 DEF ReaderInv, Placing, Excused, Because
  <2>7. QED BY <2>5, <2>6
<1>9. CASE File(f).state # "ok"
  <2>1. next' = next + 1 /\ completed' = (completed /\ problems' = {}) /\ stack' = <<>>
    BY <1>1, <1>9
  <2>2. ReadIn'
    BY <1>1, <1>7, <2>1 DEF ReadIn
  <2>3. Placing'
    <3>1. next' \in 1..(Len(host.mains) + 1)
      BY <1>3, <1>4, <2>1
    <3>2. QED BY <1>1, <3>1 DEF ReaderInv, Placing
  <2>4. Excused'
    <3>1. CASE problems' = {}
      BY <1>1, <2>1, <3>1 DEF ReaderInv, Excused, Because
    <3>2. CASE problems' # {}
      <4>1. host.files[f].state \in {"unreadable", "large"}
        BY <1>1, <3>2 DEF File
      <4>2. Unseen(host, Here)
        BY <1>6, <4>1 DEF Unseen
      <4>3. QED BY <1>1, <1>5, <4>2 DEF Excused, Because
    <3>3. QED BY <3>1, <3>2
  <2>5. QED BY <2>2, <2>3, <2>4
<1>10. QED BY <1>8, <1>9

LEMMA AppendIsSeq ==
  ASSUME NEW q, q \in Seq(ToSet(q)), NEW c
  PROVE  Append(q, c) \in Seq(ToSet(Append(q, c))) /\ Len(Append(q, c)) = Len(q) + 1
BY AppendFacts

\* A certificate file that cannot be read is a reason; one that is gone is none.
LEMMA RecordSiteKeeps == ReaderInv /\ RecordSite => Counted' /\ Placing' /\ ReadIn' /\ Excused'
<1> SUFFICES ASSUME ReaderInv, RecordSite PROVE Counted' /\ Placing' /\ ReadIn' /\ Excused'
  OBVIOUS
<1> DEFINE s == Head(sites)
           o == [location |-> s.location, cert |-> s.cert]
<1>1. /\ main = "sites"
      /\ CASE host.certs[s.cert] = "ok" -> Observe(o)
           [] host.certs[s.cert] \in {"gone", "relative", "nothing"} -> UNCHANGED resultVars
           [] OTHER -> completed' = FALSE /\ UNCHANGED <<observations, room, full>>
      /\ sites' = Tail(sites)
      /\ IF sites' = <<>> THEN main' = "main files" /\ next' = next + 1 ELSE UNCHANGED <<main, next>>
      /\ UNCHANGED <<host, inStores, stack, serverRoot, visited, opened, problems, cancelled>>
  BY Zenon DEF RecordSite, storeVars, readerVars
<1>2. /\ host \in Hosts /\ next \in 1..(Len(host.mains) + 1) /\ next <= Len(host.mains) /\ sites # <<>>
      /\ sites \in Seq(ToSet(sites)) /\ \A x \in ToSet(sites) : x.cert \in DOMAIN host.certs
      /\ stack = <<>>
  BY <1>1 DEF ReaderInv, StoresInv, Placing, ReadIn
<1>3. s \in ToSet(sites) /\ Tail(sites) \in Seq(ToSet(sites)) /\ ToSet(Tail(sites)) \subseteq ToSet(sites)
  BY <1>2, HeadTail
<1>4. s.cert \in DOMAIN host.certs
  BY <1>2, <1>3
<1>5. host.certs[s.cert] \in {"ok", "gone", "relative", "nothing", "unreadable"}
  BY <1>2, <1>4, ConfigurationsAssumption
<1> HIDE DEF o, s
<1>6. Placing'
  <2>1. sites' \in Seq(ToSet(sites')) /\ \A x \in ToSet(sites') : x.cert \in DOMAIN host.certs
    <3>1. Tail(sites) \in Seq(ToSet(Tail(sites)))
      BY <1>3, Members
    <3>2. QED BY <1>1, <1>2, <1>3, <3>1
  <2>2. Len(host.mains) \in Nat
    BY <1>2, MainsFacts
  <2>3. next' \in 1..(Len(host.mains) + 1) /\ main' \in {"main files", "sites"}
    <3>1. CASE sites' = <<>>
      <4>1. main' = "main files" /\ next' = next + 1
        BY <1>1, <3>1
      <4>2. /\ next \in 1..(Len(host.mains) + 1) /\ next <= Len(host.mains) /\ Len(host.mains) \in Nat
            /\ next' = next + 1
        BY <1>2, <2>2, <4>1
      <4>3. next' \in 1..(Len(host.mains) + 1)
        <5>1. QED BY <4>2
      <4>4. QED BY <4>1, <4>3
    <3>2. CASE sites' # <<>>
      <4>1. main' = main /\ next' = next /\ main = "sites"
        BY <1>1, <3>2
      <4>2. QED BY <1>2, <4>1
    <3>3. QED BY <3>1, <3>2
  <2>4. main' = "sites" => next' <= Len(host.mains) /\ sites' # <<>>
    BY <1>1, <1>2
  <2>5. QED BY <1>1, <2>1, <2>3, <2>4 DEF Placing
<1>7. ReadIn'
  BY <1>1, <1>2 DEF ReaderInv, ReadIn
<1>8. Counted' /\ Excused'
  <2>1. /\ observations \in Seq(ToSet(observations)) /\ Len(observations) \in Nat
        /\ room \in 0..Room /\ room = Room - Len(observations) - Len(inStores)
        /\ completed \in BOOLEAN /\ full \in BOOLEAN /\ cancelled \in BOOLEAN
        /\ inStores \in Seq(ToSet(inStores)) /\ Len(inStores) \in Nat
    BY Members DEF ReaderInv, Counted, StoresInv
  <2>2. CASE host.certs[s.cert] = "ok"
    <3>1. IF full \/ room = 0
          THEN full' = TRUE /\ completed' = FALSE /\ UNCHANGED <<observations, room>>
          ELSE /\ observations' = Append(observations, o) /\ room' = room - 1 /\ UNCHANGED full
               /\ completed' \in {completed, completed /\ ~cancelled}
      BY <1>1, <2>2, Zenon DEF Observe
    <3>2. CASE full \/ room = 0
      <4>1. full' = TRUE /\ completed' = FALSE /\ UNCHANGED <<observations, room>>
        BY <3>1, <3>2
      <4>2. Counted'
        BY <1>1, <2>1, <4>1 DEF Counted
      <4>3. QED BY <4>1, <4>2 DEF Excused, Because
    <3>3. CASE ~(full \/ room = 0)
      <4>1. /\ observations' = Append(observations, o) /\ room' = room - 1 /\ UNCHANGED full
            /\ completed' \in {completed, completed /\ ~cancelled}
        BY <3>1, <3>3
      <4>2. observations' \in Seq(ToSet(observations')) /\ Len(observations') = Len(observations) + 1
        BY <2>1, <4>1, AppendIsSeq
      <4>3. room' \in 0..Room /\ room' = Room - Len(observations') - Len(inStores)
        <5>1. room' = room - 1 /\ room # 0
          BY <3>3, <4>1
        <5>2. room' \in 0..Room
          BY <2>1, <5>1, RoomAssumption
        <5>3. room' = Room - Len(observations') - Len(inStores)
          BY <2>1, <4>2, <5>1, RoomAssumption
        <5>4. QED BY <5>2, <5>3
      <4>4. completed' \in BOOLEAN
        BY <2>1, <4>1
      <4>5. Counted'
        BY <1>1, <2>1, <4>1, <4>2, <4>3, <4>4 DEF Counted
      <4>6. completed' = completed \/ cancelled'
        BY <1>1, <2>1, <4>1
      <4>7. QED BY <1>1, <4>1, <4>5, <4>6 DEF ReaderInv, Excused, Because
    <3>4. QED BY <3>2, <3>3
  <2>3. CASE host.certs[s.cert] \in {"gone", "relative", "nothing"}
    <3>1. UNCHANGED <<observations, completed, room, full>>
      BY <1>1, <2>3 DEF resultVars
    <3>2. QED BY <1>1, <2>1, <3>1 DEF ReaderInv, Counted, Excused, Because
  <2>4. CASE host.certs[s.cert] = "unreadable"
    <3>1. completed' = FALSE /\ UNCHANGED <<observations, room, full>>
      BY <1>1, <2>4
    <3>2. Because'
      BY <1>1, <1>4, <2>4 DEF Because
    <3>3. Counted'
      BY <1>1, <2>1, <3>1 DEF Counted
    <3>4. QED BY <3>2, <3>3 DEF Excused
  <2>5. QED BY <1>5, <2>2, <2>3, <2>4
<1>9. QED BY <1>6, <1>7, <1>8

\* IIS is incomplete for what it could not read, and for what the run refused.
LEMMA IISKeeps == ReaderInv /\ IIS => Counted' /\ Placing' /\ ReadIn' /\ Excused'
<1> SUFFICES ASSUME ReaderInv, IIS PROVE Counted' /\ Placing' /\ ReadIn' /\ Excused'
  OBVIOUS
<1> DEFINE q == IISObservations(host.iis)
           n == IF full THEN 0 ELSE IF Len(q) > room THEN room ELSE Len(q)
<1>1. /\ main = "main files" /\ stack = <<>> /\ main' = "read"
      /\ CASE host.iis.state = "absent" \/ (host.iis.state = "ok" /\ host.iis.bindings = <<>>) -> UNCHANGED resultVars
           [] host.iis.state = "unreadable" -> completed' = FALSE /\ UNCHANGED <<observations, room, full>>
           [] OTHER ->
                /\ observations' = observations \o SubSeq(q, 1, n) /\ room' = room - n
                /\ full' = (full \/ n < Len(q))
                /\ completed' = (completed /\ IISComplete(host.iis) /\ n = Len(q))
      /\ UNCHANGED <<host, inStores, next, stack, serverRoot, visited, opened, problems, sites, cancelled>>
  BY Zenon DEF IIS, storeVars, readerVars
<1>2. host \in Hosts
  BY DEF ReaderInv, StoresInv
<1>3. Placing' /\ ReadIn'
  <2>1. Placing'
    BY <1>1 DEF ReaderInv, Placing
  <2>2. ReadIn'
    BY <1>1 DEF ReaderInv, ReadIn
  <2>3. QED BY <2>1, <2>2
<1>4. /\ observations \in Seq(ToSet(observations)) /\ Len(observations) \in Nat
      /\ room \in 0..Room /\ room = Room - Len(observations) - Len(inStores)
      /\ completed \in BOOLEAN /\ full \in BOOLEAN /\ cancelled \in BOOLEAN
      /\ inStores \in Seq(ToSet(inStores)) /\ Len(inStores) \in Nat
  BY Members DEF ReaderInv, Counted, StoresInv
<1>5. q \in Seq(ToSet(q)) /\ Len(q) \in Nat
  BY <1>2, IISObservationsType
<1> HIDE DEF q
<1>6. CASE host.iis.state = "absent" \/ (host.iis.state = "ok" /\ host.iis.bindings = <<>>)
  <2>1. UNCHANGED <<observations, completed, room, full>>
    BY <1>1, <1>6 DEF resultVars
  <2>2. QED BY <1>1, <1>3, <1>4, <2>1 DEF ReaderInv, Counted, Excused, Because
<1>7. CASE host.iis.state = "unreadable"
  <2>1. completed' = FALSE /\ UNCHANGED <<observations, room, full>>
    BY <1>1, <1>7
  <2>2. Because'
    BY <1>1, <1>7 DEF Because
  <2>3. QED BY <1>1, <1>3, <1>4, <2>1, <2>2 DEF Counted, Excused
<1>8. CASE ~(host.iis.state = "absent" \/ (host.iis.state = "ok" /\ host.iis.bindings = <<>>)) /\ host.iis.state # "unreadable"
  <2>1. /\ observations' = observations \o SubSeq(q, 1, n) /\ room' = room - n
        /\ full' = (full \/ n < Len(q))
        /\ completed' = (completed /\ IISComplete(host.iis) /\ n = Len(q))
    BY <1>1, <1>8
  <2>2. n \in 0..Len(q) /\ n <= room /\ n \in Nat
    BY <1>4, <1>5, RoomAssumption
  <2> HIDE DEF n
  <2> DEFINE first == SubSeq(q, 1, n)
             C == ToSet(observations) \cup ToSet(q)
  <2>3. first \in Seq(ToSet(q)) /\ Len(first) = n
    BY <1>5, <2>2, FirstSet
  <2> HIDE DEF first
  <2>4. observations \in Seq(C) /\ first \in Seq(C)
    BY <1>4, <2>3
  <2> HIDE DEF C
  <2>5. observations \o first \in Seq(C) /\ Len(observations \o first) = Len(observations) + n
    BY <2>3, <2>4
  <2>6. observations' \in Seq(ToSet(observations')) /\ Len(observations') = Len(observations) + n
    <3>1. observations' = observations \o first
      BY <2>1 DEF first
    <3>2. QED BY <2>5, <3>1, Members
  <2>7. Counted'
    <3>1. room' \in 0..Room /\ room' = Room - Len(observations') - Len(inStores)
      <4>1. room' = room - n /\ n \in Nat /\ n <= room
        BY <2>1, <2>2
      <4>2. room \in 0..Room /\ room' \in 0..Room
        BY <1>4, <4>1, RoomAssumption
      <4>3. room' = Room - Len(observations') - Len(inStores)
        BY <1>4, <2>6, <4>1, RoomAssumption
      <4>4. QED BY <4>2, <4>3
    <3>2. completed' \in BOOLEAN /\ full' \in BOOLEAN
      BY <1>4, <2>1
    <3>3. QED BY <1>1, <1>4, <2>6, <3>1, <3>2 DEF Counted
  <2>8. Excused'
    <3>1. CASE ~IISComplete(host.iis)
      <4>1. Because'
        BY <1>1, <1>2, <3>1, IISIncompleteFor DEF Because
      <4>2. QED BY <4>1 DEF Excused
    <3>2. CASE n # Len(q)
      <4>1. full'
        <5>1. n < Len(q)
          BY <1>5, <2>2, <3>2
        <5>2. full' = TRUE
          BY <2>1, <5>1
        <5>3. QED BY <5>2
      <4>2. QED BY <4>1 DEF Excused, Because
    <3>3. CASE IISComplete(host.iis) /\ n = Len(q)
      <4>1. (completed' = completed) /\ (full => full')
        BY <1>4, <2>1, <3>3
      <4>2. QED BY <1>1, <4>1 DEF ReaderInv, Excused, Because
    <3>4. QED BY <3>1, <3>2, <3>3
  <2>9. QED BY <1>3, <2>7, <2>8
<1>9. QED BY <1>6, <1>7, <1>8

-----------------------------------------------------------------------------
(* The invariant holds, step by step.                                      *)

\* Where there is no frame, the reader is at rest.
LEMMA ReaderRests ==
  ASSUME ReaderInv, stack = <<>>, UNCHANGED <<host, stack, serverRoot, visited, opened, problems>>
  PROVE  ReadIn'
<1>1. /\ visited \cup problems \subseteq DOMAIN host.files /\ opened \in 0..MaxFiles
      /\ serverRoot \in {"own"} \cup ServerRoots(host)
  BY DEF ReaderInv, ReadIn
<1>2. QED BY <1>1 DEF ReadIn

\* A step that takes no reason away and gives nothing up.
LEMMA ReasonsStay ==
  ASSUME ReaderInv, host' = host, cancelled => cancelled', full => full', completed' = completed
  PROVE  Excused'
BY DEF ReaderInv, Excused, Because

\* Steps that record nothing.
LEMMA CountsStay ==
  ASSUME ReaderInv, UNCHANGED <<observations, room, inStores>>,
         completed' \in BOOLEAN, full' \in BOOLEAN, cancelled' \in BOOLEAN
  PROVE  Counted'
BY DEF ReaderInv, Counted

LEMMA CollectKeeps ==
  ReaderInv /\ (Start \/ Absent \/ Return \/ Stop \/ Cancel) => Counted' /\ Placing' /\ ReadIn' /\ Excused'
<1> SUFFICES ASSUME ReaderInv, Start \/ Absent \/ Return \/ Stop \/ Cancel
             PROVE  Counted' /\ Placing' /\ ReadIn' /\ Excused'
  OBVIOUS
<1>1. /\ host \in Hosts /\ next \in 1..(Len(host.mains) + 1)
      /\ completed \in BOOLEAN /\ full \in BOOLEAN /\ cancelled \in BOOLEAN
      /\ stack # <<>> => main = "main files"
  BY DEF ReaderInv, StoresInv, Placing, Counted, ReadIn
<1>2. Len(host.mains) \in Nat
  BY <1>1, MainsFacts
<1>3. CASE Start
  <2>1. /\ main = "waiting" /\ main' \in {"returned", "main files"}
        /\ IF full THEN completed' = FALSE ELSE completed' = completed
        /\ UNCHANGED <<host, room, full, cancelled, inStores, next, stack, serverRoot, visited, opened,
                       problems, sites, observations>>
    BY <1>3 DEF Start, storeVars, readerVars
  <2>2. stack = <<>>
    BY <1>1, <2>1
  <2>3. completed' \in BOOLEAN
    BY <1>1, <2>1
  <2>4. Counted' /\ ReadIn'
    BY <1>1, <2>1, <2>2, <2>3, CountsStay, ReaderRests
  <2>5. Placing'
    BY <2>1 DEF ReaderInv, Placing
  <2>6. Excused'
    BY <2>1 DEF ReaderInv, Excused, Because
  <2>7. QED BY <2>4, <2>5, <2>6
<1>4. CASE Absent
  <2>1. /\ main = "main files" /\ stack = <<>> /\ next <= Len(host.mains) /\ next' = next + 1
        /\ UNCHANGED <<host, room, full, cancelled, inStores, stack, serverRoot, visited, opened,
                       problems, sites, observations, completed, main>>
    BY <1>4 DEF Absent, storeVars, readerVars, resultVars
  <2>2. Counted' /\ ReadIn' /\ Excused'
    BY <1>1, <2>1, CountsStay, ReaderRests, ReasonsStay
  <2>3. next' \in 1..(Len(host.mains) + 1)
    <3>1. /\ next \in 1..(Len(host.mains) + 1) /\ next <= Len(host.mains) /\ Len(host.mains) \in Nat
          /\ next' = next + 1
      BY <1>1, <1>2, <2>1
    <3>2. QED BY <3>1
  <2>4. Placing'
    BY <2>1, <2>3 DEF ReaderInv, Placing
  <2>5. QED BY <2>2, <2>4
<1>5. CASE Return
  <2>1. /\ main = "read" /\ main' = "returned"
        /\ UNCHANGED <<host, room, full, cancelled, inStores, next, stack, serverRoot, visited, opened,
                       problems, sites, observations, completed>>
    BY <1>5 DEF Return, storeVars, readerVars, resultVars
  <2>2. stack = <<>>
    BY <1>1, <2>1
  <2>3. Counted' /\ ReadIn' /\ Excused'
    BY <1>1, <2>1, <2>2, CountsStay, ReaderRests, ReasonsStay
  <2>4. Placing'
    BY <2>1 DEF ReaderInv, Placing
  <2>5. QED BY <2>3, <2>4
<1>6. CASE Stop
  <2>1. /\ stack = <<>> /\ cancelled /\ completed' = FALSE /\ main' = "returned"
        /\ UNCHANGED <<host, room, full, cancelled, inStores, next, stack, serverRoot, visited, opened,
                       problems, sites, observations>>
    BY <1>6 DEF Stop, storeVars, readerVars
  <2>2. completed' \in BOOLEAN
    BY <2>1
  <2>3. Counted' /\ ReadIn'
    BY <1>1, <2>1, <2>2, CountsStay, ReaderRests
  <2>4. Placing'
    BY <2>1 DEF ReaderInv, Placing
  <2>5. Excused'
    BY <2>1 DEF Excused, Because
  <2>6. QED BY <2>3, <2>4, <2>5
<1>7. CASE Cancel
  <2>1. /\ cancelled' = TRUE
        /\ UNCHANGED <<host, room, full, inStores, next, stack, serverRoot, visited, opened,
                       problems, sites, observations, completed, main>>
    BY <1>7 DEF Cancel, storeVars, readerVars, resultVars
  <2>2. Counted' /\ Excused'
    BY <1>1, <2>1, CountsStay, ReasonsStay
  <2>3. Placing'
    BY <2>1 DEF ReaderInv, Placing
  <2>4. Here' = Here
    BY <2>1 DEF Here
  <2>5. ReadIn'
    BY <2>1, <2>4 DEF ReaderInv, ReadIn
  <2>6. QED BY <2>2, <2>3, <2>5
<1>8. QED BY <1>3, <1>4, <1>5, <1>6, <1>7

\* What a step of the parser does beside its reading.
LEMMA ParseKeeps == ReaderInv /\ Parse => Counted' /\ Placing' /\ ReadIn' /\ Excused'
<1> SUFFICES ASSUME ReaderInv, Parse PROVE Counted' /\ Placing' /\ ReadIn' /\ Excused'
  OBVIOUS
<1>1. completed \in BOOLEAN /\ full \in BOOLEAN /\ cancelled \in BOOLEAN
  BY DEF ReaderInv, Counted
<1>2. ASSUME UNCHANGED <<host, room, full, cancelled, inStores, next, sites, observations, completed, main>>
      PROVE  Counted' /\ Placing' /\ Excused'
  <2>1. Counted' /\ Excused'
    BY <1>1, <1>2, CountsStay, ReasonsStay
  <2>2. Placing'
    BY <1>2 DEF ReaderInv, Placing
  <2>3. QED BY <2>1, <2>2
<1>3. Directive \/ ServerRoot \/ Include \/ Section \/ EndSection \/ Splice
        => UNCHANGED <<host, room, full, cancelled, inStores, next, sites, observations, completed, main>>
  BY DEF Directive, ServerRoot, Include, Section, EndSection, Splice, storeVars, resultVars
<1>4. CASE Directive \/ ServerRoot \/ Include \/ Section \/ EndSection \/ Splice
  BY <1>2, <1>3, <1>4, DirectiveKeeps, ServerRootKeeps, IncludeKeeps, SectionKeeps, EndSectionKeeps, SpliceKeeps
<1>5. CASE EndFile
  <2>1. UNCHANGED <<room, full, cancelled, inStores, observations>>
    BY <1>5 DEF EndFile, storeVars
  <2>2. completed' = (completed /\ problems = {}) \/ completed' = completed
    BY <1>5 DEF EndFile, Parsed
  <2>3. completed' \in BOOLEAN
    BY <1>1, <2>2
  <2>4. QED BY <1>1, <1>5, <2>1, <2>3, CountsStay, EndFileKeeps
<1>6. CASE Broken
  <2>1. UNCHANGED <<room, full, cancelled, inStores, observations>>
    BY <1>6 DEF Broken, storeVars
  <2>2. completed' = FALSE \/ completed' = completed
    BY <1>6 DEF Broken
  <2>3. completed' \in BOOLEAN
    BY <1>1, <2>2
  <2>4. QED BY <1>1, <1>6, <2>1, <2>3, CountsStay, BrokenKeeps
<1>7. QED BY <1>4, <1>5, <1>6 DEF Parse

LEMMA BeginCounts == ReaderInv /\ Begin => Counted'
<1> SUFFICES ASSUME ReaderInv, Begin PROVE Counted'
  OBVIOUS
<1>1. completed \in BOOLEAN /\ full \in BOOLEAN /\ cancelled \in BOOLEAN
  BY DEF ReaderInv, Counted
<1>2. UNCHANGED <<room, full, cancelled, inStores, observations>>
  BY DEF Begin, storeVars
<1>3. completed' = completed \/ completed' = (completed /\ problems' = {})
  BY DEF Begin
<1>4. completed' \in BOOLEAN
  BY <1>1, <1>3
<1>5. QED BY <1>1, <1>2, <1>4, CountsStay

\* The stores' collector leaves the reader alone, but for the room.
LEMMA StoresStepKeeps ==
  ReaderInv /\ StoresNext /\ UNCHANGED configVars => Counted' /\ Placing' /\ ReadIn' /\ Excused'
<1> SUFFICES ASSUME ReaderInv, StoresNext, UNCHANGED configVars
             PROVE  Counted' /\ Placing' /\ ReadIn' /\ Excused'
  OBVIOUS
<1>1. /\ UNCHANGED <<next, stack, serverRoot, visited, opened, problems, sites, observations, completed, main>>
      /\ UNCHANGED <<host, cancelled>>
  BY DEF configVars, readerVars, StoresNext, NoStores, ReadStore, AllRead, RecordEntry, StoresReturn
<1>2. /\ completed \in BOOLEAN /\ full \in BOOLEAN /\ cancelled \in BOOLEAN
      /\ room \in 0..Room /\ room = Room - Len(observations) - Len(inStores)
      /\ Len(observations) \in Nat
      /\ inStores \in Seq(ToSet(inStores)) /\ Len(inStores) \in Nat
  BY Members DEF ReaderInv, StoresInv, Counted
<1>3. Here' = Here
  BY <1>1 DEF Here
<1>4. ReadIn'
  BY <1>1, <1>3 DEF ReaderInv, ReadIn
<1>5. Placing'
  BY <1>1 DEF ReaderInv, Placing
<1>6. Counted' /\ (full => full')
  <2>1. CASE UNCHANGED <<room, full, inStores>>
    BY <1>1, <1>2, <2>1, CountsStay
  <2>2. CASE UNCHANGED <<room, inStores>> /\ full' = TRUE
    BY <1>1, <1>2, <2>2, CountsStay
  <2>3. CASE /\ ~(full \/ room = 0) /\ room' = room - 1 /\ full' = full
             /\ inStores' = Append(inStores, <<Head(held).store, Head(held).cert>>)
    <3> DEFINE c == <<Head(held).store, Head(held).cert>>
    <3>1. inStores' = Append(inStores, c)
      BY <2>3
    <3> HIDE DEF c
    <3>2. Len(inStores') = Len(inStores) + 1
      BY <1>2, <3>1, AppendIsSeq
    <3>3. room' \in 0..Room /\ room' = Room - Len(observations') - Len(inStores')
      <4>1. /\ room # 0 /\ room' = room - 1 /\ Len(observations') = Len(observations)
            /\ Len(inStores') = Len(inStores) + 1
        BY <1>1, <2>3, <3>2
      <4>2. room' \in 0..Room
        BY <1>2, <4>1, RoomAssumption
      <4>3. room' = Room - Len(observations') - Len(inStores')
        BY <1>2, <4>1, RoomAssumption
      <4>4. QED BY <4>2, <4>3
    <3>4. observations' \in Seq(ToSet(observations'))
      BY <1>1 DEF ReaderInv, Counted
    <3>5. QED BY <1>1, <1>2, <2>3, <3>3, <3>4 DEF Counted
  <2>4. NoStores \/ ReadStore \/ AllRead \/ StoresReturn => UNCHANGED <<room, full, inStores>>
    BY DEF NoStores, ReadStore, AllRead, StoresReturn
  <2>5. ASSUME RecordEntry
        PROVE  \/ UNCHANGED <<room, full, inStores>>
               \/ UNCHANGED <<room, inStores>> /\ full' = TRUE
               \/ /\ ~(full \/ room = 0) /\ room' = room - 1 /\ full' = full
                  /\ inStores' = Append(inStores, <<Head(held).store, Head(held).cert>>)
    BY <2>5, Zenon DEF RecordEntry
  <2>6. QED BY <2>1, <2>2, <2>3, <2>4, <2>5 DEF StoresNext
<1>7. QED BY <1>1, <1>4, <1>5, <1>6, ReasonsStay

LEMMA InitReader == Init => ReaderInv
<1> SUFFICES ASSUME Init PROVE ReaderInv
  OBVIOUS
<1>1. /\ host \in Hosts /\ next = 1 /\ stack = <<>> /\ serverRoot = "own" /\ visited = {} /\ opened = 0
      /\ problems = {} /\ sites = <<>> /\ observations = <<>> /\ completed = TRUE /\ main = "waiting"
      /\ room = Room /\ full = FALSE /\ cancelled = FALSE /\ inStores = <<>>
  BY DEF Init, StoresInit
<1>2. Len(host.mains) \in Nat
  BY <1>1, MainsFacts
<1>3. 1 \in 1..(Len(host.mains) + 1) /\ 0 \in 0..MaxFiles
  BY <1>2, ReaderBoundsAssumption
<1>4. <<>> \in Seq(ToSet(<<>>)) /\ ToSet(<<>>) = {} /\ Len(<<>>) = 0
  BY DEF ToSet
<1>5. room \in 0..Room /\ room = Room - Len(observations) - Len(inStores)
  BY <1>1, <1>4, RoomAssumption
<1>6. Counted
  BY <1>1, <1>4, <1>5 DEF Counted
<1>7. Placing
  BY <1>1, <1>3, <1>4 DEF Placing
<1>8. ReadIn /\ Excused
  BY <1>1, <1>3 DEF ReadIn, Excused
<1>9. QED BY <1>6, <1>7, <1>8, InitStores DEF ReaderInv

LEMMA StepReader == ReaderInv /\ [Next]_vars => ReaderInv'
<1> SUFFICES ASSUME ReaderInv, [Next]_vars PROVE ReaderInv'
  OBVIOUS
<1>1. StoresInv'
  BY StepStores DEF ReaderInv
<1>2. CASE Parse
  BY <1>1, <1>2, ParseKeeps DEF ReaderInv
<1>3. CASE Start \/ Absent \/ Return \/ Stop \/ Cancel
  BY <1>1, <1>3, CollectKeeps DEF ReaderInv
<1>4. CASE Begin
  BY <1>1, <1>4, BeginKeeps, BeginCounts DEF ReaderInv
<1>5. CASE RecordSite
  BY <1>1, <1>5, RecordSiteKeeps DEF ReaderInv
<1>6. CASE IIS
  BY <1>1, <1>6, IISKeeps DEF ReaderInv
<1>7. CASE StoresNext /\ UNCHANGED configVars
  BY <1>1, <1>7, StoresStepKeeps DEF ReaderInv
<1>8. CASE UNCHANGED vars
  <2>1. UNCHANGED <<host, room, full, cancelled, inStores, next, stack, serverRoot, visited, opened,
                    problems, sites, observations, completed, main>>
    BY <1>8 DEF vars, storeVars, configVars, readerVars
  <2>2. Here' = Here
    BY <2>1 DEF Here
  <2>3. Counted' /\ Placing'
    BY <2>1 DEF ReaderInv, Counted, Placing
  <2>4. ReadIn'
    BY <2>1, <2>2 DEF ReaderInv, ReadIn
  <2>5. Excused'
    BY <2>1 DEF ReaderInv, Excused, Because
  <2>6. QED BY <1>1, <2>3, <2>4, <2>5 DEF ReaderInv
<1>9. QED BY <1>2, <1>3, <1>4, <1>5, <1>6, <1>7, <1>8 DEF Next, Collect

\* The frames that a configuration can stack, the files that a reader opens and
\* the observations of a run keep to their bounds, whatever the files include
\* (read, nginxParseFile, apacheParseFile, observe).
THEOREM TypeCorrect == Spec => []TypeOK
<1>1. ReaderInv => TypeOK
  <2> SUFFICES ASSUME ReaderInv PROVE TypeOK
    OBVIOUS
  <2>1. \A k \in DOMAIN stack : IsFrame(host, Here, stack[k])
    <3>1. CASE stack = <<>>
      BY <3>1
    <3>2. CASE stack # <<>>
      <4>1. Stacked(host, Here, visited, stack)
        BY <3>2 DEF ReaderInv, ReadIn
      <4>2. DOMAIN stack = 1..Len(stack)
        BY <4>1 DEF Stacked
      <4>3. QED BY <4>1, <4>2 DEF Stacked
    <3>3. QED BY <3>1, <3>2
  <2>2. \A k \in DOMAIN stack : stack[k].op \in {"file", "server", "section"} /\ stack[k].depth \in 0..MaxDepth
    BY <2>1 DEF IsFrame
  <2>3. QED BY <2>2 DEF ReaderInv, Counted, Placing, ReadIn, TypeOK
<1>2. QED BY <1>1, InitReader, StepReader, PTL DEF Spec

\* Whatever the sites are configured to present and wherever the run is
\* cancelled or full, server_config is incomplete only for a reason: what was
\* seen to be gone, to match nothing, to be a directory or to be read already is
\* none (record, expand, read, iisSites).
THEOREM GoneIsSeen == Spec => []SeenToBeGoneSpoilsNothing
<1>1. ReaderInv => SeenToBeGoneSpoilsNothing
  <2> SUFFICES ASSUME ReaderInv PROVE SeenToBeGoneSpoilsNothing
    OBVIOUS
  <2>1. ~completed => Because
    BY DEF ReaderInv, Excused
  <2>2. QED BY <2>1, Zenon DEF Because, SeenToBeGoneSpoilsNothing
<1>2. QED BY <1>1, InitReader, StepReader, PTL DEF Spec

=============================================================================
