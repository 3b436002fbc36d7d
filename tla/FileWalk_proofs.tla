-------------------------- MODULE FileWalk_proofs --------------------------
(***************************************************************************)
(* Theorems about FileWalk, and about the chain store it uses, for any     *)
(* tree, any stores and any bounds.                                        *)
(*                                                                         *)
(* The chain store is folds, and so is the reading of a file: each is      *)
(* stated here as one step that Folding's induction takes, with what holds *)
(* of the value so far.                                                    *)
(***************************************************************************)
EXTENDS FileWalk, SequenceTheorems, FunctionTheorems, TLAPS

-----------------------------------------------------------------------------
(* The folds, each of its step.                                            *)

DistinctStep(same, also, q, c) == IF Contains(q, c) THEN q ELSE Append(q, c)
DistinctFold == INSTANCE Folding WITH Op <- DistinctStep

SubjectStep(name, also, q, c) == IF MayIssue(c) /\ c.name = name THEN Append(q, c) ELSE q
SubjectFold == INSTANCE Folding WITH Op <- SubjectStep

IssuerStep(name, also, q, c) == IF c.issuer = name THEN Append(q, c) ELSE q
IssuerFold == INSTANCE Folding WITH Op <- IssuerStep

BestStep(cert, visited, acc, ca) ==
  IF ca \in visited THEN acc ELSE Judge(acc, cert, ca, Check(acc.st, cert, ca))
BestFold == INSTANCE Folding WITH Op <- BestStep

ClimbStep(store, also, acc, i) ==
  IF acc.ended THEN acc ELSE Climb(store, [acc EXCEPT !.st = CheckSelf(@, Last(acc.path))])
ClimbFold == INSTANCE Folding WITH Op <- ClimbStep

AnotherStep(cert, also, acc, child) ==
  IF acc.yes \/ child = cert THEN acc
  ELSE LET one == Check(acc.st, child, cert)
       IN [st |-> one, yes |-> Verified(one, child, cert)]
AnotherFold == INSTANCE Folding WITH Op <- AnotherStep

LeafStep(store, also, acc, cert) == Consider(store, acc, cert)
LeafFold == INSTANCE Folding WITH Op <- LeafStep

EntryFold == INSTANCE Folding WITH Op <- ReadNext

LevelStep(h, also, reach, k) ==
  reach \cup UNION {ToSet(h.nodes[m].holds) : m \in {m \in reach : h.nodes[m].kind = "dir"}}
LevelFold == INSTANCE Folding WITH Op <- LevelStep

LEMMA DistinctIs ==
  ASSUME NEW certs
  PROVE  Distinct(certs) = DistinctFold!Over(0, 0, <<>>, certs)
BY Zenon DEF Distinct, FoldLeft, DistinctFold!Over, DistinctFold!FoldLeft, MapThenFoldSet,
             DistinctFold!MapThenFoldSet, Max, DistinctFold!Max, DistinctStep

LEMMA BySubjectIs ==
  ASSUME NEW store, NEW name
  PROVE  BySubject(store, name) = SubjectFold!Over(name, 0, <<>>, store.all)
BY Zenon DEF BySubject, FoldLeft, SubjectFold!Over, SubjectFold!FoldLeft, MapThenFoldSet,
             SubjectFold!MapThenFoldSet, Max, SubjectFold!Max, SubjectStep

LEMMA ByIssuerIs ==
  ASSUME NEW store, NEW name
  PROVE  ByIssuer(store, name) = IssuerFold!Over(name, 0, <<>>, store.all)
BY Zenon DEF ByIssuer, FoldLeft, IssuerFold!Over, IssuerFold!FoldLeft, MapThenFoldSet,
             IssuerFold!MapThenFoldSet, Max, IssuerFold!Max, IssuerStep

BestBase(st) == [st |-> st, best |-> <<>>, rank |-> -1]
LEMMA BestOfIs ==
  ASSUME NEW store, NEW st, NEW cert, NEW visited
  PROVE  BestOf(store, st, cert, visited)
           = BestFold!Over(cert, visited, BestBase(st), BySubject(store, cert.issuer))
BY Zenon DEF BestOf, BestBase, FoldLeft, BestFold!Over, BestFold!FoldLeft, MapThenFoldSet,
             BestFold!MapThenFoldSet, Max, BestFold!Max, BestStep

ClimbBase(st, cert) == [st |-> st, path |-> <<cert>>, ended |-> FALSE]
Climbs == [i \in 1..(MaxChainDepth + 1) |-> i]
LEMMA ChainForIs ==
  ASSUME NEW store, NEW st, NEW cert
  PROVE  ChainFor(store, st, cert) = ClimbFold!Over(store, 0, ClimbBase(st, cert), Climbs)
BY Zenon DEF ChainFor, ClimbBase, Climbs, FoldLeft, ClimbFold!Over, ClimbFold!FoldLeft, MapThenFoldSet,
             ClimbFold!MapThenFoldSet, Max, ClimbFold!Max, ClimbStep

AnotherBase(st) == [st |-> st, yes |-> FALSE]
LEMMA IssuedAnotherIs ==
  ASSUME NEW store, NEW st, NEW cert, MayIssue(cert)
  PROVE  IssuedAnother(store, st, cert)
           = AnotherFold!Over(cert, 0, AnotherBase(st), ByIssuer(store, cert.name))
BY Zenon DEF IssuedAnother, AnotherBase, FoldLeft, AnotherFold!Over, AnotherFold!FoldLeft, MapThenFoldSet,
             AnotherFold!MapThenFoldSet, Max, AnotherFold!Max, AnotherStep

LeafBase(st) == [st |-> st, out |-> <<>>, ended |-> FALSE]
LEMMA LeavesIs ==
  ASSUME NEW store, NEW st
  PROVE  Leaves(store, st) = LeafFold!Over(store, 0, LeafBase(st), UpTo(store.all, store.ours))
BY Zenon DEF Leaves, LeafBase, FoldLeft, LeafFold!Over, LeafFold!FoldLeft, MapThenFoldSet,
             LeafFold!MapThenFoldSet, Max, LeafFold!Max, LeafStep

EntryBase ==
  [left |-> VerifyBudget, until |-> IF until > 0 THEN until - 1 ELSE until, short |-> {},
   out |-> observations, refused |-> FALSE, stopped |-> FALSE]
Numbered(entries) == [i \in DOMAIN entries |-> [alias |-> i, entry |-> entries[i]]]
LEMMA ReadFileIs ==
  ASSUME NEW n, NEW entries
  PROVE  ReadFile(n, entries) = EntryFold!Over(source, n, EntryBase, Numbered(entries))
BY Zenon DEF ReadFile, EntryBase, Numbered, FoldLeft, EntryFold!Over, EntryFold!FoldLeft, MapThenFoldSet,
             EntryFold!MapThenFoldSet, Max, EntryFold!Max

Levels == [k \in 1..MaxDepth |-> k]
LEMMA LevelIs ==
  ASSUME NEW h, NEW n
  PROVE  Level(h, n) = LevelFold!Over(h, 0, {n}, Levels)
BY Zenon DEF Level, Levels, FoldLeft, LevelFold!Over, LevelFold!FoldLeft, MapThenFoldSet,
             LevelFold!MapThenFoldSet, Max, LevelFold!Max, LevelStep

-----------------------------------------------------------------------------
(* Sequences.                                                              *)

OnceEach(q) == \A i, j \in DOMAIN q : q[i] = q[j] => i = j

LEMMA AppendFacts ==
  ASSUME NEW C, NEW q \in Seq(C), NEW c \in C
  PROVE  /\ Append(q, c) \in Seq(C)
         /\ Len(Append(q, c)) = Len(q) + 1
         /\ DOMAIN Append(q, c) = DOMAIN q \cup {Len(q) + 1}
         /\ \A i \in DOMAIN q : Append(q, c)[i] = q[i]
         /\ Append(q, c)[Len(q) + 1] = c
         /\ ToSet(Append(q, c)) = ToSet(q) \cup {c}
<1>1. /\ Append(q, c) \in Seq(C)
      /\ Len(q) \in Nat /\ Len(Append(q, c)) = Len(q) + 1
      /\ DOMAIN q = 1..Len(q) /\ DOMAIN Append(q, c) = 1..(Len(q) + 1)
      /\ \A i \in 1..Len(q) : Append(q, c)[i] = q[i]
      /\ Append(q, c)[Len(q) + 1] = c
  OBVIOUS
<1>2. 1..(Len(q) + 1) = (1..Len(q)) \cup {Len(q) + 1}
  BY <1>1
<1> DEFINE more == Append(q, c)
<1> HIDE DEF more
<1>3. \A x \in ToSet(more) : x \in ToSet(q) \cup {c}
  BY <1>1, <1>2 DEF ToSet, more
<1>4. \A x \in ToSet(q) \cup {c} : x \in ToSet(more)
  BY <1>1, <1>2 DEF ToSet, more
<1>5. ToSet(more) = ToSet(q) \cup {c}
  BY <1>3, <1>4
<1>6. QED BY <1>1, <1>2, <1>5 DEF more

LEMMA AppendOnce ==
  ASSUME NEW C, NEW q \in Seq(C), NEW c \in C, OnceEach(q), c \notin ToSet(q)
  PROVE  OnceEach(Append(q, c))
<1> DEFINE more == Append(q, c)
<1>1. /\ DOMAIN more = DOMAIN q \cup {Len(q) + 1} /\ more[Len(q) + 1] = c
      /\ \A i \in DOMAIN q : more[i] = q[i]
  BY AppendFacts
<1> HIDE DEF more
<1>2. \A i \in DOMAIN q : q[i] # c
  BY DEF ToSet
<1>3. \A i, j \in DOMAIN more : more[i] = more[j] => i = j
  BY <1>1, <1>2 DEF OnceEach
<1>4. OnceEach(more)
  BY <1>3, Zenon DEF OnceEach
<1>5. QED BY <1>4 DEF more

LEMMA UpToFacts ==
  ASSUME NEW C, NEW q \in Seq(C), NEW n \in Nat
  PROVE  /\ UpTo(q, n) \in Seq(C)
         /\ Len(UpTo(q, n)) \in Nat /\ Len(UpTo(q, n)) <= n /\ Len(UpTo(q, n)) <= Len(q)
         /\ DOMAIN UpTo(q, n) = 1..Len(UpTo(q, n)) /\ DOMAIN UpTo(q, n) \subseteq DOMAIN q
         /\ \A i \in DOMAIN UpTo(q, n) : UpTo(q, n)[i] = q[i]
         /\ Len(q) <= n => UpTo(q, n) = q
         /\ n <= Len(q) => Len(UpTo(q, n)) = n
<1> DEFINE m == IF Len(q) > n THEN n ELSE Len(q)
<1>1. m \in Nat /\ m <= n /\ m <= Len(q) /\ Len(q) \in Nat /\ DOMAIN q = 1..Len(q)
  OBVIOUS
<1>2. UpTo(q, n) = SubSeq(q, 1, m)
  BY DEF UpTo
<1> HIDE DEF m
<1>3. /\ SubSeq(q, 1, m) \in Seq(C) /\ Len(SubSeq(q, 1, m)) = m
      /\ \A i \in 1..m : SubSeq(q, 1, m)[i] = q[i]
  BY <1>1
<1>4. DOMAIN SubSeq(q, 1, m) = 1..m
  BY <1>1, <1>3
<1>5. m = Len(q) => SubSeq(q, 1, m) = q
  BY <1>1, <1>3
<1>6. (Len(q) <= n => m = Len(q)) /\ (n <= Len(q) => m = n)
  <2>1. Len(q) \in Nat /\ n \in Nat
    OBVIOUS
  <2>2. (Len(q) > n => m = n) /\ (~(Len(q) > n) => m = Len(q))
    BY DEF m
  <2>3. QED BY <2>1, <2>2
<1>7. 1..m \subseteq DOMAIN q
  BY <1>1
<1>8. QED BY <1>1, <1>2, <1>3, <1>4, <1>5, <1>6, <1>7, Zenon

LEMMA UpToOnce ==
  ASSUME NEW C, NEW q \in Seq(C), NEW n \in Nat, OnceEach(q)
  PROVE  OnceEach(UpTo(q, n))
<1> DEFINE first == UpTo(q, n)
<1>1. DOMAIN first \subseteq DOMAIN q /\ \A i \in DOMAIN first : first[i] = q[i]
  BY UpToFacts
<1> HIDE DEF first
<1>2. OnceEach(first)
  BY <1>1 DEF OnceEach
<1>3. QED BY <1>2 DEF first

\* Distinct: every element, once each, and the first of them first.
LEMMA DistinctFacts ==
  ASSUME NEW C, NEW certs \in Seq(C)
  PROVE  /\ Distinct(certs) \in Seq(C)
         /\ OnceEach(Distinct(certs))
         /\ ToSet(Distinct(certs)) = ToSet(certs)
<1> DEFINE Upto(i) == {certs[j] : j \in 1..i}
           Holds == [i \in 0..Len(certs) |-> {q \in Seq(C) : OnceEach(q) /\ ToSet(q) = Upto(i)}]
<1>1. Len(certs) \in Nat /\ DOMAIN certs = 1..Len(certs) /\ 0 \in 0..Len(certs) /\ Len(certs) \in 0..Len(certs)
  OBVIOUS
<1>2. <<>> \in Holds[0]
  <2>1. <<>> \in Seq(C) /\ ToSet(<<>>) = {} /\ OnceEach(<<>>)
    BY DEF ToSet, OnceEach
  <2>2. Upto(0) = {}
    OBVIOUS
  <2>3. QED BY <1>1, <2>1, <2>2
<1>3. ASSUME NEW i \in DOMAIN certs, NEW q \in Holds[i - 1]
      PROVE  DistinctStep(0, 0, q, certs[i]) \in Holds[i]
  <2>1. i - 1 \in 0..Len(certs) /\ i \in 0..Len(certs) /\ certs[i] \in C /\ i \in 1..Len(certs)
    BY <1>1
  <2>2. q \in Seq(C) /\ OnceEach(q) /\ ToSet(q) = Upto(i - 1)
    BY <2>1
  <2>3. 1..i = (1..(i - 1)) \cup {i}
    BY <2>1
  <2>4. Upto(i) = Upto(i - 1) \cup {certs[i]}
    BY <2>3
  <2>5. Contains(q, certs[i]) <=> certs[i] \in ToSet(q)
    <3>1. DOMAIN q = 1..Len(q)
      BY <2>2
    <3>2. QED BY <3>1 DEF Contains, ToSet
  <2> HIDE DEF Upto
  <2>6. CASE certs[i] \in ToSet(q)
    <3>1. DistinctStep(0, 0, q, certs[i]) = q /\ ToSet(q) = Upto(i)
      BY <2>2, <2>4, <2>5, <2>6 DEF DistinctStep
    <3>2. QED BY <2>1, <2>2, <3>1
  <2>7. CASE certs[i] \notin ToSet(q)
    <3>1. DistinctStep(0, 0, q, certs[i]) = Append(q, certs[i])
      BY <2>5, <2>7 DEF DistinctStep
    <3>2. Append(q, certs[i]) \in Seq(C) /\ ToSet(Append(q, certs[i])) = Upto(i)
      BY <2>1, <2>2, <2>4, AppendFacts
    <3>3. OnceEach(Append(q, certs[i]))
      BY <2>1, <2>2, <2>7, AppendOnce
    <3>4. QED BY <2>1, <3>1, <3>2, <3>3
  <2>8. QED BY <2>6, <2>7
<1>4. Distinct(certs) \in Holds[Len(certs)]
  <2> HIDE DEF Holds
  <2>1. QED BY <1>2, <1>3, DistinctIs, DistinctFold!FoldInduction, SMT
<1>5. Upto(Len(certs)) = ToSet(certs)
  BY <1>1 DEF ToSet
<1>6. QED BY <1>1, <1>4, <1>5

\* The indexes.
LEMMA BySubjectFacts ==
  ASSUME NEW C, NEW store, store.all \in Seq(C), NEW name
  PROVE  /\ BySubject(store, name) \in Seq(C)
         /\ ToSet(BySubject(store, name)) = {c \in ToSet(store.all) : MayIssue(c) /\ c.name = name}
<1> DEFINE Fits(c) == MayIssue(c) /\ c.name = name
           Upto(i) == {c \in {store.all[j] : j \in 1..i} : Fits(c)}
           Holds == [i \in 0..Len(store.all) |-> {q \in Seq(C) : ToSet(q) = Upto(i)}]
<1> HIDE DEF Fits
<1>1. /\ Len(store.all) \in Nat /\ DOMAIN store.all = 1..Len(store.all)
      /\ 0 \in 0..Len(store.all) /\ Len(store.all) \in 0..Len(store.all)
  OBVIOUS
<1>2. <<>> \in Holds[0]
  <2>1. <<>> \in Seq(C) /\ ToSet(<<>>) = {}
    BY DEF ToSet
  <2>2. Upto(0) = {}
    OBVIOUS
  <2>3. QED BY <1>1, <2>1, <2>2
<1>3. ASSUME NEW i \in DOMAIN store.all, NEW q \in Holds[i - 1]
      PROVE  SubjectStep(name, 0, q, store.all[i]) \in Holds[i]
  <2> DEFINE c == store.all[i]
  <2>1. i - 1 \in 0..Len(store.all) /\ i \in 0..Len(store.all) /\ c \in C /\ i \in 1..Len(store.all)
    BY <1>1
  <2>2. q \in Seq(C) /\ ToSet(q) = Upto(i - 1)
    BY <2>1
  <2>3. 1..i = (1..(i - 1)) \cup {i}
    BY <2>1
  <2>4. Upto(i) = Upto(i - 1) \cup IF Fits(c) THEN {c} ELSE {}
    BY <2>3
  <2> HIDE DEF Upto, c
  <2>5. SubjectStep(name, 0, q, c) = IF Fits(c) THEN Append(q, c) ELSE q
    BY DEF SubjectStep, Fits
  <2>6. Append(q, c) \in Seq(C) /\ ToSet(Append(q, c)) = ToSet(q) \cup {c}
    BY <2>1, <2>2, AppendFacts
  <2>7. SubjectStep(name, 0, q, c) \in Seq(C) /\ ToSet(SubjectStep(name, 0, q, c)) = Upto(i)
    BY <2>2, <2>4, <2>5, <2>6
  <2>8. QED BY <2>1, <2>7 DEF c
<1>4. BySubject(store, name) \in Holds[Len(store.all)]
  <2> HIDE DEF Holds
  <2>1. QED BY <1>2, <1>3, BySubjectIs, SubjectFold!FoldInduction, SMT
<1>5. Upto(Len(store.all)) = {c \in ToSet(store.all) : Fits(c)}
  BY <1>1 DEF ToSet
<1>6. QED BY <1>1, <1>4, <1>5 DEF Fits

LEMMA ByIssuerFacts ==
  ASSUME NEW C, NEW store, store.all \in Seq(C), NEW name
  PROVE  /\ ByIssuer(store, name) \in Seq(C)
         /\ ToSet(ByIssuer(store, name)) = {c \in ToSet(store.all) : c.issuer = name}
<1> DEFINE Fits(c) == c.issuer = name
           Upto(i) == {c \in {store.all[j] : j \in 1..i} : Fits(c)}
           Holds == [i \in 0..Len(store.all) |-> {q \in Seq(C) : ToSet(q) = Upto(i)}]
<1> HIDE DEF Fits
<1>1. /\ Len(store.all) \in Nat /\ DOMAIN store.all = 1..Len(store.all)
      /\ 0 \in 0..Len(store.all) /\ Len(store.all) \in 0..Len(store.all)
  OBVIOUS
<1>2. <<>> \in Holds[0]
  <2>1. <<>> \in Seq(C) /\ ToSet(<<>>) = {}
    BY DEF ToSet
  <2>2. Upto(0) = {}
    OBVIOUS
  <2>3. QED BY <1>1, <2>1, <2>2
<1>3. ASSUME NEW i \in DOMAIN store.all, NEW q \in Holds[i - 1]
      PROVE  IssuerStep(name, 0, q, store.all[i]) \in Holds[i]
  <2> DEFINE c == store.all[i]
  <2>1. i - 1 \in 0..Len(store.all) /\ i \in 0..Len(store.all) /\ c \in C /\ i \in 1..Len(store.all)
    BY <1>1
  <2>2. q \in Seq(C) /\ ToSet(q) = Upto(i - 1)
    BY <2>1
  <2>3. 1..i = (1..(i - 1)) \cup {i}
    BY <2>1
  <2>4. Upto(i) = Upto(i - 1) \cup IF Fits(c) THEN {c} ELSE {}
    BY <2>3
  <2> HIDE DEF Upto, c
  <2>5. IssuerStep(name, 0, q, c) = IF Fits(c) THEN Append(q, c) ELSE q
    BY DEF IssuerStep, Fits
  <2>6. Append(q, c) \in Seq(C) /\ ToSet(Append(q, c)) = ToSet(q) \cup {c}
    BY <2>1, <2>2, AppendFacts
  <2>7. IssuerStep(name, 0, q, c) \in Seq(C) /\ ToSet(IssuerStep(name, 0, q, c)) = Upto(i)
    BY <2>2, <2>4, <2>5, <2>6
  <2>8. QED BY <2>1, <2>7 DEF c
<1>4. ByIssuer(store, name) \in Holds[Len(store.all)]
  <2> HIDE DEF Holds
  <2>1. QED BY <1>2, <1>3, ByIssuerIs, IssuerFold!FoldInduction, SMT
<1>5. Upto(Len(store.all)) = {c \in ToSet(store.all) : Fits(c)}
  BY <1>1 DEF ToSet
<1>6. QED BY <1>1, <1>4, <1>5 DEF Fits

-----------------------------------------------------------------------------
(* The checks.                                                             *)

Certificates(C) == \A c \in C : c.key \in DOMAIN Cost /\ c.valid \in BOOLEAN
Shortfalls == {"truncated", "tooDeep", "outOfBudget", "interrupted"}
States(C) ==
  {st \in [left : Nat, until : Nat \cup {Never}, checked : SUBSET (C \X C), short : SUBSET Shortfalls] :
     "interrupted" \in st.short => Cancelled(st)}

\* No shortfall is forgotten, nor that the context is done; nor is anything that
\* was checked, and a check truncates nothing.
Onward(st, later) == st.short \subseteq later.short /\ (Cancelled(st) => Cancelled(later))
Later(st, later) ==
  /\ Onward(st, later)
  /\ st.checked \subseteq later.checked
  /\ later.short \subseteq st.short \cup {"tooDeep", "outOfBudget", "interrupted"}

\* Whether one certificate signed another is known, or never will be.
Known(st, child, ca) == CutShort(st) \/ <<child, ca>> \in st.checked

LEMMA LaterOn ==
  ASSUME NEW a, NEW b, NEW c, Later(a, b), Later(b, c)
  PROVE  Later(a, c)
BY DEF Later, Onward

LEMMA CutShortStays ==
  ASSUME NEW a, NEW b, Later(a, b), CutShort(a)
  PROVE  CutShort(b)
BY DEF Later, Onward, CutShort

LEMMA AskedFacts ==
  ASSUME NEW C, NEW st \in States(C)
  PROVE  /\ Asked(st) \in States(C)
         /\ Asked(st).checked = st.checked /\ Asked(st).short = st.short /\ Asked(st).left = st.left
         /\ Later(st, Asked(st))
<1>1. (IF st.until > 0 THEN st.until - 1 ELSE st.until) \in Nat \cup {Never}
  BY DEF States, Never
<1>2. Asked(st) \in States(C)
  BY <1>1 DEF States, Asked, Cancelled
<1>3. Asked(st).checked = st.checked /\ Asked(st).short = st.short /\ Asked(st).left = st.left
  BY DEF States, Asked
<1>4. Cancelled(st) => Cancelled(Asked(st))
  BY <1>1 DEF States, Asked, Cancelled
<1>5. QED BY <1>2, <1>3, <1>4 DEF Later, Onward

LEMMA ShortFacts ==
  ASSUME NEW C, NEW st \in States(C), NEW what \in Shortfalls, what = "interrupted" => Cancelled(st)
  PROVE  /\ Short(st, what) \in States(C)
         /\ Short(st, what).checked = st.checked /\ Short(st, what).short = st.short \cup {what}
         /\ Short(st, what).left = st.left /\ Short(st, what).until = st.until
         /\ what # "truncated" => Later(st, Short(st, what))
<1>1. Short(st, what) \in States(C)
  BY DEF States, Short, Cancelled
<1>2. /\ Short(st, what).checked = st.checked /\ Short(st, what).short = st.short \cup {what}
      /\ Short(st, what).left = st.left /\ Short(st, what).until = st.until
  BY DEF States, Short
<1>3. QED BY <1>1, <1>2 DEF Later, Onward, Cancelled, Shortfalls

\* Check: afterwards the pair is known; only a signature that was verified is.
LEMMA CheckFacts ==
  ASSUME NEW C, Certificates(C), NEW st \in States(C), NEW child \in C, NEW ca \in C
  PROVE  /\ Check(st, child, ca) \in States(C)
         /\ Later(st, Check(st, child, ca))
         /\ Known(Check(st, child, ca), child, ca)
<1>1. CASE <<child, ca>> \in st.checked \/ CutShort(st)
  BY <1>1 DEF Check, Later, Onward, Known
<1>2. CASE ~(<<child, ca>> \in st.checked \/ CutShort(st))
  <2>1. CASE Cancelled(st)
    <3>1. Check(st, child, ca) = Short(st, "interrupted") /\ "interrupted" \in Shortfalls
      BY <1>2, <2>1 DEF Check, Shortfalls
    <3>2. /\ Short(st, "interrupted") \in States(C) /\ Later(st, Short(st, "interrupted"))
          /\ "interrupted" \in Short(st, "interrupted").short
      BY <2>1, <3>1, ShortFacts
    <3>3. QED BY <3>1, <3>2 DEF Known, CutShort
  <2>2. CASE ~Cancelled(st) /\ Cost[ca.key] > st.left
    <3>1. Check(st, child, ca) = Short(Asked(st), "outOfBudget") /\ "outOfBudget" \in Shortfalls
      BY <1>2, <2>2 DEF Check, Shortfalls
    <3>2. Asked(st) \in States(C) /\ Later(st, Asked(st))
      BY AskedFacts
    <3>3. QED BY <3>1, <3>2, ShortFacts, LaterOn DEF Known, CutShort
  <2>3. CASE ~Cancelled(st) /\ ~(Cost[ca.key] > st.left)
    <3>1. Check(st, child, ca)
            = [Asked(st) EXCEPT !.left = @ - Cost[ca.key], !.checked = @ \cup {<<child, ca>>}]
      BY <1>2, <2>3 DEF Check
    <3>2. Cost[ca.key] \in Nat /\ st.left \in Nat
      BY ChainBoundsAssumption DEF Certificates, States
    <3>3. Asked(st).left - Cost[ca.key] \in Nat
      BY <2>3, <3>2, AskedFacts
    <3>4. Asked(st) \in States(C) /\ Asked(st).checked = st.checked /\ Asked(st).short = st.short
      BY AskedFacts
    <3>5. Check(st, child, ca) \in States(C)
      <4> DEFINE asked == Asked(st)
                 left == asked.left - Cost[ca.key]
                 checked == asked.checked \cup {<<child, ca>>}
      <4>1. asked \in States(C) /\ left \in Nat
        BY <3>3, <3>4
      <4>2. checked \in SUBSET (C \X C)
        BY <4>1 DEF States
      <4>3. Check(st, child, ca) = [asked EXCEPT !.left = left, !.checked = checked]
        BY <3>1
      <4> HIDE DEF asked, left, checked
      <4>4. QED BY <4>1, <4>2, <4>3 DEF States, Cancelled
    <3>6. /\ Check(st, child, ca).checked = st.checked \cup {<<child, ca>>}
          /\ Check(st, child, ca).short = st.short
      BY <3>1, <3>4 DEF States
    <3>7. QED BY <2>3, <3>5, <3>6 DEF Later, Onward, Known
  <2>4. QED BY <2>1, <2>2, <2>3
<1>3. QED BY <1>1, <1>2

LEMMA CheckSelfFacts ==
  ASSUME NEW C, Certificates(C), NEW st \in States(C), NEW c \in C
  PROVE  /\ CheckSelf(st, c) \in States(C)
         /\ Later(st, CheckSelf(st, c))
         /\ c.name = c.issuer => Known(CheckSelf(st, c), c, c)
<1>1. CASE c.name = c.issuer
  BY <1>1, CheckFacts DEF CheckSelf
<1>2. CASE c.name # c.issuer
  BY <1>2 DEF CheckSelf, Later, Onward
<1>3. QED BY <1>1, <1>2

-----------------------------------------------------------------------------
(* The issuer of one certificate (issuerOf).                               *)

\* What Rank comes to once it is known what signed itself.
TrueRank(c) == (IF c.valid THEN 2 ELSE 0) + (IF RootItself(c) THEN 1 ELSE 0)

LEMMA RankIsTrue ==
  ASSUME NEW st, NEW c, ~CutShort(st), c.name = c.issuer => Known(st, c, c)
  PROVE  /\ Rank(st, c) = TrueRank(c) /\ TrueRank(c) \in 0..3
         /\ SelfSigned(st, c) <=> RootItself(c)
<1>1. SelfSigned(st, c) <=> RootItself(c)
  BY DEF SelfSigned, RootItself, Verified, Known
<1>2. TrueRank(c) \in 0..3
  BY DEF TrueRank
<1>3. Rank(st, c) = TrueRank(c)
  BY <1>1 DEF Rank, TrueRank
<1>4. QED BY <1>1, <1>2, <1>3

LEMMA RankTells ==
  ASSUME NEW a, NEW b, a.valid \in BOOLEAN, b.valid \in BOOLEAN, TrueRank(b) <= TrueRank(a)
  PROVE  NoWorse(a, b)
<1>1. CASE a.valid /\ ~b.valid
  BY <1>1 DEF NoWorse
<1>2. CASE ~a.valid /\ b.valid
  BY <1>2 DEF TrueRank
<1>3. CASE a.valid = b.valid
  <2>1. RootItself(b) => RootItself(a)
    BY <1>3 DEF TrueRank
  <2>2. QED BY <1>3, <2>1 DEF NoWorse
<1>4. QED BY <1>1, <1>2, <1>3

\* The best of the candidates tried so far, unless a check was not made.
BestTried(acc, cert, T) ==
  /\ \/ acc.best = <<>> /\ acc.rank = -1
     \/ \E b \in T : acc.best = <<b>> /\ Signed(cert, b) /\ acc.rank = TrueRank(b)
  /\ \A b \in T : Signed(cert, b) => TrueRank(b) <= acc.rank
Bests(C, st, cert, T) ==
  {acc \in [st : States(C), best : Seq(C), rank : Int] :
     Later(st, acc.st) /\ (CutShort(acc.st) \/ BestTried(acc, cert, T))}

LEMMA JudgeFacts ==
  ASSUME NEW C, Certificates(C), NEW st, NEW cert \in C, NEW ca \in C, NEW T,
         NEW acc \in Bests(C, st, cert, T)
  PROVE  Judge(acc, cert, ca, Check(acc.st, cert, ca)) \in Bests(C, st, cert, T \cup {ca})
<1> DEFINE st1 == Check(acc.st, cert, ca)
           st2 == CheckSelf(st1, ca)
           now == Judge(acc, cert, ca, st1)
<1>1. /\ acc = [st |-> acc.st, best |-> acc.best, rank |-> acc.rank]
      /\ acc.st \in States(C) /\ acc.best \in Seq(C) /\ acc.rank \in Int /\ Later(st, acc.st)
      /\ CutShort(acc.st) \/ BestTried(acc, cert, T)
  BY DEF Bests
<1>2. st1 \in States(C) /\ Later(acc.st, st1) /\ Known(st1, cert, ca)
  BY <1>1, CheckFacts
<1>3. st2 \in States(C) /\ Later(st1, st2) /\ (ca.name = ca.issuer => Known(st2, ca, ca))
  BY <1>2, CheckSelfFacts
<1> HIDE DEF st2
<1>4. CASE Verified(st1, cert, ca)
  <2>1. Later(st, st2) /\ Signed(cert, ca)
    BY <1>1, <1>2, <1>3, <1>4, LaterOn DEF Verified
  <2>2. now = Prefer(acc, ca, st2)
    BY <1>4 DEF Judge, st2
  <2>3. Rank(st2, ca) \in Int
    BY DEF Rank
  <2>4. CASE Rank(st2, ca) > acc.rank
    <3>1. now = [st |-> st2, best |-> <<ca>>, rank |-> Rank(st2, ca)]
      BY <2>2, <2>4 DEF Prefer
    <3>2. now \in [st : States(C), best : Seq(C), rank : Int] /\ now.st = st2
      BY <1>3, <2>3, <3>1
    <3>3. ASSUME ~CutShort(st2) PROVE BestTried(now, cert, T \cup {ca})
      <4>1. Rank(st2, ca) = TrueRank(ca)
        BY <1>3, <3>3, RankIsTrue
      <4>2. \A b \in T : Signed(cert, b) => TrueRank(b) <= acc.rank
        BY <1>1, <1>2, <1>3, <3>3, CutShortStays DEF BestTried
      <4>3. \A b : TrueRank(b) \in Int
        BY DEF TrueRank
      <4>4. \A b \in T \cup {ca} : Signed(cert, b) => TrueRank(b) <= now.rank
        BY <1>1, <2>4, <3>1, <4>1, <4>2, <4>3
      <4>5. QED BY <2>1, <3>1, <4>1, <4>4 DEF BestTried
    <3>4. QED BY <2>1, <3>2, <3>3 DEF Bests
  <2>5. CASE ~(Rank(st2, ca) > acc.rank)
    <3>1. now = [st |-> st2, best |-> acc.best, rank |-> acc.rank]
      BY <1>1, <2>2, <2>5 DEF Prefer
    <3>2. now \in [st : States(C), best : Seq(C), rank : Int] /\ now.st = st2
      BY <1>1, <1>3, <3>1
    <3>3. ASSUME ~CutShort(st2) PROVE BestTried(now, cert, T \cup {ca})
      <4>1. Rank(st2, ca) = TrueRank(ca)
        BY <1>3, <3>3, RankIsTrue
      <4>2. BestTried(acc, cert, T)
        BY <1>1, <1>2, <1>3, <3>3, CutShortStays
      <4>3. TrueRank(ca) <= acc.rank
        BY <1>1, <2>3, <2>5, <4>1
      <4>4. QED BY <3>1, <4>2, <4>3 DEF BestTried
    <3>4. QED BY <2>1, <3>2, <3>3 DEF Bests
  <2>6. QED BY <2>4, <2>5
<1>5. CASE ~Verified(st1, cert, ca)
  <2>1. now = [st |-> st1, best |-> acc.best, rank |-> acc.rank]
    BY <1>1, <1>5 DEF Judge
  <2>2. now \in [st : States(C), best : Seq(C), rank : Int] /\ now.st = st1 /\ Later(st, st1)
    BY <1>1, <1>2, <2>1, LaterOn
  <2>3. ASSUME ~CutShort(st1) PROVE BestTried(now, cert, T \cup {ca})
    <3>1. ~Signed(cert, ca)
      BY <1>2, <1>5, <2>3 DEF Known, Verified
    <3>2. BestTried(acc, cert, T)
      BY <1>1, <1>2, <2>3, CutShortStays
    <3>3. QED BY <2>1, <3>1, <3>2 DEF BestTried
  <2>4. QED BY <2>2, <2>3 DEF Bests
<1>6. QED BY <1>4, <1>5

LEMMA BestOfFacts ==
  ASSUME NEW C, Certificates(C), NEW store, store.all \in Seq(C),
         NEW st \in States(C), NEW cert \in C, NEW visited
  PROVE  BestOf(store, st, cert, visited)
           \in Bests(C, st, cert, ToSet(BySubject(store, cert.issuer)) \ visited)
<1> DEFINE q == BySubject(store, cert.issuer)
           Tried(i) == {q[j] : j \in 1..i} \ visited
           Holds == [i \in 0..Len(q) |-> Bests(C, st, cert, Tried(i))]
<1>1. q \in Seq(C)
  BY BySubjectFacts
<1> HIDE DEF q
<1>2. Len(q) \in Nat /\ DOMAIN q = 1..Len(q) /\ 0 \in 0..Len(q) /\ Len(q) \in 0..Len(q)
  BY <1>1
<1>3. BestBase(st) \in Holds[0]
  <2>1. Tried(0) = {}
    OBVIOUS
  <2>2. BestBase(st) \in [st : States(C), best : Seq(C), rank : Int]
    BY DEF BestBase
  <2>3. BestTried(BestBase(st), cert, {}) /\ Later(st, BestBase(st).st)
    BY DEF BestTried, BestBase, Later, Onward
  <2>4. BestBase(st) \in Bests(C, st, cert, {})
    BY <2>2, <2>3 DEF Bests
  <2>5. QED BY <1>2, <2>1, <2>4
<1>4. ASSUME NEW i \in DOMAIN q, NEW acc \in Holds[i - 1]
      PROVE  BestStep(cert, visited, acc, q[i]) \in Holds[i]
  <2>1. i - 1 \in 0..Len(q) /\ i \in 0..Len(q) /\ q[i] \in C /\ i \in 1..Len(q)
    BY <1>1, <1>2
  <2>2. acc \in Bests(C, st, cert, Tried(i - 1))
    BY <2>1
  <2>3. 1..i = (1..(i - 1)) \cup {i}
    BY <2>1
  <2>4. Tried(i) = Tried(i - 1) \cup ({q[i]} \ visited)
    BY <2>3
  <2> HIDE DEF Tried
  <2>5. CASE q[i] \in visited
    <3>1. BestStep(cert, visited, acc, q[i]) = acc /\ Tried(i) = Tried(i - 1)
      BY <2>4, <2>5 DEF BestStep
    <3>2. QED BY <2>1, <2>2, <3>1
  <2>6. CASE q[i] \notin visited
    <3>1. BestStep(cert, visited, acc, q[i]) = Judge(acc, cert, q[i], Check(acc.st, cert, q[i]))
      BY <2>6 DEF BestStep
    <3>2. Tried(i) = Tried(i - 1) \cup {q[i]}
      BY <2>4, <2>6
    <3>3. QED BY <2>1, <2>2, <3>1, <3>2, JudgeFacts
  <2>7. QED BY <2>5, <2>6
<1>5. BestOf(store, st, cert, visited) \in Holds[Len(q)]
  <2>1. BestOf(store, st, cert, visited) = BestFold!Over(cert, visited, BestBase(st), q)
    BY BestOfIs DEF q
  <2> HIDE DEF Holds
  <2>2. QED BY <1>1, <1>3, <1>4, <2>1, BestFold!FoldInduction, SMT
<1>6. Tried(Len(q)) = ToSet(q) \ visited
  BY <1>2 DEF ToSet
<1>7. QED BY <1>2, <1>5, <1>6 DEF q

\* IssuerOf: the best issuer the store has that is not on the path yet; none when
\* it has none, or when it is not known which.
LEMMA IssuerOfFacts ==
  ASSUME NEW C, Certificates(C), NEW store, store.all \in Seq(C),
         NEW st \in States(C), NEW cert \in C, NEW visited, NEW r, r = IssuerOf(store, st, cert, visited)
  PROVE  /\ r.st \in States(C) /\ Later(st, r.st)
         /\ \/ /\ r.best = <<>>
               /\ CutShort(r.st) \/ \A ca \in ToSet(store.all) \ visited : ~Issues(ca, cert)
            \/ /\ ~CutShort(r.st)
               /\ \E b \in ToSet(store.all) \ visited :
                    /\ r.best = <<b>> /\ Issues(b, cert)
                    /\ \A ca \in ToSet(store.all) \ visited : Issues(ca, cert) => NoWorse(b, ca)
<1> DEFINE T == ToSet(BySubject(store, cert.issuer)) \ visited
           best == BestOf(store, st, cert, visited)
<1>1. best \in Bests(C, st, cert, T)
  BY BestOfFacts
<1>2. T = {c \in ToSet(store.all) \ visited : MayIssue(c) /\ c.name = cert.issuer}
  <2>1. ToSet(BySubject(store, cert.issuer)) = {c \in ToSet(store.all) : MayIssue(c) /\ c.name = cert.issuer}
    BY BySubjectFacts
  <2>2. QED BY <2>1
<1>3. r = Settle(best)
  BY DEF IssuerOf
<1> HIDE DEF T, best
<1>4. /\ best = [st |-> best.st, best |-> best.best, rank |-> best.rank]
      /\ best.st \in States(C) /\ Later(st, best.st)
      /\ CutShort(best.st) \/ BestTried(best, cert, T)
  BY <1>1 DEF Bests
<1>5. CASE CutShort(best.st)
  <2>1. r.st = best.st /\ r.best = <<>>
    BY <1>3, <1>4, <1>5 DEF Settle
  <2>2. QED BY <1>4, <1>5, <2>1
<1>6. CASE ~CutShort(best.st)
  <2>1. r = best
    BY <1>3, <1>6 DEF Settle
  <2>2. \A ca : ca \in ToSet(store.all) \ visited /\ Issues(ca, cert) => ca \in T /\ Signed(cert, ca)
    BY <1>2 DEF Issues
  <2>3. CASE best.best = <<>> /\ best.rank = -1
    <3>1. \A b \in T : ~Signed(cert, b)
      <4>1. \A b : TrueRank(b) >= 0
        BY DEF TrueRank
      <4>2. \A b : TrueRank(b) \in Int
        BY DEF TrueRank
      <4>3. \A b \in T : Signed(cert, b) => TrueRank(b) <= -1
        BY <1>4, <1>6, <2>3 DEF BestTried
      <4>4. QED BY <4>1, <4>2, <4>3
    <3>2. QED BY <1>4, <2>1, <2>2, <2>3, <3>1
  <2>4. ASSUME NEW b \in T, best.best = <<b>>, Signed(cert, b), best.rank = TrueRank(b)
        PROVE  \E x \in ToSet(store.all) \ visited :
                 /\ r.best = <<x>> /\ Issues(x, cert)
                 /\ \A ca \in ToSet(store.all) \ visited : Issues(ca, cert) => NoWorse(x, ca)
    <3>1. b \in ToSet(store.all) \ visited /\ Issues(b, cert)
      BY <1>2, <2>4 DEF Issues
    <3>2. ASSUME NEW ca \in ToSet(store.all) \ visited, Issues(ca, cert) PROVE NoWorse(b, ca)
      <4>1. TrueRank(ca) <= TrueRank(b)
        BY <1>4, <1>6, <2>2, <2>4, <3>2 DEF BestTried
      <4>2. ToSet(store.all) \subseteq C
        BY DEF ToSet
      <4>3. b.valid \in BOOLEAN /\ ca.valid \in BOOLEAN
        BY <3>1, <4>2 DEF Certificates
      <4>4. QED BY <4>1, <4>3, RankTells
    <3>3. QED BY <2>1, <2>4, <3>1, <3>2
  <2>5. QED BY <1>4, <1>6, <2>1, <2>3, <2>4 DEF BestTried
<1>7. QED BY <1>5, <1>6

-----------------------------------------------------------------------------
(* The chain of one certificate (ChainFor).                                *)

\* A path after so many steps: it has grown with each, or has ended, and then
\* either the store would not carry it further or a shortfall tells.
Cut(st) == CutShort(st) \/ "tooDeep" \in st.short
Climbed(C, Held, st, cert, i) ==
  {acc \in [st : States(C), path : Seq(C), ended : BOOLEAN] :
     /\ Later(st, acc.st)
     /\ acc.path # <<>> /\ acc.path[1] = cert /\ IsChain(Held, acc.path)
     /\ IF acc.ended THEN Cut(acc.st) \/ Whole(Held, acc.path) ELSE Len(acc.path) = i + 1}

LEMMA LastFacts ==
  ASSUME NEW C, NEW q \in Seq(C), q # <<>>
  PROVE  Last(q) = q[Len(q)] /\ Last(q) \in ToSet(q) /\ Len(q) \in DOMAIN q /\ Last(q) \in C
<1>1. Len(q) \in Nat \ {0} /\ DOMAIN q = 1..Len(q)
  OBVIOUS
<1>2. QED BY <1>1 DEF Last, ToSet

\* One more link.
LEMMA ChainGrows ==
  ASSUME NEW C, NEW Held, NEW path \in Seq(C), path # <<>>, IsChain(Held, path),
         Len(path) <= MaxChainDepth, ~RootItself(Last(path)),
         NEW b \in C, b \in Held, b \notin ToSet(path), Issues(b, Last(path)),
         \A ca \in Held \ ToSet(path) : Issues(ca, Last(path)) => NoWorse(b, ca)
  PROVE  IsChain(Held, Append(path, b))
<1> DEFINE more == Append(path, b)
           n == Len(path)
<1>1. /\ n \in Nat \ {0} /\ DOMAIN path = 1..n /\ DOMAIN more = DOMAIN path \cup {n + 1} /\ Len(more) = n + 1
      /\ \A i \in DOMAIN path : more[i] = path[i]
      /\ more[n + 1] = b /\ MaxChainDepth \in Nat
  BY AppendFacts, ChainBoundsAssumption
<1>2. Last(path) = path[n]
  BY LastFacts
<1> HIDE DEF more, n
<1>3. Len(more) <= MaxChainDepth + 1
  BY <1>1 DEF n
<1>4. \A i, j \in DOMAIN more : more[i] = more[j] => i = j
  <2>1. OnceEach(path)
    BY DEF IsChain, OnceEach
  <2>2. OnceEach(more)
    BY <2>1, AppendOnce DEF more
  <2>3. QED BY <2>2 DEF OnceEach
<1>5. ASSUME NEW i \in 1..(Len(more) - 1)
      PROVE  /\ Issues(more[i + 1], more[i]) /\ ~RootItself(more[i])
             /\ more[i + 1] \in Held
             /\ \A ca \in Held \ {more[k] : k \in 1..i} : Issues(ca, more[i]) => NoWorse(more[i + 1], ca)
  <2>1. i \in DOMAIN path /\ 1..i \subseteq DOMAIN path /\ i \in 1..n
    BY <1>1
  <2>2. {more[k] : k \in 1..i} = {path[k] : k \in 1..i} /\ more[i] = path[i]
    BY <1>1, <2>1
  <2>3. CASE i = n
    <3>1. {path[k] : k \in 1..i} = ToSet(path)
      BY <1>1, <2>3 DEF ToSet
    <3>2. more[i + 1] = b /\ more[i] = Last(path)
      BY <1>1, <1>2, <2>2, <2>3
    <3>3. QED BY <2>2, <3>1, <3>2
  <2>4. CASE i # n
    <3>1. i \in 1..(n - 1) /\ i + 1 \in DOMAIN path
      BY <1>1, <2>1, <2>4
    <3>2. more[i + 1] = path[i + 1]
      BY <1>1, <3>1
    <3>3. QED BY <2>2, <3>1, <3>2 DEF IsChain, n
  <2>5. QED BY <2>3, <2>4
<1>6. QED BY <1>3, <1>4, <1>5 DEF IsChain, more

LEMMA ExtendFacts ==
  ASSUME NEW C, Certificates(C), NEW store, store.all \in Seq(C), NEW Held, Held = ToSet(store.all), NEW st,
         NEW cert, NEW i \in Nat, NEW acc \in Climbed(C, Held, st, cert, i), ~acc.ended,
         CutShort(acc.st) \/ ~RootItself(Last(acc.path)), NEW issuer,
         issuer = IssuerOf(store, acc.st, Last(acc.path), ToSet(acc.path))
  PROVE  Extend(acc, issuer) \in Climbed(C, Held, st, cert, i + 1)
<1> DEFINE path == acc.path
           now == Extend(acc, issuer)
<1>1. /\ acc = [st |-> acc.st, path |-> path, ended |-> FALSE]
      /\ acc.st \in States(C) /\ path \in Seq(C) /\ Later(st, acc.st)
      /\ path # <<>> /\ path[1] = cert /\ IsChain(Held, path) /\ Len(path) = i + 1
  BY DEF Climbed
<1>2. Last(path) \in C /\ Last(path) = path[Len(path)]
  BY <1>1, LastFacts
<1>3. /\ issuer.st \in States(C) /\ Later(acc.st, issuer.st)
      /\ \/ /\ issuer.best = <<>>
            /\ CutShort(issuer.st) \/ \A ca \in Held \ ToSet(path) : ~Issues(ca, Last(path))
         \/ /\ ~CutShort(issuer.st)
            /\ \E b \in Held \ ToSet(path) :
                 /\ issuer.best = <<b>> /\ Issues(b, Last(path))
                 /\ \A ca \in Held \ ToSet(path) : Issues(ca, Last(path)) => NoWorse(b, ca)
  BY <1>1, <1>2, IssuerOfFacts
<1>4. Later(st, issuer.st)
  BY <1>1, <1>3, LaterOn
<1>5. CASE issuer.best = <<>>
  <2>1. now = [st |-> issuer.st, path |-> path, ended |-> TRUE]
    BY <1>1, <1>5 DEF Extend
  <2>2. Cut(issuer.st) \/ Whole(Held, path)
    BY <1>3, <1>5 DEF Cut, Whole
  <2>3. now \in [st : States(C), path : Seq(C), ended : BOOLEAN] /\ now.st = issuer.st /\ now.path = path
    BY <1>1, <1>3, <2>1
  <2>4. now.ended
    BY <2>1
  <2>5. QED BY <1>1, <1>4, <2>2, <2>3, <2>4 DEF Climbed
<1>6. CASE issuer.best # <<>> /\ Len(path) > MaxChainDepth
  <2>1. now = [st |-> Short(issuer.st, "tooDeep"), path |-> path, ended |-> TRUE]
    BY <1>1, <1>6 DEF Extend
  <2>2. /\ Short(issuer.st, "tooDeep") \in States(C) /\ Later(issuer.st, Short(issuer.st, "tooDeep"))
        /\ "tooDeep" \in Short(issuer.st, "tooDeep").short
    BY <1>3, ShortFacts DEF Shortfalls
  <2>3. Later(st, Short(issuer.st, "tooDeep")) /\ Cut(Short(issuer.st, "tooDeep"))
    BY <1>4, <2>2, LaterOn DEF Cut
  <2>4. /\ now \in [st : States(C), path : Seq(C), ended : BOOLEAN]
        /\ now.st = Short(issuer.st, "tooDeep") /\ now.path = path
    BY <1>1, <2>1, <2>2
  <2>5. now.ended
    BY <2>1
  <2>6. QED BY <1>1, <2>3, <2>4, <2>5 DEF Climbed
<1>7. CASE issuer.best # <<>> /\ ~(Len(path) > MaxChainDepth)
  <2>1. PICK b \in Held \ ToSet(path) :
          /\ issuer.best = <<b>> /\ Issues(b, Last(path))
          /\ \A ca \in Held \ ToSet(path) : Issues(ca, Last(path)) => NoWorse(b, ca)
    BY <1>3, <1>7
  <2>2. ~CutShort(issuer.st)
    BY <1>3, <1>7
  <2>3. b \in C
    BY <2>1 DEF ToSet
  <2>4. path \o <<b>> = Append(path, b)
    BY <1>1, <2>3
  <2>5. now = [st |-> issuer.st, path |-> Append(path, b), ended |-> FALSE]
    <3> DEFINE longer == acc.path \o issuer.best
    <3>1. now = [acc EXCEPT !.st = issuer.st, !.path = longer]
      BY <1>7 DEF Extend
    <3>2. longer = Append(path, b)
      BY <2>1, <2>4
    <3>3. acc \in [st : States(C), path : Seq(C), ended : BOOLEAN]
      BY DEF Climbed
    <3> HIDE DEF longer, now
    <3>4. now = [st |-> issuer.st, path |-> longer, ended |-> FALSE]
      BY <3>1, <3>3
    <3>5. QED BY <3>2, <3>4
  <2>6. ~RootItself(Last(path))
    BY <1>3, <2>2, CutShortStays
  <2>7. Len(path) <= MaxChainDepth
    BY <1>1, <1>7, ChainBoundsAssumption
  <2>8. IsChain(Held, Append(path, b))
    BY <1>1, <2>1, <2>3, <2>6, <2>7, ChainGrows
  <2>9. /\ Append(path, b) \in Seq(C) /\ Len(Append(path, b)) = (i + 1) + 1
        /\ Append(path, b) # <<>> /\ Append(path, b)[1] = cert
    BY <1>1, <2>3
  <2>10. /\ now \in [st : States(C), path : Seq(C), ended : BOOLEAN]
         /\ now.st = issuer.st /\ now.path = Append(path, b)
    BY <1>3, <2>5, <2>9
  <2>11. ~now.ended
    BY <2>5
  <2>12. QED BY <1>4, <2>8, <2>9, <2>10, <2>11 DEF Climbed
<1>8. QED BY <1>5, <1>6, <1>7

LEMMA ClimbFacts ==
  ASSUME NEW C, Certificates(C), NEW store, store.all \in Seq(C), NEW Held, Held = ToSet(store.all), NEW st,
         NEW cert, NEW i \in Nat, NEW acc \in Climbed(C, Held, st, cert, i), NEW x
  PROVE  ClimbStep(store, 0, acc, x) \in Climbed(C, Held, st, cert, i + 1)
<1>1. /\ acc \in [st : States(C), path : Seq(C), ended : BOOLEAN]
      /\ acc.st \in States(C) /\ acc.path \in Seq(C) /\ Later(st, acc.st)
      /\ acc.path # <<>> /\ acc.path[1] = cert /\ IsChain(Held, acc.path)
      /\ IF acc.ended THEN Cut(acc.st) \/ Whole(Held, acc.path) ELSE Len(acc.path) = i + 1
  BY DEF Climbed
<1>2. CASE acc.ended
  BY <1>1, <1>2 DEF ClimbStep, Climbed
<1>3. CASE ~acc.ended
  <2> DEFINE last == Last(acc.path)
             st1 == CheckSelf(acc.st, last)
             acc1 == [acc EXCEPT !.st = st1]
  <2>1. last \in C
    BY <1>1, LastFacts
  <2>2. st1 \in States(C) /\ Later(acc.st, st1) /\ (last.name = last.issuer => Known(st1, last, last))
    BY <1>1, <2>1, CheckSelfFacts
  <2>3. Later(st, st1)
    BY <1>1, <2>2, LaterOn
  <2> HIDE DEF st1
  <2>4. /\ acc1 \in [st : States(C), path : Seq(C), ended : BOOLEAN]
        /\ acc1.st = st1 /\ acc1.path = acc.path /\ ~acc1.ended
    BY <1>1, <1>3, <2>2
  <2>5. ClimbStep(store, 0, acc, x) = Climb(store, acc1)
    BY <1>3 DEF ClimbStep, st1
  <2> HIDE DEF acc1, last
  <2>6. acc1 \in Climbed(C, Held, st, cert, i)
    BY <1>1, <1>3, <2>3, <2>4 DEF Climbed
  <2>7. CASE SelfSigned(st1, last)
    <3>1. RootItself(last)
      BY <2>7 DEF SelfSigned, Verified, RootItself
    <3>2. Whole(Held, acc.path)
      BY <3>1 DEF Whole, last
    <3>3. Climb(store, acc1) = [acc1 EXCEPT !.ended = TRUE]
      BY <2>4, <2>7 DEF Climb, last
    <3> DEFINE now == [acc1 EXCEPT !.ended = TRUE]
    <3>4. /\ now \in [st : States(C), path : Seq(C), ended : BOOLEAN]
          /\ now.st = st1 /\ now.path = acc.path /\ now.ended
      BY <2>4
    <3> HIDE DEF now
    <3>5. now \in Climbed(C, Held, st, cert, i + 1)
      BY <1>1, <2>3, <3>2, <3>4 DEF Climbed
    <3>6. QED BY <2>5, <3>3, <3>5 DEF now
  <2>8. CASE ~SelfSigned(st1, last)
    <3>1. CutShort(st1) \/ ~RootItself(last)
      BY <2>2, <2>8, RankIsTrue
    <3>2. CutShort(acc1.st) \/ ~RootItself(Last(acc1.path))
      BY <2>4, <3>1 DEF last
    <3> DEFINE issuer == IssuerOf(store, acc1.st, Last(acc1.path), ToSet(acc1.path))
    <3>3. Climb(store, acc1) = Extend(acc1, issuer)
      BY <2>4, <2>8 DEF Climb, last
    <3> HIDE DEF issuer
    <3>4. Extend(acc1, issuer) \in Climbed(C, Held, st, cert, i + 1)
      BY <2>4, <2>6, <3>2, ExtendFacts DEF issuer
    <3>5. QED BY <2>5, <3>3, <3>4
  <2>9. QED BY <2>7, <2>8
<1>4. QED BY <1>2, <1>3

\* ChainFor: the best chain from a certificate up, and the store would not carry
\* it further or a shortfall tells.
LEMMA ChainForFacts ==
  ASSUME NEW C, Certificates(C), NEW store, store.all \in Seq(C), NEW Held, Held = ToSet(store.all),
         NEW st \in States(C), NEW cert \in C, NEW r, r = ChainFor(store, st, cert)
  PROVE  /\ r.st \in States(C) /\ Later(st, r.st)
         /\ r.path \in Seq(C) /\ r.path # <<>> /\ Head(r.path) = cert /\ IsChain(Held, r.path)
         /\ Cut(r.st) \/ Whole(Held, r.path)
<1> DEFINE n == MaxChainDepth + 1
           Holds == [i \in 0..n |-> Climbed(C, Held, st, cert, i)]
<1>1. n \in Nat /\ 0 \in 0..n /\ n \in 0..n
  BY ChainBoundsAssumption
<1>2. Climbs \in Seq(Nat) /\ Len(Climbs) = n /\ DOMAIN Climbs = 1..n
  BY <1>1 DEF Climbs
<1>3. ClimbBase(st, cert) \in Holds[0]
  <2> DEFINE base == ClimbBase(st, cert)
  <2>1. /\ base \in [st : States(C), path : Seq(C), ended : BOOLEAN]
        /\ base.st = st /\ base.path = <<cert>> /\ ~base.ended
    BY DEF ClimbBase
  <2>2. <<cert>> # <<>> /\ <<cert>>[1] = cert /\ Len(<<cert>>) = 0 + 1
    OBVIOUS
  <2>3. IsChain(Held, <<cert>>)
    <3> DEFINE p == <<cert>>
    <3>1. Len(p) = 1 /\ DOMAIN p = {1} /\ 1..(Len(p) - 1) = {}
      OBVIOUS
    <3> HIDE DEF p
    <3>2. Len(p) <= MaxChainDepth + 1
      BY <3>1, ChainBoundsAssumption
    <3>3. IsChain(Held, p)
      BY <3>1, <3>2 DEF IsChain
    <3>4. QED BY <3>3 DEF p
  <2>4. Later(st, st)
    BY DEF Later, Onward
  <2> HIDE DEF base
  <2>5. base \in Climbed(C, Held, st, cert, 0)
    BY <2>1, <2>2, <2>3, <2>4 DEF Climbed
  <2>6. QED BY <1>1, <2>5 DEF base
<1>4. ASSUME NEW i \in DOMAIN Climbs, NEW acc \in Holds[i - 1]
      PROVE  ClimbStep(store, 0, acc, Climbs[i]) \in Holds[i]
  <2>1. i \in 1..n /\ i - 1 \in 0..n /\ i - 1 \in Nat /\ i \in 0..n /\ (i - 1) + 1 = i
    BY <1>1, <1>2
  <2>2. acc \in Climbed(C, Held, st, cert, i - 1)
    BY <2>1
  <2>3. ClimbStep(store, 0, acc, Climbs[i]) \in Climbed(C, Held, st, cert, (i - 1) + 1)
    BY <2>1, <2>2, ClimbFacts
  <2>4. QED BY <2>1, <2>3
<1>5. r \in Holds[n]
  <2>1. r = ClimbFold!Over(store, 0, ClimbBase(st, cert), Climbs)
    BY ChainForIs
  <2> HIDE DEF Holds, n
  <2>2. QED BY <1>2, <1>3, <1>4, <2>1, ClimbFold!FoldInduction, SMTT(30)
<1>6. r \in Climbed(C, Held, st, cert, n)
  BY <1>1, <1>5
<1>7. /\ r.st \in States(C) /\ Later(st, r.st) /\ r.path \in Seq(C) /\ r.path # <<>> /\ r.path[1] = cert
      /\ IsChain(Held, r.path)
      /\ IF r.ended THEN Cut(r.st) \/ Whole(Held, r.path) ELSE Len(r.path) = n + 1
  BY <1>6 DEF Climbed
<1>8. r.ended
  <2>1. Len(r.path) <= n /\ Len(r.path) \in Nat
    BY <1>7 DEF IsChain
  <2>2. QED BY <1>1, <1>7, <2>1
<1>9. Head(r.path) = r.path[1]
  BY <1>7
<1>10. QED BY <1>7, <1>8, <1>9

-----------------------------------------------------------------------------
(* The end-entity certificates (Leaves).                                   *)

Asking(C, st, cert, T) ==
  {acc \in [st : States(C), yes : BOOLEAN] :
     /\ Later(st, acc.st)
     /\ IF acc.yes THEN \E child \in T : Signed(child, cert)
        ELSE CutShort(acc.st) \/ \A child \in T : ~Signed(child, cert)}

LEMMA AnotherFacts ==
  ASSUME NEW C, Certificates(C), NEW st, NEW cert \in C, NEW T,
         NEW acc \in Asking(C, st, cert, T), NEW child \in C
  PROVE  AnotherStep(cert, 0, acc, child) \in Asking(C, st, cert, T \cup ({child} \ {cert}))
<1> DEFINE more == T \cup ({child} \ {cert})
           one == Check(acc.st, child, cert)
           now == [st |-> one, yes |-> Verified(one, child, cert)]
<1>1. /\ acc \in [st : States(C), yes : BOOLEAN] /\ acc.st \in States(C) /\ Later(st, acc.st)
      /\ IF acc.yes THEN \E c \in T : Signed(c, cert)
         ELSE CutShort(acc.st) \/ \A c \in T : ~Signed(c, cert)
  BY DEF Asking
<1>2. CASE acc.yes \/ child = cert
  <2>1. AnotherStep(cert, 0, acc, child) = acc
    BY <1>2 DEF AnotherStep
  <2>2. acc \in Asking(C, st, cert, more)
    BY <1>1, <1>2 DEF Asking
  <2>3. QED BY <2>1, <2>2
<1>3. CASE ~(acc.yes \/ child = cert)
  <2>1. AnotherStep(cert, 0, acc, child) = now
    BY <1>3 DEF AnotherStep
  <2>2. one \in States(C) /\ Later(acc.st, one) /\ Known(one, child, cert)
    BY <1>1, CheckFacts
  <2>3. Later(st, one)
    BY <1>1, <2>2, LaterOn
  <2>4. Verified(one, child, cert) \in BOOLEAN
    BY DEF Verified
  <2> HIDE DEF one
  <2>5. now \in [st : States(C), yes : BOOLEAN] /\ now.st = one /\ now.yes = Verified(one, child, cert)
    BY <2>2, <2>4
  <2> HIDE DEF now
  <2>6. ASSUME Verified(one, child, cert) PROVE now \in Asking(C, st, cert, more)
    <3>1. now.yes /\ \E c \in more : Signed(c, cert)
      BY <1>3, <2>5, <2>6 DEF Verified
    <3> HIDE DEF more
    <3>2. now \in Asking(C, st, cert, more)
      BY <2>3, <2>5, <3>1 DEF Asking
    <3>3. QED BY <3>2
  <2>7. ASSUME ~Verified(one, child, cert) PROVE now \in Asking(C, st, cert, more)
    <3>1. CutShort(one) \/ ~Signed(child, cert)
      BY <2>2, <2>7 DEF Verified, Known
    <3>2. CutShort(one) \/ \A c \in T : ~Signed(c, cert)
      BY <1>1, <1>3, <2>2, CutShortStays
    <3>3. CutShort(one) \/ \A c \in more : ~Signed(c, cert)
      BY <3>1, <3>2
    <3>4. ~now.yes
      BY <2>5, <2>7
    <3> HIDE DEF more
    <3>5. now \in Asking(C, st, cert, more)
      BY <2>3, <2>5, <3>3, <3>4 DEF Asking
    <3>6. QED BY <3>5
  <2>8. QED BY <2>1, <2>6, <2>7
<1>4. QED BY <1>2, <1>3

LEMMA IssuedAnotherFacts ==
  ASSUME NEW C, Certificates(C), NEW store, store.all \in Seq(C),
         NEW st \in States(C), NEW cert \in C, NEW r, r = IssuedAnother(store, st, cert)
  PROVE  /\ r.st \in States(C) /\ Later(st, r.st)
         /\ IF r.yes THEN \E child \in ToSet(store.all) \ {cert} : Issues(cert, child)
            ELSE CutShort(r.st) \/ \A child \in ToSet(store.all) \ {cert} : ~Issues(cert, child)
<1>1. CASE ~MayIssue(cert)
  <2>1. r = [st |-> st, yes |-> FALSE]
    BY <1>1 DEF IssuedAnother
  <2>2. \A child : ~Issues(cert, child)
    BY <1>1 DEF Issues
  <2>3. QED BY <2>1, <2>2 DEF Later, Onward
<1>2. CASE MayIssue(cert)
  <2> DEFINE q == ByIssuer(store, cert.name)
             Tried(i) == {q[j] : j \in 1..i} \ {cert}
             Holds == [i \in 0..Len(q) |-> Asking(C, st, cert, Tried(i))]
  <2>1. q \in Seq(C) /\ ToSet(q) = {c \in ToSet(store.all) : c.issuer = cert.name}
    BY ByIssuerFacts
  <2>2. r = AnotherFold!Over(cert, 0, AnotherBase(st), q)
    BY <1>2, IssuedAnotherIs
  <2> HIDE DEF q
  <2>3. Len(q) \in Nat /\ DOMAIN q = 1..Len(q) /\ 0 \in 0..Len(q) /\ Len(q) \in 0..Len(q)
    BY <2>1
  <2>4. AnotherBase(st) \in Holds[0]
    <3>1. Tried(0) = {}
      OBVIOUS
    <3>2. AnotherBase(st) \in Asking(C, st, cert, {})
      BY DEF AnotherBase, Asking, Later, Onward
    <3>3. QED BY <2>3, <3>1, <3>2
  <2>5. ASSUME NEW i \in DOMAIN q, NEW acc \in Holds[i - 1]
        PROVE  AnotherStep(cert, 0, acc, q[i]) \in Holds[i]
    <3>1. i - 1 \in 0..Len(q) /\ i \in 0..Len(q) /\ q[i] \in C /\ i \in 1..Len(q)
      BY <2>1, <2>3
    <3>2. 1..i = (1..(i - 1)) \cup {i}
      BY <3>1
    <3>3. Tried(i) = Tried(i - 1) \cup ({q[i]} \ {cert})
      BY <3>2
    <3> HIDE DEF Tried
    <3>4. QED BY <3>1, <3>3, AnotherFacts
  <2>6. r \in Holds[Len(q)]
    <3> HIDE DEF Holds
    <3>1. QED BY <2>1, <2>2, <2>4, <2>5, AnotherFold!FoldInduction, SMT
  <2>7. Tried(Len(q)) = ToSet(q) \ {cert}
    BY <2>3 DEF ToSet
  <2>8. r \in Asking(C, st, cert, ToSet(q) \ {cert})
    BY <2>3, <2>6, <2>7
  <2>9. /\ r.st \in States(C) /\ Later(st, r.st)
        /\ IF r.yes THEN \E c \in ToSet(q) \ {cert} : Signed(c, cert)
           ELSE CutShort(r.st) \/ \A c \in ToSet(q) \ {cert} : ~Signed(c, cert)
    BY <2>8 DEF Asking
  <2>10. \A c : c \in ToSet(q) \ {cert} /\ Signed(c, cert) <=> c \in ToSet(store.all) \ {cert} /\ Issues(cert, c)
    BY <1>2, <2>1 DEF Issues
  <2>11. QED BY <2>9, <2>10
<1>3. QED BY <1>1, <1>2

\* One path of a leaf: its chain, and all of it, of a leaf indeed, or a shortfall
\* tells.
Sound(Held, short, p) ==
  /\ p # <<>> /\ Head(p) \in Held /\ IsChain(Held, p)
  /\ short # {} \/ (Whole(Held, p) /\ EndEntity(Held, Head(p)))

HeadsOnce(out) == \A j, k \in DOMAIN out : Head(out[j]) = Head(out[k]) => j = k

\* The leaves among the certificates considered so far, T.
Considered(C, Held, st, T) ==
  {acc \in [st : States(C), out : Seq(Seq(C)), ended : BOOLEAN] :
     /\ Onward(st, acc.st)
     /\ HeadsOnce(acc.out)
     /\ \A p \in ToSet(acc.out) : Head(p) \in T /\ Sound(Held, acc.st.short, p)
     /\ IF acc.ended THEN acc.st.short \cap {"truncated", "interrupted"} # {}
        ELSE \A c \in T : EndEntity(Held, c) => \E p \in ToSet(acc.out) : Head(p) = c}

\* A step that reports nothing.
LEMMA NoLeaf ==
  ASSUME NEW C, NEW Held, NEW st, NEW T, NEW c, NEW acc \in Considered(C, Held, st, T), ~acc.ended,
         NEW now \in [st : States(C), out : Seq(Seq(C)), ended : BOOLEAN],
         now.out = acc.out, Onward(acc.st, now.st),
         IF now.ended THEN now.st.short \cap {"truncated", "interrupted"} # {} ELSE ~EndEntity(Held, c)
  PROVE  now \in Considered(C, Held, st, T \cup {c})
<1>1. /\ Onward(st, acc.st) /\ HeadsOnce(acc.out)
      /\ \A p \in ToSet(acc.out) : Head(p) \in T /\ Sound(Held, acc.st.short, p)
      /\ \A x \in T : EndEntity(Held, x) => \E p \in ToSet(acc.out) : Head(p) = x
  BY DEF Considered
<1>2. \A p \in ToSet(acc.out) : Sound(Held, now.st.short, p)
  BY <1>1 DEF Sound, Onward
<1>3. Onward(st, now.st)
  BY <1>1 DEF Onward
<1>4. ~now.ended => \A x \in T \cup {c} : EndEntity(Held, x) => \E p \in ToSet(acc.out) : Head(p) = x
  BY <1>1
<1>5. QED BY <1>1, <1>2, <1>3, <1>4 DEF Considered

\* A step that reports one more.
LEMMA OneLeaf ==
  ASSUME NEW C, NEW Held, NEW st, NEW T, NEW c, NEW acc \in Considered(C, Held, st, T), ~acc.ended, c \notin T,
         NEW path \in Seq(C), Head(path) = c,
         NEW now \in [st : States(C), out : Seq(Seq(C)), ended : BOOLEAN], ~now.ended,
         now.out = Append(acc.out, path), Onward(acc.st, now.st), Sound(Held, now.st.short, path)
  PROVE  now \in Considered(C, Held, st, T \cup {c})
<1>1. /\ Onward(st, acc.st) /\ HeadsOnce(acc.out) /\ acc.out \in Seq(Seq(C))
      /\ \A p \in ToSet(acc.out) : Head(p) \in T /\ Sound(Held, acc.st.short, p)
      /\ \A x \in T : EndEntity(Held, x) => \E p \in ToSet(acc.out) : Head(p) = x
  BY DEF Considered
<1>2. /\ ToSet(now.out) = ToSet(acc.out) \cup {path}
      /\ DOMAIN now.out = DOMAIN acc.out \cup {Len(acc.out) + 1} /\ now.out[Len(acc.out) + 1] = path
      /\ \A j \in DOMAIN acc.out : now.out[j] = acc.out[j]
  BY <1>1, AppendFacts
<1>3. \A p \in ToSet(now.out) : Head(p) \in T \cup {c} /\ Sound(Held, now.st.short, p)
  BY <1>1, <1>2 DEF Sound, Onward
<1>4. HeadsOnce(now.out)
  <2>1. \A j \in DOMAIN acc.out : Head(acc.out[j]) # c
    BY <1>1 DEF ToSet
  <2>2. QED BY <1>1, <1>2, <2>1 DEF HeadsOnce
<1>5. Onward(st, now.st)
  BY <1>1 DEF Onward
<1>6. \A x \in T \cup {c} : EndEntity(Held, x) => \E p \in ToSet(now.out) : Head(p) = x
  BY <1>1, <1>2
<1>7. QED BY <1>3, <1>4, <1>5, <1>6 DEF Considered

LEMMA ConsiderFacts ==
  ASSUME NEW C, Certificates(C), NEW store, store.all \in Seq(C), NEW Held, Held = ToSet(store.all),
         NEW st, NEW T \in SUBSET Held, NEW cert \in Held \ T, NEW acc \in Considered(C, Held, st, T)
  PROVE  Consider(store, acc, cert) \in Considered(C, Held, st, T \cup {cert})
<1> DEFINE asked == Asked(acc.st)
           issued == IssuedAnother(store, asked, cert)
           chain == ChainFor(store, issued.st, cert)
           now == Consider(store, acc, cert)
           Shape == [st : States(C), out : Seq(Seq(C)), ended : BOOLEAN]
<1>1. acc \in Shape /\ acc.st \in States(C) /\ acc.out \in Seq(Seq(C)) /\ cert \in C
  BY DEF Considered, ToSet
<1>2. asked \in States(C) /\ Later(acc.st, asked)
  BY <1>1, AskedFacts
<1>3. /\ issued.st \in States(C) /\ Later(asked, issued.st)
      /\ IF issued.yes THEN \E child \in Held \ {cert} : Issues(cert, child)
         ELSE CutShort(issued.st) \/ \A child \in Held \ {cert} : ~Issues(cert, child)
  BY <1>1, <1>2, IssuedAnotherFacts
<1>4. /\ chain.st \in States(C) /\ Later(issued.st, chain.st)
      /\ chain.path \in Seq(C) /\ chain.path # <<>> /\ Head(chain.path) = cert /\ IsChain(Held, chain.path)
      /\ Cut(chain.st) \/ Whole(Held, chain.path)
  BY <1>1, <1>3, ChainForFacts
<1> HIDE DEF asked, issued, chain
<1>5. CASE acc.ended
  <2>1. now = acc
    BY <1>5 DEF Consider
  <2>2. acc \in Considered(C, Held, st, T \cup {cert})
    BY <1>5 DEF Considered
  <2>3. QED BY <2>1, <2>2
<1>6. CASE ~acc.ended /\ Cancelled(acc.st)
  <2> DEFINE short == Short(acc.st, "interrupted")
  <2>1. now = [acc EXCEPT !.st = short, !.ended = TRUE]
    BY <1>6 DEF Consider
  <2>2. short \in States(C) /\ Onward(acc.st, short) /\ "interrupted" \in short.short
    BY <1>1, <1>6, ShortFacts DEF Shortfalls, Later
  <2> HIDE DEF short
  <2>3. now \in Shape /\ now.out = acc.out /\ now.st = short /\ now.ended
    BY <1>1, <2>1, <2>2
  <2>4. QED BY <1>6, <2>2, <2>3, NoLeaf
<1>7. CASE ~acc.ended /\ ~Cancelled(acc.st) /\ IsCA(cert)
  <2>1. now = [acc EXCEPT !.st = asked]
    BY <1>7 DEF Consider, asked
  <2>2. now \in Shape /\ now.out = acc.out /\ now.st = asked /\ ~now.ended
    BY <1>1, <1>2, <1>7, <2>1
  <2>3. ~EndEntity(Held, cert) /\ Onward(acc.st, asked)
    BY <1>2, <1>7 DEF EndEntity, Later, Onward
  <2>4. QED BY <1>7, <2>2, <2>3, NoLeaf
<1>8. CASE ~acc.ended /\ ~Cancelled(acc.st) /\ ~IsCA(cert)
  <2>1. now = Count(store, acc, cert, issued)
    BY <1>8 DEF Consider, issued, asked
  <2>2. /\ Onward(acc.st, issued.st) /\ Onward(acc.st, chain.st)
        /\ issued.st.short \subseteq chain.st.short
    BY <1>2, <1>3, <1>4 DEF Later, Onward
  <2>3. CASE issued.yes
    <3>1. now = [acc EXCEPT !.st = issued.st]
      BY <2>1, <2>3 DEF Count
    <3>2. now \in Shape /\ now.out = acc.out /\ now.st = issued.st /\ ~now.ended
      BY <1>1, <1>3, <1>8, <3>1
    <3>3. ~EndEntity(Held, cert)
      BY <1>3, <2>3 DEF EndEntity
    <3>4. QED BY <1>8, <2>2, <3>2, <3>3, NoLeaf
  <2>4. CASE ~issued.yes /\ Len(acc.out) = MaxLeaves
    <3> DEFINE short == Short(issued.st, "truncated")
    <3>1. now = [acc EXCEPT !.st = short, !.ended = TRUE]
      BY <2>1, <2>4 DEF Count
    <3>2. short \in States(C) /\ Onward(acc.st, short) /\ "truncated" \in short.short
      BY <1>3, <2>2, ShortFacts DEF Shortfalls, Onward, Cancelled
    <3> HIDE DEF short
    <3>3. now \in Shape /\ now.out = acc.out /\ now.st = short /\ now.ended
      BY <1>1, <3>1, <3>2
    <3>4. QED BY <1>8, <2>2, <3>2, <3>3, NoLeaf
  <2>5. CASE ~issued.yes /\ Len(acc.out) # MaxLeaves
    <3>1. now = [acc EXCEPT !.st = chain.st, !.out = Append(@, chain.path)]
      BY <2>1, <2>5 DEF Count, AddLeaf, chain
    <3>2. Append(acc.out, chain.path) \in Seq(Seq(C))
      BY <1>1, <1>4
    <3>3. now \in Shape /\ now.out = Append(acc.out, chain.path) /\ now.st = chain.st /\ ~now.ended
      BY <1>1, <1>4, <1>8, <3>1, <3>2
    <3>4. Cut(chain.st) => chain.st.short # {}
      BY DEF Cut, CutShort
    <3>5. CutShort(issued.st) => chain.st.short # {}
      BY <2>2 DEF CutShort
    <3>6. Sound(Held, chain.st.short, chain.path)
      BY <1>3, <1>4, <1>8, <2>5, <3>4, <3>5 DEF Sound, EndEntity
    <3> HIDE DEF now
    <3>7. now \in Considered(C, Held, st, T \cup {cert})
      BY <1>4, <1>8, <2>2, <3>3, <3>6, OneLeaf
    <3>8. QED BY <3>7 DEF now
  <2>6. QED BY <2>3, <2>4, <2>5
<1>9. QED BY <1>5, <1>6, <1>7, <1>8

\* Leaves: all of them, each once and at the head of its chain, or a shortfall
\* tells.
LEMMA LeavesFacts ==
  ASSUME NEW C, Certificates(C), NEW store, store.all \in Seq(C), NEW Held, Held = ToSet(store.all),
         OnceEach(store.all), store.ours \in Nat,
         NEW st \in States(C), NEW r, r = Leaves(store, st)
  PROVE  r \in Considered(C, Held, st, ToSet(UpTo(store.all, store.ours)))
<1> DEFINE q == UpTo(store.all, store.ours)
           Upto(i) == {q[j] : j \in 1..i}
           Holds == [i \in 0..Len(q) |-> Considered(C, Held, st, Upto(i))]
<1>1. /\ q \in Seq(C) /\ Len(q) \in Nat /\ DOMAIN q = 1..Len(q) /\ OnceEach(q)
      /\ \A i \in DOMAIN q : q[i] \in Held
  BY UpToFacts, UpToOnce DEF ToSet
<1>2. r = LeafFold!Over(store, 0, LeafBase(st), q)
  BY LeavesIs
<1> HIDE DEF q
<1>3. 0 \in 0..Len(q) /\ Len(q) \in 0..Len(q)
  BY <1>1
<1>4. LeafBase(st) \in Holds[0]
  <2>1. Upto(0) = {}
    OBVIOUS
  <2>2. LeafBase(st) \in Considered(C, Held, st, {})
    BY DEF LeafBase, Considered, Onward, HeadsOnce, ToSet
  <2>3. QED BY <1>3, <2>1, <2>2
<1>5. ASSUME NEW i \in DOMAIN q, NEW acc \in Holds[i - 1]
      PROVE  LeafStep(store, 0, acc, q[i]) \in Holds[i]
  <2>1. i - 1 \in 0..Len(q) /\ i \in 0..Len(q) /\ q[i] \in Held /\ i \in 1..Len(q) /\ i \notin 1..(i - 1)
    BY <1>1
  <2>2. 1..i = (1..(i - 1)) \cup {i} /\ 1..(i - 1) \subseteq DOMAIN q
    BY <1>1, <2>1
  <2>3. Upto(i) = Upto(i - 1) \cup {q[i]} /\ Upto(i - 1) \in SUBSET Held
    BY <1>1, <2>2
  <2>4. q[i] \notin Upto(i - 1)
    BY <1>1, <2>1, <2>2 DEF OnceEach
  <2>5. acc \in Considered(C, Held, st, Upto(i - 1))
    BY <2>1
  <2> HIDE DEF Upto
  <2>6. QED BY <2>1, <2>3, <2>4, <2>5, ConsiderFacts DEF LeafStep
<1>6. r \in Holds[Len(q)]
  <2> HIDE DEF Holds
  <2>1. QED BY <1>1, <1>2, <1>4, <1>5, LeafFold!FoldInduction, SMT
<1>7. Upto(Len(q)) = ToSet(q)
  BY <1>1 DEF ToSet
<1>8. QED BY <1>3, <1>6, <1>7 DEF q

-----------------------------------------------------------------------------
(* One store of a file (Found).                                            *)

StoreIn(e) == NewStore(e.certs, <<>>)
LeavesOf(e) == {c \in ToSet(e.certs) : EndEntity(ToSet(e.certs), c)}
DeployedIn(e, noteIt) ==
  IF LeavesOf(e) # {} \/ e.tag # "key" \/ ToSet(e.certs) = {} \/ noteIt THEN LeavesOf(e) ELSE {e.certs[1]}

\* One path of a store's, and all of them.
WellFound(e, short, p) ==
  /\ p # <<>> /\ Head(p) \in ToSet(e.certs) /\ IsChain(ToSet(StoreIn(e).all), p)
  /\ short # {} \/ (Whole(ToSet(e.certs), p) /\ Head(p) \in DeployedIn(e, FALSE))
AllFound(e, short, heads) ==
  short \cap {"truncated", "interrupted"} = {} => DeployedIn(e, short # {}) \subseteq heads

LEMMA StoreFacts ==
  ASSUME NEW C, NEW e, e.certs \in Seq(C), NEW left \in Nat, NEW sofar \in Nat \cup {Never},
         NEW st, st = Opened(e.certs, <<>>, left, sofar), NEW store, store = StoreIn(e)
  PROVE  /\ store.all \in Seq(C) /\ OnceEach(store.all) /\ store.ours \in Nat
         /\ UpTo(store.all, store.ours) = store.all
         /\ ToSet(store.all) \subseteq ToSet(e.certs)
         /\ st \in States(C)
         /\ st.short = {} => ToSet(store.all) = ToSet(e.certs)
<1> DEFINE q == Distinct(e.certs)
<1>1. e.certs \o <<>> = e.certs
  OBVIOUS
<1>2. q \in Seq(C) /\ OnceEach(q) /\ ToSet(q) = ToSet(e.certs) /\ Len(q) \in Nat /\ DOMAIN q = 1..Len(q)
  BY DistinctFacts
<1>3. store.all = UpTo(q, MaxCertificates) /\ store.ours = Len(store.all)
  BY <1>1 DEF NewStore, StoreIn
<1>4. /\ st.left = left /\ st.until = sofar /\ st.checked = {}
      /\ st.short = IF Len(q) > MaxCertificates THEN {"truncated"} ELSE {}
      /\ st = [left |-> left, until |-> sofar, checked |-> {}, short |-> st.short]
  BY <1>1 DEF Opened
<1>5. MaxCertificates \in Nat
  BY ChainBoundsAssumption
<1> HIDE DEF q
<1>6. /\ store.all \in Seq(C) /\ store.ours \in Nat /\ OnceEach(store.all) /\ DOMAIN store.all \subseteq DOMAIN q
      /\ \A i \in DOMAIN store.all : store.all[i] = q[i]
      /\ Len(q) <= MaxCertificates => store.all = q
  <2> DEFINE all == UpTo(q, MaxCertificates)
  <2>1. /\ all \in Seq(C) /\ Len(all) \in Nat /\ DOMAIN all \subseteq DOMAIN q
        /\ \A i \in DOMAIN all : all[i] = q[i]
        /\ Len(q) <= MaxCertificates => all = q
    BY <1>2, <1>5, UpToFacts
  <2>2. OnceEach(all)
    BY <1>2, <1>5, UpToOnce
  <2> HIDE DEF all
  <2>3. store.all = all
    BY <1>3 DEF all
  <2>4. QED BY <1>3, <2>1, <2>2, <2>3
<1>7. UpTo(store.all, store.ours) = store.all
  <2>1. Len(store.all) <= store.ours
    BY <1>3, <1>6
  <2>2. QED BY <1>6, <2>1, UpToFacts
<1>8. ToSet(store.all) \subseteq ToSet(q)
  BY <1>6 DEF ToSet
<1>9. st \in States(C)
  <2>1. st.short \in SUBSET Shortfalls /\ "interrupted" \notin st.short
    BY <1>4 DEF Shortfalls
  <2>2. {} \in SUBSET (C \X C)
    OBVIOUS
  <2>3. st \in [left : Nat, until : Nat \cup {Never}, checked : SUBSET (C \X C), short : SUBSET Shortfalls]
    BY <1>4, <2>1, <2>2
  <2>4. QED BY <2>1, <2>3 DEF States
<1>10. st.short = {} => store.all = q
  <2>1. Len(q) > MaxCertificates => st.short # {}
    BY <1>4
  <2>2. Len(q) > MaxCertificates \/ Len(q) <= MaxCertificates
    BY <1>2, <1>5
  <2>3. QED BY <1>6, <2>1, <2>2
<1>11. QED BY <1>2, <1>6, <1>7, <1>8, <1>9, <1>10

LEMMA FoundFacts ==
  ASSUME NEW C, Certificates(C), NEW e, e.certs \in Seq(C), NEW left \in Nat, NEW sofar \in Nat \cup {Never},
         NEW store, store = StoreIn(e),
         NEW f, f = Found(store, e, Leaves(store, Opened(e.certs, <<>>, left, sofar)))
  PROVE  /\ f.st \in States(C) /\ f.out \in Seq(Seq(C)) /\ HeadsOnce(f.out)
         /\ sofar = 0 => Cancelled(f.st)
         /\ \A p \in ToSet(f.out) : WellFound(e, f.st.short, p)
         /\ AllFound(e, f.st.short, {Head(p) : p \in ToSet(f.out)})
<1> DEFINE st == Opened(e.certs, <<>>, left, sofar)
           ls == Leaves(store, st)
           Held == ToSet(store.all)
<1>1. /\ store.all \in Seq(C) /\ OnceEach(store.all) /\ store.ours \in Nat
      /\ UpTo(store.all, store.ours) = store.all
      /\ Held \subseteq ToSet(e.certs)
      /\ st \in States(C)
      /\ st.short = {} => Held = ToSet(e.certs)
  <2> HIDE DEF st
  <2>1. st = Opened(e.certs, <<>>, left, sofar)
    BY DEF st
  <2>2. store.all \in Seq(C)
    BY <2>1, StoreFacts
  <2>3. OnceEach(store.all) /\ store.ours \in Nat
    BY <2>1, StoreFacts
  <2>4. UpTo(store.all, store.ours) = store.all
    BY <2>1, StoreFacts
  <2>5. Held \subseteq ToSet(e.certs)
    BY <2>1, StoreFacts
  <2>6. st \in States(C)
    BY <2>1, StoreFacts
  <2>7. st.short = {} => Held = ToSet(e.certs)
    BY <2>1, StoreFacts, SMTT(40)
  <2>8. QED BY <2>2, <2>3, <2>4, <2>5, <2>6, <2>7
<1> HIDE DEF st
<1>2. ls \in Considered(C, Held, st, Held)
  BY <1>1, LeavesFacts
<1> HIDE DEF Held, ls
<1>3. /\ ls.st \in States(C) /\ ls.out \in Seq(Seq(C)) /\ Onward(st, ls.st) /\ HeadsOnce(ls.out)
      /\ \A p \in ToSet(ls.out) : Head(p) \in Held /\ Sound(Held, ls.st.short, p)
      /\ \/ ls.st.short \cap {"truncated", "interrupted"} # {}
         \/ \A c \in Held : EndEntity(Held, c) => \E p \in ToSet(ls.out) : Head(p) = c
  BY <1>2 DEF Considered
<1>4. ls.st.short \cap {"truncated"} = {} => Held = ToSet(e.certs)
  <2>1. st.short = {} \/ "truncated" \in st.short
    BY DEF st, Opened
  <2>2. QED BY <1>1, <1>3, <2>1 DEF Onward
<1>5. ls.st.short = {} => Held = ToSet(e.certs)
  BY <1>4
<1>6. \A c \in LeavesOf(e) : ls.st.short \cap {"truncated", "interrupted"} = {} =>
        \E p \in ToSet(ls.out) : Head(p) = c
  BY <1>3, <1>4 DEF LeavesOf
<1>7. sofar = 0 => Cancelled(ls.st)
  BY <1>3 DEF st, Opened, Onward, Cancelled
<1>8. CASE ls.out # <<>> \/ e.tag # "key" \/ e.certs = <<>> \/ "interrupted" \in ls.st.short
  <2>1. f.st = ls.st /\ f.out = ls.out
    BY <1>8 DEF Found, ls, st
  <2>2. ASSUME NEW p \in ToSet(ls.out) PROVE WellFound(e, ls.st.short, p)
    <3>1. p # <<>> /\ Head(p) \in ToSet(e.certs) /\ IsChain(Held, p)
      BY <1>1, <1>3 DEF Sound
    <3>2. ASSUME ls.st.short = {} PROVE Whole(ToSet(e.certs), p) /\ Head(p) \in DeployedIn(e, FALSE)
      <4>1. Whole(ToSet(e.certs), p) /\ EndEntity(ToSet(e.certs), Head(p))
        BY <1>3, <1>5, <3>2 DEF Sound
      <4>2. Head(p) \in LeavesOf(e)
        BY <3>1, <4>1 DEF LeavesOf
      <4>3. QED BY <4>1, <4>2 DEF DeployedIn
    <3>3. QED BY <3>1, <3>2 DEF WellFound, Held
  <2>3. ASSUME ls.st.short \cap {"truncated", "interrupted"} = {}, NEW c \in DeployedIn(e, ls.st.short # {})
        PROVE  \E p \in ToSet(ls.out) : Head(p) = c
    <3>1. CASE c \in LeavesOf(e)
      BY <1>6, <2>3, <3>1
    <3>2. CASE c \notin LeavesOf(e)
      <4>1. LeavesOf(e) = {} /\ e.tag = "key" /\ ToSet(e.certs) # {} /\ ls.st.short = {}
        BY <2>3, <3>2 DEF DeployedIn
      <4>2. e.certs # <<>>
        BY <4>1 DEF ToSet
      <4>3. ls.out # <<>>
        BY <1>8, <4>1, <4>2
      <4>4. PICK p \in ToSet(ls.out) : TRUE
        BY <1>3, <4>3, LastFacts
      <4>5. Head(p) \in Held /\ EndEntity(Held, Head(p))
        BY <1>3, <4>1 DEF Sound
      <4>6. Head(p) \in LeavesOf(e)
        BY <1>5, <4>1, <4>5 DEF LeavesOf
      <4>7. QED BY <4>1, <4>6
    <3>3. QED BY <3>1, <3>2
  <2>4. AllFound(e, ls.st.short, {Head(p) : p \in ToSet(ls.out)})
    BY <2>3 DEF AllFound
  <2>5. QED BY <1>3, <1>7, <2>1, <2>2, <2>4
<1>9. CASE ~(ls.out # <<>> \/ e.tag # "key" \/ e.certs = <<>> \/ "interrupted" \in ls.st.short)
  <2> DEFINE first == e.certs[1]
             chain == ChainFor(store, ls.st, first)
  <2>1. f.st = chain.st /\ f.out = <<chain.path>>
    BY <1>9 DEF Found, Only, ls, st
  <2>2. first \in C /\ first \in ToSet(e.certs)
    BY <1>9 DEF ToSet
  <2>3. /\ chain.st \in States(C) /\ Later(ls.st, chain.st)
        /\ chain.path \in Seq(C) /\ chain.path # <<>> /\ Head(chain.path) = first /\ IsChain(Held, chain.path)
        /\ Cut(chain.st) \/ Whole(Held, chain.path)
    BY <1>1, <1>3, <2>2, ChainForFacts DEF Held
  <2> HIDE DEF chain, first
  <2>4. ToSet(f.out) = {chain.path} /\ f.out \in Seq(Seq(C)) /\ DOMAIN f.out = {1}
    <3> DEFINE one == <<chain.path>>
    <3>1. one \in Seq(Seq(C)) /\ DOMAIN one = {1} /\ one[1] = chain.path
      BY <2>3
    <3> HIDE DEF one
    <3>2. ToSet(one) = {chain.path}
      BY <3>1 DEF ToSet
    <3>3. QED BY <2>1, <3>1, <3>2 DEF one
  <2>5. HeadsOnce(f.out)
    BY <2>4 DEF HeadsOnce
  <2>6. ls.st.short \subseteq chain.st.short
    BY <2>3 DEF Later, Onward
  <2>7. ToSet(ls.out) = {}
    BY <1>9 DEF ToSet
  <2>8. ls.st.short \cap {"truncated", "interrupted"} = {} => LeavesOf(e) = {}
    BY <1>6, <2>7
  <2>9. ASSUME chain.st.short = {}
        PROVE  Whole(ToSet(e.certs), chain.path) /\ DeployedIn(e, FALSE) = {first}
    <3>1. ~Cut(chain.st) /\ Held = ToSet(e.certs) /\ LeavesOf(e) = {}
      BY <1>5, <2>6, <2>8, <2>9 DEF Cut, CutShort
    <3>2. ToSet(e.certs) # {} /\ e.tag = "key"
      BY <1>9, <2>2
    <3>3. QED BY <2>3, <3>1, <3>2 DEF DeployedIn, first
  <2>10. WellFound(e, chain.st.short, chain.path)
    BY <2>2, <2>3, <2>9 DEF WellFound, Held
  <2>11. AllFound(e, chain.st.short, {first})
    BY <2>6, <2>8, <2>9 DEF AllFound, DeployedIn
  <2>12. {Head(p) : p \in ToSet(f.out)} = {first}
    BY <2>3, <2>4
  <2>13. sofar = 0 => Cancelled(f.st)
    BY <1>7, <2>1, <2>3 DEF Later, Onward
  <2>14. QED BY <2>1, <2>3, <2>4, <2>5, <2>10, <2>11, <2>12, <2>13
<1>10. QED BY <1>8, <1>9

-----------------------------------------------------------------------------
(* The stores of one file (ReadFile).                                      *)

\* What a shortfall excuses, a longer one does.
LEMMA ShortExcuses ==
  ASSUME NEW e, NEW short, NEW shorter, short \subseteq shorter, NEW p, WellFound(e, short, p)
  PROVE  WellFound(e, shorter, p)
BY DEF WellFound

LEMMA MoreExcuses ==
  ASSUME NEW e, NEW short, NEW shorter, short \subseteq shorter, NEW heads, NEW more, heads \subseteq more,
         AllFound(e, short, heads)
  PROVE  AllFound(e, shorter, more)
<1>1. DeployedIn(e, shorter # {}) \subseteq DeployedIn(e, short # {})
  <2>1. CASE short # {}
    <3>1. short # {} /\ shorter # {}
      BY <2>1
    <3>2. QED BY <3>1 DEF DeployedIn
  <2>2. CASE short = {}
    BY <2>2 DEF DeployedIn
  <2>3. QED BY <2>1, <2>2
<1>2. shorter \cap {"truncated", "interrupted"} = {} => short \cap {"truncated", "interrupted"} = {}
  OBVIOUS
<1>3. QED BY <1>1, <1>2 DEF AllFound

Observation(N, C) == [file : N, alias : Nat, path : Seq(C)]
HeadsOf(out, n, a) == {Head(out[k].path) : k \in {j \in DOMAIN out : out[j].file = n /\ out[j].alias = a}}
SameLeaf(o, p) == o.file = p.file /\ o.alias = p.alias /\ Head(o.path) = Head(p.path)

\* What reading file n has come to after its first i stores, E being all of them
\* and `before` what was observed before.
Accumulator(N, C) ==
  [left : Nat, until : Nat \cup {Never}, short : SUBSET Shortfalls, out : Seq(Observation(N, C)),
   refused : BOOLEAN, stopped : BOOLEAN]
Continues(before, out) == Len(before) <= Len(out) /\ \A k \in DOMAIN before : out[k] = before[k]
Fresh(before, out) == DOMAIN out \ DOMAIN before
Reading(N, C, n, E, before, i) ==
  {acc \in Accumulator(N, C) :
     /\ "interrupted" \in acc.short \/ acc.stopped => Cancelled(acc)
     /\ Len(acc.out) <= Room /\ Continues(before, acc.out)
     /\ \A k \in Fresh(before, acc.out) :
          /\ acc.out[k].file = n /\ acc.out[k].alias \in 1..i
          /\ WellFound(E[acc.out[k].alias], acc.short, acc.out[k].path)
     /\ \A j, k \in Fresh(before, acc.out) : SameLeaf(acc.out[j], acc.out[k]) => j = k
     /\ acc.refused \/ acc.stopped \/ \A a \in 1..i : AllFound(E[a], acc.short, HeadsOf(acc.out, n, a))}

\* The observations of one store's paths.
LEMMA ObservedFacts ==
  ASSUME NEW N, NEW C, NEW n \in N, NEW i \in Nat, NEW paths \in Seq(Seq(C)), NEW q, q = Observed(n, i, paths)
  PROVE  /\ q \in Seq(Observation(N, C)) /\ Len(q) = Len(paths) /\ DOMAIN q = DOMAIN paths
         /\ \A k \in DOMAIN paths : q[k].file = n /\ q[k].alias = i /\ q[k].path = paths[k]
<1>1. Len(paths) \in Nat /\ DOMAIN paths = 1..Len(paths) /\ \A k \in DOMAIN paths : paths[k] \in Seq(C)
  OBVIOUS
<1>2. q = [k \in 1..Len(paths) |-> [file |-> n, alias |-> i, path |-> paths[k]]]
  BY <1>1 DEF Observed
<1>3. \A k \in 1..Len(paths) : [file |-> n, alias |-> i, path |-> paths[k]] \in Observation(N, C)
  BY <1>1 DEF Observation
<1>4. q \in [1..Len(paths) -> Observation(N, C)]
  BY <1>2, <1>3
<1>5. q \in Seq(Observation(N, C)) /\ Len(q) = Len(paths) /\ DOMAIN q = 1..Len(paths)
  <2> DEFINE m == Len(paths)
             T == Observation(N, C)
  <2>1. m \in Nat /\ q \in [1..m -> T]
    BY <1>1, <1>4
  <2> HIDE DEF m, T
  <2>2. q \in Seq(T) /\ Len(q) = m /\ DOMAIN q = 1..m
    BY <2>1
  <2>3. QED BY <2>2 DEF m, T
<1>6. QED BY <1>1, <1>2, <1>5

\* The first part of a sequence, and more after it.
LEMMA ConcatFacts ==
  ASSUME NEW T, NEW p \in Seq(T), NEW q \in Seq(T)
  PROVE  /\ p \o q \in Seq(T) /\ Len(p \o q) = Len(p) + Len(q)
         /\ Len(p) \in Nat /\ Len(q) \in Nat /\ DOMAIN p = 1..Len(p) /\ DOMAIN q = 1..Len(q)
         /\ DOMAIN (p \o q) = 1..(Len(p) + Len(q))
         /\ \A k \in DOMAIN p : k \in DOMAIN (p \o q) /\ (p \o q)[k] = p[k]
         /\ \A k \in DOMAIN q : Len(p) + k \in DOMAIN (p \o q) /\ (p \o q)[Len(p) + k] = q[k]
         /\ \A k \in DOMAIN (p \o q) : k \in DOMAIN p \/ (k - Len(p) \in DOMAIN q /\ k = Len(p) + (k - Len(p)))
<1>1. /\ p \o q \in Seq(T) /\ Len(p \o q) = Len(p) + Len(q)
      /\ Len(p) \in Nat /\ Len(q) \in Nat /\ DOMAIN p = 1..Len(p) /\ DOMAIN q = 1..Len(q)
      /\ DOMAIN (p \o q) = 1..(Len(p) + Len(q))
  OBVIOUS
<1>2. \A k \in DOMAIN p : k \in DOMAIN (p \o q) /\ (p \o q)[k] = p[k]
  OBVIOUS
<1>3. \A k \in DOMAIN q : Len(p) + k \in DOMAIN (p \o q) /\ (p \o q)[Len(p) + k] = q[k]
  OBVIOUS
<1>4. \A k \in 1..(Len(p) + Len(q)) : k \in 1..Len(p) \/ (k - Len(p) \in 1..Len(q) /\ k = Len(p) + (k - Len(p)))
  BY <1>1
<1>5. QED BY <1>1, <1>2, <1>3, <1>4

\* Take: one store more.
LEMMA TakeFacts ==
  ASSUME NEW N, NEW C, NEW n \in N, NEW E, NEW before \in Seq(Observation(N, C)), NEW i \in Nat \ {0},
         NEW acc \in Reading(N, C, n, E, before, i - 1), ~acc.refused, ~acc.stopped,
         NEW found, found.st \in States(C), found.out \in Seq(Seq(C)), HeadsOnce(found.out),
         Cancelled(acc) => Cancelled(found.st),
         \A p \in ToSet(found.out) : WellFound(E[i], found.st.short, p),
         AllFound(E[i], found.st.short, {Head(p) : p \in ToSet(found.out)})
  PROVE  Take(n, i, acc, found) \in Reading(N, C, n, E, before, i)
<1> DEFINE room == Room - Len(acc.out)
           taken == UpTo(found.out, room)
           more == Observed(n, i, taken)
           out == acc.out \o more
           short == acc.short \cup found.st.short
           now == Take(n, i, acc, found)
           T == Observation(N, C)
<1>1. /\ acc \in Accumulator(N, C) /\ acc.out \in Seq(T) /\ acc.short \subseteq Shortfalls
      /\ "interrupted" \in acc.short => Cancelled(acc)
      /\ Len(acc.out) <= Room /\ Continues(before, acc.out)
      /\ \A k \in Fresh(before, acc.out) :
           /\ acc.out[k].file = n /\ acc.out[k].alias \in 1..(i - 1)
           /\ WellFound(E[acc.out[k].alias], acc.short, acc.out[k].path)
      /\ \A j, k \in Fresh(before, acc.out) : SameLeaf(acc.out[j], acc.out[k]) => j = k
      /\ \A a \in 1..(i - 1) : AllFound(E[a], acc.short, HeadsOf(acc.out, n, a))
  BY DEF Reading, Accumulator
<1>2. room \in Nat
  BY <1>1, WalkBoundsAssumption
<1> HIDE DEF room
<1>3. /\ taken \in Seq(Seq(C)) /\ Len(taken) \in Nat /\ Len(taken) <= room
      /\ DOMAIN taken \subseteq DOMAIN found.out
      /\ \A k \in DOMAIN taken : taken[k] = found.out[k]
      /\ Len(found.out) <= room => taken = found.out
  BY <1>2, UpToFacts
<1> HIDE DEF taken
<1>4. /\ more \in Seq(T) /\ Len(more) = Len(taken) /\ DOMAIN more = DOMAIN taken
      /\ \A k \in DOMAIN taken : more[k].file = n /\ more[k].alias = i /\ more[k].path = taken[k]
  BY <1>3, ObservedFacts
<1> HIDE DEF more, T
<1>5. /\ out \in Seq(T) /\ Len(out) = Len(acc.out) + Len(more)
      /\ Len(acc.out) \in Nat /\ DOMAIN acc.out = 1..Len(acc.out) /\ DOMAIN more = 1..Len(more)
      /\ DOMAIN out = 1..(Len(acc.out) + Len(more))
      /\ \A k \in DOMAIN acc.out : k \in DOMAIN out /\ out[k] = acc.out[k]
      /\ \A k \in DOMAIN more : Len(acc.out) + k \in DOMAIN out /\ out[Len(acc.out) + k] = more[k]
      /\ \A k \in DOMAIN out :
           k \in DOMAIN acc.out \/ (k - Len(acc.out) \in DOMAIN more /\ k = Len(acc.out) + (k - Len(acc.out)))
  <2>1. acc.out \in Seq(T) /\ more \in Seq(T)
    BY <1>1, <1>4
  <2>2. /\ out \in Seq(T) /\ Len(out) = Len(acc.out) + Len(more)
        /\ Len(acc.out) \in Nat /\ DOMAIN acc.out = 1..Len(acc.out) /\ DOMAIN more = 1..Len(more)
        /\ DOMAIN out = 1..(Len(acc.out) + Len(more))
    BY <2>1, ConcatFacts
  <2>3. \A k \in DOMAIN acc.out : k \in DOMAIN out /\ out[k] = acc.out[k]
    BY <2>1, ConcatFacts
  <2>4. \A k \in DOMAIN more : Len(acc.out) + k \in DOMAIN out /\ out[Len(acc.out) + k] = more[k]
    BY <2>1, ConcatFacts
  <2>5. \A k \in DOMAIN out :
          k \in DOMAIN acc.out \/ (k - Len(acc.out) \in DOMAIN more /\ k = Len(acc.out) + (k - Len(acc.out)))
    BY <2>1, ConcatFacts
  <2>6. QED BY <2>2, <2>3, <2>4, <2>5
<1> HIDE DEF out
<1>6. short \subseteq Shortfalls /\ acc.short \subseteq short /\ found.st.short \subseteq short
  BY <1>1 DEF States
<1>7. now = [[acc EXCEPT !.left = found.st.left, !.until = found.st.until, !.short = short]
                EXCEPT !.out = out, !.refused = Len(found.out) > room]
  BY <1>1 DEF Take, Spent, Accumulator, room, taken, more, out
<1> HIDE DEF now, short
<1>8. /\ now \in Accumulator(N, C)
      /\ now.left = found.st.left /\ now.until = found.st.until /\ now.short = short /\ now.out = out
      /\ now.refused = (Len(found.out) > room) /\ ~now.stopped
  <2>1. found.st.left \in Nat /\ found.st.until \in Nat \cup {Never} /\ (Len(found.out) > room) \in BOOLEAN
    BY DEF States
  <2>2. out \in Seq(Observation(N, C)) /\ short \in SUBSET Shortfalls
    BY <1>5, <1>6 DEF T
  <2>3. QED BY <1>1, <1>7, <2>1, <2>2 DEF Accumulator
<1>9. "interrupted" \in now.short \/ now.stopped => Cancelled(now)
  <2>1. Cancelled(found.st) => Cancelled(now)
    BY <1>8 DEF Cancelled
  <2>2. "interrupted" \in found.st.short => Cancelled(found.st)
    BY DEF States
  <2>3. QED BY <1>1, <1>8, <2>1, <2>2 DEF short
<1>10. Len(out) <= Room
  BY <1>1, <1>2, <1>3, <1>4, <1>5, WalkBoundsAssumption DEF room
<1>11. Continues(before, out) /\ Len(before) \in Nat /\ DOMAIN before = 1..Len(before) /\ DOMAIN before \subseteq DOMAIN acc.out
  <2>1. Len(before) \in Nat /\ DOMAIN before = 1..Len(before) /\ Len(before) <= Len(acc.out)
    BY <1>1 DEF Continues
  <2>2. DOMAIN before \subseteq DOMAIN acc.out
    BY <1>5, <2>1
  <2>3. Len(before) <= Len(out)
    BY <1>4, <1>5, <1>3, <2>1
  <2>4. \A k \in DOMAIN before : out[k] = before[k]
    BY <1>1, <1>5, <2>2 DEF Continues
  <2>5. QED BY <2>1, <2>2, <2>3, <2>4 DEF Continues
<1>12. \A k \in Fresh(before, out) :
         \/ k \in Fresh(before, acc.out) /\ out[k] = acc.out[k]
         \/ /\ k - Len(acc.out) \in DOMAIN taken /\ k = Len(acc.out) + (k - Len(acc.out))
            /\ out[k].file = n /\ out[k].alias = i /\ out[k].path = taken[k - Len(acc.out)]
  BY <1>4, <1>5, <1>11 DEF Fresh
<1>13. ASSUME NEW k \in Fresh(before, out)
       PROVE  out[k].file = n /\ out[k].alias \in 1..i /\ WellFound(E[out[k].alias], short, out[k].path)
  <2>1. CASE k \in Fresh(before, acc.out) /\ out[k] = acc.out[k]
    <3>1. out[k].file = n /\ out[k].alias \in 1..(i - 1) /\ WellFound(E[out[k].alias], acc.short, out[k].path)
      BY <1>1, <2>1
    <3>2. out[k].alias \in 1..i
      BY <3>1
    <3>3. QED BY <1>6, <3>1, <3>2, ShortExcuses
  <2>2. CASE /\ k - Len(acc.out) \in DOMAIN taken
             /\ out[k].file = n /\ out[k].alias = i /\ out[k].path = taken[k - Len(acc.out)]
    <3>1. out[k].path \in ToSet(found.out)
      BY <1>3, <2>2 DEF ToSet
    <3>2. WellFound(E[i], short, out[k].path)
      BY <1>6, <3>1, ShortExcuses
    <3>3. QED BY <2>2, <3>2
  <2>3. QED BY <1>12, <2>1, <2>2
<1>14. ASSUME NEW j \in Fresh(before, out), NEW k \in Fresh(before, out), SameLeaf(out[j], out[k])
       PROVE  j = k
  <2>1. \A m \in Fresh(before, out) : m \in Fresh(before, acc.out) /\ out[m] = acc.out[m] => out[m].alias # i
    <3>1. \A m \in Fresh(before, acc.out) : acc.out[m].alias \in 1..(i - 1)
      BY <1>1
    <3>2. i \notin 1..(i - 1)
      OBVIOUS
    <3>3. QED BY <3>1, <3>2
  <2>2. out[j].alias = out[k].alias /\ Head(out[j].path) = Head(out[k].path)
    BY <1>14 DEF SameLeaf
  <2>3. CASE out[j].alias = i
    <3>1. /\ j - Len(acc.out) \in DOMAIN taken /\ out[j].path = taken[j - Len(acc.out)]
          /\ k - Len(acc.out) \in DOMAIN taken /\ out[k].path = taken[k - Len(acc.out)]
          /\ j = Len(acc.out) + (j - Len(acc.out)) /\ k = Len(acc.out) + (k - Len(acc.out))
      BY <1>12, <2>1, <2>2, <2>3
    <3>2. j - Len(acc.out) = k - Len(acc.out)
      BY <1>3, <2>2, <3>1 DEF HeadsOnce
    <3>3. QED BY <3>1, <3>2
  <2>4. CASE out[j].alias # i
    <3>1. j \in Fresh(before, acc.out) /\ out[j] = acc.out[j] /\ k \in Fresh(before, acc.out) /\ out[k] = acc.out[k]
      BY <1>12, <2>2, <2>4
    <3>2. QED BY <1>1, <1>14, <3>1
  <2>5. QED BY <2>3, <2>4
<1>15. ASSUME ~now.refused, NEW a \in 1..i PROVE AllFound(E[a], short, HeadsOf(out, n, a))
  <2>1. HeadsOf(acc.out, n, a) \subseteq HeadsOf(out, n, a)
    BY <1>5 DEF HeadsOf
  <2>2. CASE a = i
    <3>1. taken = found.out
      <4>1. ~(Len(found.out) > room)
        BY <1>8, <1>15
      <4>2. Len(found.out) \in Nat
        OBVIOUS
      <4>3. QED BY <1>2, <1>3, <4>1, <4>2
    <3>2. ASSUME NEW p \in ToSet(found.out) PROVE Head(p) \in HeadsOf(out, n, a)
      <4>1. PICK k \in DOMAIN taken : p = taken[k]
        BY <3>1 DEF ToSet
      <4>2. /\ Len(acc.out) + k \in DOMAIN out /\ out[Len(acc.out) + k].file = n
            /\ out[Len(acc.out) + k].alias = a /\ out[Len(acc.out) + k].path = p
        BY <1>4, <1>5, <2>2, <4>1
      <4>3. QED BY <4>2 DEF HeadsOf
    <3>3. {Head(p) : p \in ToSet(found.out)} \subseteq HeadsOf(out, n, a)
      BY <3>2
    <3>4. QED BY <1>6, <2>2, <3>3, MoreExcuses
  <2>3. CASE a # i
    <3>1. a \in 1..(i - 1)
      BY <2>3
    <3>2. AllFound(E[a], acc.short, HeadsOf(acc.out, n, a))
      BY <1>1, <3>1
    <3>3. QED BY <1>6, <2>1, <3>2, MoreExcuses
  <2>4. QED BY <2>2, <2>3
<1>16. now \in Reading(N, C, n, E, before, i)
  BY <1>8, <1>9, <1>10, <1>11, <1>13, <1>14, <1>15 DEF Reading
<1>17. QED BY <1>16 DEF now

LEMMA ReadEntryFacts ==
  ASSUME NEW N, NEW C, Certificates(C), NEW n \in N, NEW E, NEW before \in Seq(Observation(N, C)),
         NEW i \in Nat \ {0}, E[i].certs \in Seq(C),
         NEW acc \in Reading(N, C, n, E, before, i - 1), ~acc.refused, ~acc.stopped
  PROVE  ReadEntry(n, acc, i, E[i]) \in Reading(N, C, n, E, before, i)
<1> DEFINE e == E[i]
           store == StoreIn(e)
           found == Found(store, e, Leaves(store, Opened(e.certs, <<>>, acc.left, acc.until)))
<1>1. acc.left \in Nat /\ acc.until \in Nat \cup {Never}
  BY DEF Reading, Accumulator
<1>2. /\ found.st \in States(C) /\ found.out \in Seq(Seq(C)) /\ HeadsOnce(found.out)
      /\ acc.until = 0 => Cancelled(found.st)
      /\ \A p \in ToSet(found.out) : WellFound(e, found.st.short, p)
      /\ AllFound(e, found.st.short, {Head(p) : p \in ToSet(found.out)})
  <2> HIDE DEF found, e, store
  <2>1. e.certs \in Seq(C) /\ store = StoreIn(e)
    BY DEF e, store
  <2>2. found = Found(store, e, Leaves(store, Opened(e.certs, <<>>, acc.left, acc.until)))
    BY DEF found
  <2>3. found.st \in States(C) /\ found.out \in Seq(Seq(C)) /\ HeadsOnce(found.out)
    BY <1>1, <2>1, <2>2, FoundFacts, ZenonT(40)
  <2>4. acc.until = 0 => Cancelled(found.st)
    BY <1>1, <2>1, <2>2, FoundFacts, ZenonT(40)
  <2>5. \A p \in ToSet(found.out) : WellFound(e, found.st.short, p)
    BY <1>1, <2>1, <2>2, FoundFacts, ZenonT(40)
  <2>6. AllFound(e, found.st.short, {Head(p) : p \in ToSet(found.out)})
    BY <1>1, <2>1, <2>2, FoundFacts, ZenonT(40)
  <2>7. QED BY <2>3, <2>4, <2>5, <2>6
<1>3. ReadEntry(n, acc, i, e) = Take(n, i, acc, found)
  BY DEF ReadEntry, StoreIn
<1> HIDE DEF found
<1>4. Cancelled(acc) => Cancelled(found.st)
  BY <1>2 DEF Cancelled
<1>5. QED BY <1>2, <1>3, <1>4, TakeFacts

LEMMA ReadNextFacts ==
  ASSUME NEW N, NEW C, Certificates(C), NEW n \in N, NEW E, NEW before \in Seq(Observation(N, C)),
         NEW i \in Nat \ {0}, E[i].certs \in Seq(C),
         NEW acc \in Reading(N, C, n, E, before, i - 1), NEW src
  PROVE  ReadNext(src, n, acc, [alias |-> i, entry |-> E[i]]) \in Reading(N, C, n, E, before, i)
<1> DEFINE store == [alias |-> i, entry |-> E[i]]
           now == ReadNext(src, n, acc, store)
<1>1. /\ acc \in Accumulator(N, C)
      /\ "interrupted" \in acc.short \/ acc.stopped => Cancelled(acc)
      /\ Len(acc.out) <= Room /\ Continues(before, acc.out)
      /\ \A k \in Fresh(before, acc.out) :
           /\ acc.out[k].file = n /\ acc.out[k].alias \in 1..(i - 1)
           /\ WellFound(E[acc.out[k].alias], acc.short, acc.out[k].path)
      /\ \A j, k \in Fresh(before, acc.out) : SameLeaf(acc.out[j], acc.out[k]) => j = k
  BY DEF Reading
<1>2. \A x \in 1..(i - 1) : x \in 1..i
  OBVIOUS
<1>3. CASE acc.refused \/ acc.stopped
  <2>1. now = acc
    BY <1>3 DEF ReadNext
  <2>2. acc \in Reading(N, C, n, E, before, i)
    BY <1>1, <1>2, <1>3 DEF Reading
  <2>3. QED BY <2>1, <2>2
<1>4. CASE ~acc.refused /\ ~acc.stopped /\ src = "file"
  <2>1. now = ReadEntry(n, acc, i, E[i])
    BY <1>4 DEF ReadNext
  <2>2. QED BY <1>4, <2>1, ReadEntryFacts
<1>5. CASE ~acc.refused /\ ~acc.stopped /\ src # "file" /\ Cancelled(acc)
  <2> DEFINE end == [acc EXCEPT !.stopped = TRUE]
  <2>1. now = end
    BY <1>5 DEF ReadNext
  <2>2. /\ end \in Accumulator(N, C) /\ end.short = acc.short /\ end.out = acc.out /\ end.until = acc.until
        /\ end.stopped
    BY <1>1 DEF Accumulator
  <2>3. Cancelled(end)
    BY <1>5, <2>2 DEF Cancelled
  <2> HIDE DEF end
  <2>4. end \in Reading(N, C, n, E, before, i)
    BY <1>1, <1>2, <2>2, <2>3 DEF Reading
  <2>5. QED BY <2>1, <2>4
<1>6. CASE ~acc.refused /\ ~acc.stopped /\ src # "file" /\ ~Cancelled(acc)
  <2> DEFINE asked == Asked(acc)
  <2>1. now = ReadEntry(n, asked, i, E[i])
    BY <1>6 DEF ReadNext
  <2>2. (IF acc.until > 0 THEN acc.until - 1 ELSE acc.until) \in Nat \cup {Never}
    BY <1>1 DEF Accumulator, Never
  <2>3. /\ asked \in Accumulator(N, C) /\ asked.short = acc.short /\ asked.out = acc.out
        /\ asked.refused = acc.refused /\ asked.stopped = acc.stopped
    BY <1>1, <2>2 DEF Accumulator, Asked
  <2>4. "interrupted" \notin acc.short
    BY <1>1, <1>6
  <2> HIDE DEF asked
  <2>5. \A a \in 1..(i - 1) : AllFound(E[a], acc.short, HeadsOf(acc.out, n, a))
    BY <1>6 DEF Reading
  <2>6. asked \in Reading(N, C, n, E, before, i - 1)
    BY <1>1, <1>6, <2>3, <2>4, <2>5 DEF Reading
  <2>7. QED BY <1>6, <2>1, <2>3, <2>6, ReadEntryFacts
<1>7. QED BY <1>3, <1>4, <1>5, <1>6

LEMMA ReadFileFacts ==
  ASSUME NEW N, NEW C, Certificates(C), NEW n \in N, NEW E, IsSequence(E),
         \A e \in ToSet(E) : e.certs \in Seq(C),
         observations \in Seq(Observation(N, C)), Len(observations) <= Room,
         until \in Nat \cup {Never}
  PROVE  ReadFile(n, E) \in Reading(N, C, n, E, observations, Len(E))
<1> DEFINE q == Numbered(E)
           Holds == [i \in 0..Len(q) |-> Reading(N, C, n, E, observations, i)]
<1>1. Len(E) \in Nat /\ DOMAIN E = 1..Len(E)
  BY DEF IsSequence
<1>2. q \in Seq(ToSet(q)) /\ Len(q) = Len(E) /\ DOMAIN q = 1..Len(E)
  <2>1. q = [i \in 1..Len(E) |-> [alias |-> i, entry |-> E[i]]]
    BY <1>1 DEF Numbered
  <2> HIDE DEF q
  <2>2. q \in [1..Len(E) -> ToSet(q)]
    BY <2>1 DEF ToSet
  <2>3. QED BY <1>1, <2>2
<1>3. ReadFile(n, E) = EntryFold!Over(source, n, EntryBase, q)
  BY ReadFileIs
<1>4. 0 \in 0..Len(q) /\ Len(q) \in 0..Len(q)
  BY <1>1, <1>2
<1>5. \A i \in DOMAIN q : q[i] = [alias |-> i, entry |-> E[i]]
  BY <1>1, <1>2 DEF Numbered
<1> HIDE DEF q
<1>6. EntryBase \in Holds[0]
  <2> DEFINE base == EntryBase
  <2>1. (IF until > 0 THEN until - 1 ELSE until) \in Nat \cup {Never} /\ VerifyBudget \in Nat
    BY ChainBoundsAssumption DEF Never
  <2>2. {} \in SUBSET Shortfalls
    OBVIOUS
  <2>3. /\ base \in Accumulator(N, C)
        /\ base.short = {} /\ base.out = observations /\ ~base.stopped /\ ~base.refused
    BY <2>1, <2>2 DEF EntryBase, Accumulator
  <2>4. Continues(observations, observations) /\ Fresh(observations, observations) = {}
    BY DEF Continues, Fresh
  <2>5. 1..0 = {}
    OBVIOUS
  <2> HIDE DEF base
  <2>6. base \in Reading(N, C, n, E, observations, 0)
    BY <2>3, <2>4, <2>5 DEF Reading
  <2>7. QED BY <1>4, <2>6 DEF base
<1>7. ASSUME NEW i \in DOMAIN q, NEW acc \in Holds[i - 1]
      PROVE  ReadNext(source, n, acc, q[i]) \in Holds[i]
  <2>1. i \in Nat \ {0} /\ i - 1 \in 0..Len(q) /\ i \in 0..Len(q) /\ i \in DOMAIN E
    BY <1>1, <1>2
  <2>2. E[i].certs \in Seq(C)
    BY <2>1 DEF ToSet
  <2>3. acc \in Reading(N, C, n, E, observations, i - 1)
    BY <2>1
  <2>4. ReadNext(source, n, acc, [alias |-> i, entry |-> E[i]]) \in Reading(N, C, n, E, observations, i)
    BY <2>1, <2>2, <2>3, ReadNextFacts
  <2>5. QED BY <1>5, <2>1, <2>4
<1>8. ReadFile(n, E) \in Holds[Len(q)]
  <2> HIDE DEF Holds
  <2>1. QED BY <1>2, <1>3, <1>6, <1>7, EntryFold!FoldInduction, SMT
<1>9. QED BY <1>2, <1>4, <1>8

LEMMA JavaKeystoreFacts ==
  ASSUME NEW q, IsSequence(q), NEW k, k = JavaKeystore(q)
  PROVE  /\ IsSequence(k) /\ Len(k) \in Nat /\ Len(k) <= Len(q) /\ DOMAIN k = 1..Len(k) /\ DOMAIN k \subseteq DOMAIN q
         /\ \A i \in DOMAIN k : k[i] = q[i]
         /\ ToSet(k) \subseteq ToSet(q)
         /\ Len(k) >= Len(q) => k = q
<1> DEFINE I == {i \in 1..Len(q) : ~Readable(q[i])}
           m == IF I = {} THEN Len(q) ELSE Min(I) - 1
           T == ToSet(q)
<1>1. Len(q) \in Nat /\ DOMAIN q = 1..Len(q) /\ q \in Seq(T)
  BY DEF IsSequence
<1>2. I # {} => Min(I) \in I
  <2>1. SUFFICES ASSUME I # {} PROVE Min(I) \in I
    OBVIOUS
  <2>2. I \subseteq Nat
    OBVIOUS
  <2> HIDE DEF I
  <2>3. \E x \in I : \A y \in I : x <= y
    BY <2>1, <2>2, DistinctFold!Least
  <2>4. QED BY <2>3 DEF Min
<1>3. m \in 0..Len(q)
  BY <1>1, <1>2
<1>4. SelectInSeq(q, LAMBDA e : ~Readable(e)) = IF I # {} THEN Min(I) ELSE 0
  BY DEF SelectInSeq
<1>5. k = IF I = {} THEN q ELSE SubSeq(q, 1, Min(I) - 1)
  <2>1. I # {} => Min(I) # 0
    BY <1>2
  <2> HIDE DEF I
  <2>2. QED BY <1>4, <2>1 DEF JavaKeystore
<1>6. SubSeq(q, 1, Len(q)) = q
  BY <1>1
<1>7. k = SubSeq(q, 1, m)
  BY <1>5, <1>6
<1> HIDE DEF I, m, T
<1>8. /\ k \in Seq(T) /\ Len(k) = m /\ \A i \in 1..m : k[i] = q[i]
  BY <1>1, <1>3, <1>7
<1>9. DOMAIN k = 1..m /\ 1..m \subseteq DOMAIN q /\ (m >= Len(q) => m = Len(q))
  <2>1. DOMAIN k = 1..Len(k)
    BY <1>8
  <2>2. m \in Nat /\ m <= Len(q)
    BY <1>1, <1>3
  <2> DEFINE n == Len(q)
  <2>3. n \in Nat /\ m \in Nat /\ m <= n /\ DOMAIN q = 1..n
    BY <1>1, <2>2
  <2> HIDE DEF n
  <2>4. 1..m \subseteq DOMAIN q /\ (m >= n => m = n)
    BY <2>3
  <2>5. QED BY <1>8, <2>1, <2>4 DEF n
<1>10. IsSequence(k)
  <2>1. \A i \in DOMAIN k : k[i] \in ToSet(k)
    BY DEF ToSet
  <2>2. k \in [1..m -> ToSet(k)]
    BY <1>8, <1>9, <2>1
  <2>3. QED BY <1>3, <2>2 DEF IsSequence
<1>11. ToSet(k) \subseteq ToSet(q)
  BY <1>8, <1>9 DEF ToSet
<1>12. m \in Nat /\ m <= Len(q)
  BY <1>1, <1>3
<1>13. Len(k) >= Len(q) => k = q
  BY <1>6, <1>7, <1>8, <1>9
<1>14. QED BY <1>8, <1>9, <1>10, <1>11, <1>12, <1>13

-----------------------------------------------------------------------------
(* The walk.                                                               *)

CertificatesOf(h) ==
  UNION {UNION {ToSet(e.certs) : e \in ToSet(h.nodes[n].entries)} :
           n \in {n \in DOMAIN h.nodes : h.nodes[n].kind = "file"}}

\* What is to come, and what was recorded, is of this host.
Ahead ==
  /\ host \in Hosts /\ main \in {"collecting", "returned"}
  /\ pending \in Seq(Seq(Nodes)) /\ matches \in Seq(Nodes) /\ todo \in Seq(Nodes \X (0..MaxDepth))
  /\ until \in Nat \cup {Never} /\ seen \in 0..MaxFiles
Recorded ==
  /\ examined \subseteq {n \in Nodes : Candidate(n)} /\ noted \subseteq {n \in Nodes : Candidate(n)}
  /\ observations \in Seq(Observation(Nodes, CertificatesOf(host))) /\ Len(observations) <= Room
  /\ completed \in BOOLEAN /\ full \in BOOLEAN

\* Every path that was recorded is of a file that was opened, and is what its
\* store has, or the file or the sweep says that it may not be.
EntryOf(o) == Node(o.file).entries[o.alias]
Excuse(n) == IF n \in noted \/ ~completed THEN {"interrupted"} ELSE {}
FromFiles ==
  \A k \in DOMAIN observations :
    LET o == observations[k] IN
    /\ o.file \in examined /\ o.alias \in DOMAIN Node(o.file).entries
    /\ WellFound(EntryOf(o), Excuse(o.file), o.path)

Inv == Ahead /\ Recorded /\ FromFiles /\ ReportedOnce

\* What the assumption says of the host at hand.
LEMMA HostFacts ==
  ASSUME host \in Hosts
  PROVE  /\ host.roots \in Seq(Seq(Nodes))
         /\ \A n \in Nodes : Node(n).kind = "dir" => Node(n).holds \in Seq(Nodes)
         /\ \A n \in Nodes : Node(n).kind = "file" =>
              /\ IsSequence(Node(n).entries)
              /\ \A e \in ToSet(Node(n).entries) : e.certs \in Seq(CertificatesOf(host))
         /\ Certificates(CertificatesOf(host))
<1>1. /\ host.roots \in Seq(Seq(Nodes))
      /\ \A n \in Nodes : Node(n).kind = "dir" => Node(n).holds \in Seq(Nodes)
      /\ \A n \in Nodes : Node(n).kind = "file" =>
           /\ IsSequence(Node(n).entries)
           /\ \A e \in ToSet(Node(n).entries) :
                IsSequence(e.certs) /\ \A c \in ToSet(e.certs) : c.key \in DOMAIN Cost /\ c.valid \in BOOLEAN
  BY HostsAssumption DEF Nodes, Node
<1>2. ASSUME NEW n \in Nodes, Node(n).kind = "file", NEW e \in ToSet(Node(n).entries)
      PROVE  e.certs \in Seq(CertificatesOf(host))
  <2>1. ToSet(e.certs) \subseteq CertificatesOf(host)
    BY <1>2 DEF CertificatesOf, Nodes, Node
  <2>2. e.certs \in Seq(ToSet(e.certs))
    BY <1>1, <1>2 DEF IsSequence
  <2>3. QED BY <2>1, <2>2
<1>3. Certificates(CertificatesOf(host))
  <2>1. ASSUME NEW c \in CertificatesOf(host) PROVE c.key \in DOMAIN Cost /\ c.valid \in BOOLEAN
    <3>1. PICK n \in Nodes : Node(n).kind = "file" /\ \E e \in ToSet(Node(n).entries) : c \in ToSet(e.certs)
      BY DEF CertificatesOf, Nodes, Node
    <3>2. QED BY <1>1, <3>1
  <2>2. QED BY <2>1 DEF Certificates
<1>4. QED BY <1>1, <1>2, <1>3

LEMMA Start == Init => Inv
<1> SUFFICES ASSUME Init PROVE Inv
  OBVIOUS
<1>1. host.roots \in Seq(Seq(Nodes))
  BY HostFacts DEF Init
<1>2. until \in Nat \cup {Never} /\ 0 \in 0..MaxFiles
  BY WalkBoundsAssumption DEF Init
<1>3. Ahead
  BY <1>1, <1>2 DEF Init, Ahead
<1>4. Recorded
  <2>1. observations = <<>> /\ examined = {} /\ noted = {} /\ completed = TRUE /\ full = FALSE
    BY DEF Init
  <2>2. <<>> \in Seq(Observation(Nodes, CertificatesOf(host))) /\ Len(<<>>) <= Room
    BY WalkBoundsAssumption
  <2>3. QED BY <2>1, <2>2 DEF Recorded
<1>5. FromFiles /\ ReportedOnce
  BY DEF Init, FromFiles, ReportedOnce
<1>6. QED BY <1>3, <1>4, <1>5 DEF Inv

\* Nothing is recorded, and perhaps a file or the sweep is excused.
LEMMA NothingRecorded ==
  ASSUME Recorded, FromFiles, ReportedOnce, UNCHANGED <<host, observations>>,
         examined \subseteq examined', examined' \subseteq {n \in Nodes : Candidate(n)},
         noted' = noted, completed' \in BOOLEAN, completed' => completed, full' \in BOOLEAN
  PROVE  Recorded' /\ FromFiles' /\ ReportedOnce'
<1>1. Nodes' = Nodes /\ CertificatesOf(host)' = CertificatesOf(host) /\ \A n : Node(n)' = Node(n)
  BY DEF Nodes, Node, CertificatesOf
<1>2. {n \in Nodes : Candidate(n)}' = {n \in Nodes : Candidate(n)}
  BY <1>1 DEF Candidate, Node
<1>3. Recorded'
  BY <1>1, <1>2 DEF Recorded
<1>4. FromFiles'
  <2>1. SUFFICES ASSUME NEW k \in DOMAIN observations, NEW o, o = observations[k]
                 PROVE  /\ o.file \in examined' /\ o.alias \in DOMAIN Node(o.file).entries
                        /\ WellFound(EntryOf(o), Excuse(o.file)', o.path)
    BY <1>1 DEF FromFiles, EntryOf, Node
  <2>2. o.file \in examined /\ o.alias \in DOMAIN Node(o.file).entries /\ WellFound(EntryOf(o), Excuse(o.file), o.path)
    BY <2>1 DEF FromFiles
  <2>3. Excuse(o.file) \subseteq Excuse(o.file)'
    BY DEF Excuse
  <2>4. WellFound(EntryOf(o), Excuse(o.file)', o.path)
    BY <2>2, <2>3, ShortExcuses
  <2>5. QED BY <2>2, <2>4
<1>5. ReportedOnce'
  BY DEF ReportedOnce
<1>6. QED BY <1>3, <1>4, <1>5

\* What the next file to be read yields.
LEMMA ReadingFacts ==
  ASSUME Ahead, Recorded, NEW n \in Nodes, Candidate(n)
  PROVE  LET whole == Node(n).entries
             E == JavaKeystore(whole)
         IN /\ IsSequence(E) /\ Len(E) \in Nat /\ DOMAIN E = 1..Len(E) /\ DOMAIN E \subseteq DOMAIN whole
            /\ \A i \in DOMAIN E : E[i] = whole[i]
            /\ Len(E) < Len(whole) \/ E = whole
            /\ ReadFile(n, E) \in Reading(Nodes, CertificatesOf(host), n, E, observations, Len(E))
<1> DEFINE C == CertificatesOf(host)
           whole == Node(n).entries
           E == JavaKeystore(whole)
<1>1. IsSequence(whole) /\ (\A e \in ToSet(whole) : e.certs \in Seq(C)) /\ Certificates(C)
  BY HostFacts DEF Ahead, Candidate
<1>2. /\ IsSequence(E) /\ Len(E) \in Nat /\ DOMAIN E = 1..Len(E) /\ DOMAIN E \subseteq DOMAIN whole
      /\ (\A i \in DOMAIN E : E[i] = whole[i]) /\ ToSet(E) \subseteq ToSet(whole)
      /\ Len(E) >= Len(whole) => E = whole
  BY <1>1, JavaKeystoreFacts
<1>3. Len(whole) \in Nat
  BY <1>1 DEF IsSequence
<1>4. observations \in Seq(Observation(Nodes, C)) /\ Len(observations) <= Room /\ until \in Nat \cup {Never}
  BY DEF Recorded, Ahead
<1> HIDE DEF C, whole, E
<1>5. ReadFile(n, E) \in Reading(Nodes, C, n, E, observations, Len(E))
  BY <1>1, <1>2, <1>4, ReadFileFacts
<1>6. Len(E) < Len(whole) \/ E = whole
  BY <1>2, <1>3
<1>7. QED BY <1>2, <1>5, <1>6 DEF C, whole, E

\* A file is read that was not opened before.
LEMMA FileRead ==
  ASSUME Ahead, Recorded, FromFiles, ReportedOnce, UNCHANGED host,
         NEW n \in Nodes, Candidate(n), n \notin examined, examined' = examined \cup {n}, Read(n)
  PROVE  Recorded' /\ FromFiles' /\ ReportedOnce' /\ until' \in Nat \cup {Never}
<1> DEFINE C == CertificatesOf(host)
           whole == Node(n).entries
           E == JavaKeystore(whole)
           r == ReadFile(n, E)
           cut == Len(E) < Len(whole)
<1>1. Nodes' = Nodes /\ C' = C /\ \A m : Node(m)' = Node(m)
  BY DEF Nodes, Node, CertificatesOf
<1>2. {m \in Nodes : Candidate(m)}' = {m \in Nodes : Candidate(m)}
  BY <1>1 DEF Candidate, Node
<1>3. Record(n, cut, r)
  BY DEF Read
<1> HIDE DEF cut
<1>4. /\ DOMAIN E = 1..Len(E) /\ DOMAIN E \subseteq DOMAIN whole /\ \A i \in DOMAIN E : E[i] = whole[i]
      /\ r \in Reading(Nodes, C, n, E, observations, Len(E))
  BY ReadingFacts
<1> HIDE DEF C, whole, E, r
<1>5. /\ r \in Accumulator(Nodes, C) /\ r.out \in Seq(Observation(Nodes, C)) /\ r.until \in Nat \cup {Never}
      /\ Len(r.out) <= Room /\ Continues(observations, r.out)
      /\ \A k \in Fresh(observations, r.out) :
           /\ r.out[k].file = n /\ r.out[k].alias \in 1..Len(E)
           /\ WellFound(E[r.out[k].alias], r.short, r.out[k].path)
      /\ \A j, k \in Fresh(observations, r.out) : SameLeaf(r.out[j], r.out[k]) => j = k
  BY <1>4 DEF Reading, Accumulator
<1>6. /\ until' = r.until /\ observations' = r.out
      /\ completed' = (completed /\ ~cut /\ ~r.refused /\ ~r.stopped /\ r.short \cap {"truncated", "interrupted"} = {})
      /\ noted' = noted \cup IF cut \/ r.short \ {"interrupted"} # {} THEN {n} ELSE {}
      /\ full' = (full \/ r.refused)
  BY <1>3 DEF Record
<1>7. noted \subseteq noted' /\ noted' \subseteq noted \cup {n} /\ (completed' => completed)
  BY <1>6
<1>8. Recorded'
  <2>1. examined' \subseteq {m \in Nodes : Candidate(m)} /\ noted' \subseteq {m \in Nodes : Candidate(m)}
    BY <1>7 DEF Recorded
  <2>2. completed' \in BOOLEAN /\ full' \in BOOLEAN
    BY <1>6
  <2>3. observations' \in Seq(Observation(Nodes, C)) /\ Len(observations') <= Room
    BY <1>5, <1>6
  <2>4. QED BY <1>1, <1>2, <2>1, <2>2, <2>3 DEF Recorded, C
<1>9. \A k \in DOMAIN observations' :
         \/ k \in DOMAIN observations /\ observations'[k] = observations[k]
         \/ k \in Fresh(observations, r.out) /\ observations'[k] = r.out[k]
  BY <1>5, <1>6 DEF Continues, Fresh
<1>10. FromFiles'
  <2>1. SUFFICES ASSUME NEW k \in DOMAIN observations', NEW o, o = observations'[k]
                 PROVE  /\ o.file \in examined' /\ o.alias \in DOMAIN Node(o.file).entries
                        /\ WellFound(EntryOf(o), Excuse(o.file)', o.path)
    BY <1>1 DEF FromFiles, EntryOf, Node
  <2>2. CASE k \in DOMAIN observations /\ o = observations[k]
    <3>1. /\ o.file \in examined /\ o.alias \in DOMAIN Node(o.file).entries
          /\ WellFound(EntryOf(o), Excuse(o.file), o.path)
      BY <2>2 DEF FromFiles
    <3>2. Excuse(o.file) \subseteq Excuse(o.file)'
      BY <1>7 DEF Excuse
    <3>3. WellFound(EntryOf(o), Excuse(o.file)', o.path)
      BY <3>1, <3>2, ShortExcuses
    <3>4. QED BY <3>1, <3>3
  <2>3. CASE k \in Fresh(observations, r.out) /\ o = r.out[k]
    <3>1. o.file = n /\ o.alias \in DOMAIN E /\ WellFound(E[o.alias], r.short, o.path)
      BY <1>4, <1>5, <2>3
    <3>2. o.alias \in DOMAIN Node(o.file).entries /\ EntryOf(o) = E[o.alias]
      BY <1>4, <3>1 DEF EntryOf, whole
    <3>3. r.short # {} => Excuse(n)' = {"interrupted"}
      <4>1. r.short # {} => n \in noted' \/ ~completed'
        BY <1>6
      <4>2. QED BY <4>1 DEF Excuse
    <3>4. WellFound(EntryOf(o), Excuse(o.file)', o.path)
      BY <3>1, <3>2, <3>3 DEF WellFound
    <3>5. QED BY <3>1, <3>2, <3>4
  <2>4. QED BY <1>9, <2>1, <2>2, <2>3
<1>11. ReportedOnce'
  <2>1. SUFFICES ASSUME NEW j \in DOMAIN observations', NEW k \in DOMAIN observations',
                        SameLeaf(observations'[j], observations'[k])
                 PROVE  j = k
    BY DEF ReportedOnce, SameLeaf
  <2>2. observations'[j].file = observations'[k].file
    BY <2>1 DEF SameLeaf
  <2>3. \A i \in DOMAIN observations : observations[i].file # n
    BY DEF FromFiles
  <2>4. CASE /\ j \in DOMAIN observations /\ observations'[j] = observations[j]
             /\ k \in DOMAIN observations /\ observations'[k] = observations[k]
    BY <2>1, <2>4 DEF ReportedOnce, SameLeaf
  <2>5. CASE /\ j \in Fresh(observations, r.out) /\ observations'[j] = r.out[j]
             /\ k \in Fresh(observations, r.out) /\ observations'[k] = r.out[k]
    BY <1>5, <2>1, <2>5
  <2>6. \A i \in Fresh(observations, r.out) : r.out[i].file = n
    BY <1>5
  <2>7. QED BY <1>9, <2>2, <2>3, <2>4, <2>5, <2>6
<1>12. QED BY <1>5, <1>6, <1>8, <1>10, <1>11

LEMMA UntilAsked ==
  ASSUME until \in Nat \cup {Never}, Ask \/ UNCHANGED until
  PROVE  until' \in Nat \cup {Never}
BY DEF Ask, Never

LEMMA TailOf ==
  ASSUME NEW T, NEW q \in Seq(T), q # <<>>
  PROVE  Tail(q) \in Seq(T) /\ Head(q) \in T
OBVIOUS

\* The steps that open no file.
LEMMA WalkStep ==
  ASSUME Inv, NextRoot \/ Walk \/ Stop \/ Leave \/ (main = "collecting" /\ Return)
  PROVE  Inv'
<1> USE DEF Inv
<1>1. CASE NextRoot
  <2>1. pending # <<>> /\ matches' = Head(pending) /\ pending' = Tail(pending) /\ (UNCHANGED until \/ Ask)
        /\ UNCHANGED <<host, todo, seen, examined, observations, noted, full, completed, main>>
    BY <1>1 DEF NextRoot, result
  <2>2. Nodes' = Nodes
    BY <2>1 DEF Nodes
  <2>3. Ahead'
    BY <2>1, <2>2, UntilAsked, TailOf DEF Ahead
  <2>4. Recorded' /\ FromFiles' /\ ReportedOnce'
    BY <2>1, NothingRecorded DEF Recorded
  <2>5. QED BY <2>3, <2>4
<1>2. CASE Walk
  <2>1. /\ matches # <<>> /\ todo' = <<<<Head(matches), 0>>>> /\ matches' = Tail(matches)
        /\ UNCHANGED <<host, pending, until, seen, examined, observations, noted, full, completed, main>>
    BY <1>2 DEF Walk, result
  <2>2. Nodes' = Nodes
    BY <2>1 DEF Nodes
  <2>3. Head(matches) \in Nodes /\ Tail(matches) \in Seq(Nodes) /\ 0 \in 0..MaxDepth
    BY <2>1, TailOf, WalkBoundsAssumption DEF Ahead
  <2>4. <<<<Head(matches), 0>>>> \in Seq(Nodes \X (0..MaxDepth))
    BY <2>3
  <2>5. Ahead'
    BY <2>1, <2>2, <2>3, <2>4 DEF Ahead
  <2>6. Recorded' /\ FromFiles' /\ ReportedOnce'
    BY <2>1, NothingRecorded DEF Recorded
  <2>7. QED BY <2>5, <2>6
<1>3. CASE Stop
  <2>1. /\ todo' = <<>> /\ completed' = FALSE
        /\ UNCHANGED <<host, pending, matches, until, seen, examined, observations, noted, full, main>>
    BY <1>3 DEF Stop, ahead, result
  <2>2. Nodes' = Nodes
    BY <2>1 DEF Nodes
  <2>3. Ahead'
    BY <2>1, <2>2 DEF Ahead
  <2>4. Recorded' /\ FromFiles' /\ ReportedOnce'
    BY <2>1, NothingRecorded DEF Recorded
  <2>5. QED BY <2>3, <2>4
<1>4. CASE Leave
  <2>1. /\ main' = "returned" /\ completed' = FALSE
        /\ UNCHANGED <<host, pending, matches, todo, until, seen, examined, observations, noted, full>>
    BY <1>4 DEF Leave, ahead, result
  <2>2. Nodes' = Nodes
    BY <2>1 DEF Nodes
  <2>3. Ahead'
    BY <2>1, <2>2 DEF Ahead
  <2>4. Recorded' /\ FromFiles' /\ ReportedOnce'
    BY <2>1, NothingRecorded DEF Recorded
  <2>5. QED BY <2>3, <2>4
<1>5. CASE main = "collecting" /\ Return
  <2>1. /\ main' = "returned"
        /\ UNCHANGED <<host, pending, matches, todo, until, seen, examined, observations, noted, full, completed>>
    BY <1>5 DEF Return, ahead, result
  <2>2. Nodes' = Nodes
    BY <2>1 DEF Nodes
  <2>3. Ahead'
    BY <2>1, <2>2 DEF Ahead
  <2>4. Recorded' /\ FromFiles' /\ ReportedOnce'
    BY <2>1, NothingRecorded DEF Recorded
  <2>5. QED BY <2>3, <2>4
<1>6. QED BY <1>1, <1>2, <1>3, <1>4, <1>5

\* The node the walk has come to is left behind.
LEMMA TodoShrinks ==
  ASSUME Ahead, NEW n, NEW d, At(n, d)
  PROVE  Tail(todo) \in Seq(Nodes \X (0..MaxDepth)) /\ n \in Nodes /\ d \in 0..MaxDepth
<1>1. todo \in Seq(Nodes \X (0..MaxDepth)) /\ todo # <<>> /\ Head(todo) = <<n, d>>
  BY DEF At, Ahead
<1>2. Tail(todo) \in Seq(Nodes \X (0..MaxDepth)) /\ <<n, d>> \in Nodes \X (0..MaxDepth)
  BY <1>1, TailOf
<1>3. QED BY <1>2

LEMMA VisitStep ==
  ASSUME Inv, NEW n, NEW d, Visit(n, d)
  PROVE  Inv'
<1> USE DEF Inv
<1> DEFINE T == Nodes \X (0..MaxDepth)
<1>0. Ahead /\ At(n, d)
  BY DEF Visit, Enter, Denied, PassOver, TooMany, Unfit, Open
<1>1. Tail(todo) \in Seq(T) /\ n \in Nodes /\ d \in 0..MaxDepth /\ <<>> \in Seq(T)
  <2>1. Tail(todo) \in Seq(T) /\ n \in Nodes /\ d \in 0..MaxDepth
    BY <1>0, TodoShrinks
  <2> HIDE DEF T
  <2>2. <<>> \in Seq(T)
    OBVIOUS
  <2>3. QED BY <2>1, <2>2
<1>2. CASE Enter(n, d)
  <2> DEFINE under == [i \in DOMAIN Node(n).holds |-> <<Node(n).holds[i], d + 1>>]
  <2>1. /\ todo' = (IF d >= MaxDepth THEN <<>> ELSE under) \o Tail(todo) /\ Ask
        /\ Node(n).kind = "dir"
        /\ UNCHANGED <<host, pending, matches, seen, examined, observations, noted, full, completed, main>>
    BY <1>2 DEF Enter, ahead, result
  <2>2. Nodes' = Nodes
    BY <2>1 DEF Nodes
  <2>3. d < MaxDepth => under \in Seq(T)
    <3>1. SUFFICES ASSUME d < MaxDepth PROVE under \in Seq(T)
      OBVIOUS
    <3>2. Node(n).holds \in Seq(Nodes) /\ d + 1 \in 0..MaxDepth
      BY <1>1, <2>1, <3>1, HostFacts, WalkBoundsAssumption DEF Ahead
    <3> DEFINE q == Node(n).holds
    <3>3. q \in Seq(Nodes) /\ Len(q) \in Nat /\ DOMAIN q = 1..Len(q)
      BY <3>2
    <3> HIDE DEF q
    <3>4. [i \in 1..Len(q) |-> <<q[i], d + 1>>] \in [1..Len(q) -> T]
      BY <3>2, <3>3
    <3>5. [i \in 1..Len(q) |-> <<q[i], d + 1>>] \in Seq(T)
      BY <3>3, <3>4
    <3>6. QED BY <3>3, <3>5 DEF q
  <2> HIDE DEF under, T
  <2>4. d >= MaxDepth \/ d < MaxDepth
    BY <1>1, WalkBoundsAssumption
  <2>5. (IF d >= MaxDepth THEN <<>> ELSE under) \in Seq(T)
    BY <1>1, <2>3, <2>4
  <2>6. todo' \in Seq(T)
    BY <1>1, <2>1, <2>5
  <2>7. Ahead'
    BY <2>1, <2>2, <2>6, UntilAsked DEF Ahead, T
  <2>8. Recorded' /\ FromFiles' /\ ReportedOnce'
    BY <2>1, NothingRecorded DEF Recorded
  <2>9. QED BY <2>7, <2>8
<1>3. CASE Denied(n, d)
  <2>1. /\ todo' = Tail(todo) /\ Ask /\ completed' = FALSE
        /\ UNCHANGED <<host, pending, matches, seen, examined, observations, noted, full, main>>
    BY <1>3 DEF Denied, ahead, result
  <2>2. Nodes' = Nodes
    BY <2>1 DEF Nodes
  <2>3. Ahead'
    BY <1>1, <2>1, <2>2, UntilAsked DEF Ahead
  <2>4. Recorded' /\ FromFiles' /\ ReportedOnce'
    BY <2>1, NothingRecorded DEF Recorded
  <2>5. QED BY <2>3, <2>4
<1>4. CASE PassOver(n, d)
  <2>1. /\ todo' = Tail(todo) /\ Ask
        /\ UNCHANGED <<host, pending, matches, seen, examined, observations, noted, full, completed, main>>
    BY <1>4 DEF PassOver, ahead, result
  <2>2. Nodes' = Nodes
    BY <2>1 DEF Nodes
  <2>3. Ahead'
    BY <1>1, <2>1, <2>2, UntilAsked DEF Ahead
  <2>4. Recorded' /\ FromFiles' /\ ReportedOnce'
    BY <2>1, NothingRecorded DEF Recorded
  <2>5. QED BY <2>3, <2>4
<1>5. CASE TooMany(n, d)
  <2>1. /\ todo' = <<>> /\ Ask /\ completed' = FALSE
        /\ UNCHANGED <<host, pending, matches, seen, examined, observations, noted, full, main>>
    BY <1>5 DEF TooMany, ahead, result
  <2>2. Nodes' = Nodes
    BY <2>1 DEF Nodes
  <2>3. Ahead'
    BY <1>1, <2>1, <2>2, UntilAsked DEF Ahead
  <2>4. Recorded' /\ FromFiles' /\ ReportedOnce'
    BY <2>1, NothingRecorded DEF Recorded
  <2>5. QED BY <2>3, <2>4
<1>6. CASE Unfit(n, d)
  <2>1. /\ todo' = Tail(todo) /\ Ask /\ seen < MaxFiles /\ seen' = seen + 1
        /\ UNCHANGED <<host, pending, matches, examined, observations, noted, full, completed, main>>
    BY <1>6 DEF Unfit, ahead, result
  <2>2. Nodes' = Nodes /\ seen' \in 0..MaxFiles
    BY <2>1, WalkBoundsAssumption DEF Nodes, Ahead
  <2>3. Ahead'
    BY <1>1, <2>1, <2>2, UntilAsked DEF Ahead
  <2>4. Recorded' /\ FromFiles' /\ ReportedOnce'
    BY <2>1, NothingRecorded DEF Recorded
  <2>5. QED BY <2>3, <2>4
<1>7. CASE Open(n, d)
  <2>1. /\ seen < MaxFiles /\ seen' = seen + 1 /\ Examine(n) /\ Candidate(n)
        /\ UNCHANGED <<host, pending, matches, main>>
    BY <1>7 DEF Open, ahead
  <2>2. Nodes' = Nodes /\ seen' \in 0..MaxFiles
    BY <2>1, WalkBoundsAssumption DEF Nodes, Ahead
  <2>3. examined' = examined \cup {n} /\ examined' \subseteq {m \in Nodes : Candidate(m)}
    BY <1>1, <2>1 DEF Examine, Recorded
  <2>4. CASE n \in examined
    <3>1. todo' = (IF full THEN <<>> ELSE Tail(todo)) /\ Ask
      BY <2>1, <2>4 DEF Examine
    <3>2. UNCHANGED <<observations, noted, full, completed>>
      BY <2>1, <2>4 DEF Examine, result
    <3>3. Ahead'
      BY <1>1, <2>1, <2>2, <3>1, UntilAsked DEF Ahead
    <3>4. Recorded' /\ FromFiles' /\ ReportedOnce'
      BY <2>1, <2>3, <3>2, NothingRecorded DEF Recorded
    <3>5. QED BY <3>3, <3>4
  <2>5. CASE n \notin examined /\ ~Node(n).readable
    <3>1. todo' = Tail(todo) /\ completed' = FALSE /\ Ask /\ UNCHANGED <<observations, noted, full>>
      BY <2>1, <2>5 DEF Examine, result
    <3>2. Ahead'
      BY <1>1, <2>1, <2>2, <3>1, UntilAsked DEF Ahead
    <3>3. Recorded' /\ FromFiles' /\ ReportedOnce'
      BY <2>1, <2>3, <3>1, NothingRecorded DEF Recorded
    <3>4. QED BY <3>2, <3>3
  <2>6. CASE n \notin examined /\ Node(n).readable
    <3>1. Read(n)
      BY <2>1, <2>6 DEF Examine
    <3>2. Recorded' /\ FromFiles' /\ ReportedOnce' /\ until' \in Nat \cup {Never}
      BY <1>1, <2>1, <2>3, <2>6, <3>1, FileRead
    <3>3. todo' = IF full' THEN <<>> ELSE Tail(todo)
      BY <3>1 DEF Read, Record
    <3>4. Ahead'
      BY <1>1, <2>1, <2>2, <3>2, <3>3 DEF Ahead
    <3>5. QED BY <3>2, <3>4
  <2>7. QED BY <2>4, <2>5, <2>6
<1>8. QED BY <1>2, <1>3, <1>4, <1>5, <1>6, <1>7 DEF Visit

LEMMA Kept == Inv /\ [Next]_vars => Inv'
<1> SUFFICES ASSUME Inv, [Next]_vars PROVE Inv'
  OBVIOUS
<1>1. CASE UNCHANGED vars
  <2>1. UNCHANGED <<host, pending, matches, todo, until, seen, examined, observations, noted, full, completed, main>>
    BY <1>1 DEF vars, ahead, result
  <2>2. Nodes' = Nodes
    BY <2>1 DEF Nodes
  <2>3. Ahead'
    BY <2>1, <2>2 DEF Ahead, Inv
  <2>4. Recorded' /\ FromFiles' /\ ReportedOnce'
    BY <2>1, NothingRecorded DEF Recorded, Inv
  <2>5. QED BY <2>3, <2>4 DEF Inv
<1>2. CASE NextRoot \/ Walk \/ Stop \/ Leave \/ (main = "collecting" /\ Return)
  BY <1>2, WalkStep
<1>3. CASE \E n \in Nodes, d \in 0..MaxDepth : Visit(n, d)
  BY <1>3, VisitStep
<1>4. QED BY <1>1, <1>2, <1>3 DEF Next

LEMMA Always == Spec => []Inv
<1>1. QED BY Start, Kept, PTL DEF Spec
-----------------------------------------------------------------------------
(* Theorems.                                                               *)

\* Every variable keeps its shape, no more files are counted than the bound and
\* no more recorded than the run has room for (walk, observe).
THEOREM TypeCorrect == Spec => []TypeOK
<1>1. ASSUME Inv PROVE TypeOK
  <2>1. ASSUME NEW k \in DOMAIN todo PROVE todo[k][1] \in Nodes /\ todo[k][2] \in 0..MaxDepth
    <3>1. todo[k] \in Nodes \X (0..MaxDepth)
      BY <1>1, <2>1 DEF Inv, Ahead
    <3>2. QED BY <3>1
  <2>2. Len(observations) <= Room /\ {completed, full} \subseteq BOOLEAN
    BY <1>1 DEF Inv, Recorded
  <2>3. examined \cup noted \subseteq {n \in Nodes : Candidate(n)}
    BY <1>1 DEF Inv, Recorded
  <2>4. QED BY <1>1, <2>1, <2>2, <2>3 DEF TypeOK, Inv, Ahead
<1>2. QED BY <1>1, Always, PTL

\* A file reached through two roots, or a certificate twice in a store, is
\* reported once, however the roots overlap (examined, canonical).
THEOREM Once == Spec => []ReportedOnce
<1>1. Inv => ReportedOnce
  BY DEF Inv
<1>2. QED BY <1>1, Always, PTL

\* What was recorded of a file is one of its paths.
LEMMA OfItsStore ==
  ASSUME Inv, NEW o \in ToSet(observations)
  PROVE  WellFound(EntryOf(o), Excuse(o.file), o.path)
BY DEF Inv, FromFiles, ToSet

\* Each link of a chain that is reported signed the one below, and none the
\* store indexes is better, in any order of any store (ChainFor, issuerOf).
THEOREM Best == Spec => []ChainsAreBest
<1>1. ASSUME Inv PROVE ChainsAreBest
  <2>1. ASSUME NEW o \in ToSet(observations) PROVE IsChain(Indexed(o), o.path)
    BY <1>1, <2>1, OfItsStore DEF WellFound, Indexed, StoreIn, EntryOf
  <2>2. QED BY <2>1 DEF ChainsAreBest
<1>2. QED BY <1>1, Always, PTL

\* A chain cut short, and a leaf that may be an issuer, never pass for whole:
\* the file is noted or the sweep incomplete (Shortfall, noteShortfall).
THEOREM Said == Spec => []CutShortIsSaid
<1>1. ASSUME Inv PROVE CutShortIsSaid
  <2>1. ASSUME NEW o \in ToSet(observations), o.file \notin noted, completed
        PROVE  /\ Whole(StoreOf(o), o.path)
               /\ Head(o.path) \in Deployed(o.file, Node(o.file).entries[o.alias])
    <3> DEFINE e == EntryOf(o)
    <3>1. Excuse(o.file) = {}
      BY <2>1 DEF Excuse
    <3>2. Whole(ToSet(e.certs), o.path) /\ Head(o.path) \in DeployedIn(e, FALSE)
      BY <1>1, <2>1, <3>1, OfItsStore DEF WellFound
    <3>3. Deployed(o.file, e) = DeployedIn(e, FALSE)
      BY <2>1 DEF Deployed, DeployedIn, LeavesOf
    <3>4. QED BY <3>2, <3>3 DEF StoreOf, EntryOf
  <2>2. QED BY <2>1 DEF CutShortIsSaid
<1>2. QED BY <1>1, Always, PTL

-----------------------------------------------------------------------------
(* What a walk comes to.                                                   *)

\* The nodes p[0] to p[k], each held by the one before; and what is at most r
\* levels below a node.
Child(h, m, c) == h.nodes[m].kind = "dir" /\ c \in ToSet(h.nodes[m].holds)
Path(h, n, m, k, p) ==
  /\ p \in [0..k -> DOMAIN h.nodes] /\ p[0] = n /\ p[k] = m
  /\ \A i \in 0..(k - 1) : Child(h, p[i], p[i + 1])
Within(h, n, r) == {m \in DOMAIN h.nodes : \E k \in 0..r : \E p : Path(h, n, m, k, p)}

\* Directories hold nodes.
WellHeld(h) == \A m \in DOMAIN h.nodes : \A c : Child(h, m, c) => c \in DOMAIN h.nodes

LEMMA WithinSelf ==
  ASSUME NEW h, NEW n \in DOMAIN h.nodes, NEW r \in Nat
  PROVE  n \in Within(h, n, r)
<1> DEFINE p == [i \in 0..0 |-> n]
<1>1. Path(h, n, n, 0, p)
  BY DEF Path
<1>2. 0 \in 0..r
  OBVIOUS
<1> HIDE DEF p
<1>3. QED BY <1>1, <1>2 DEF Within

LEMMA WithinMore ==
  ASSUME NEW h, NEW n, NEW r \in Nat, NEW t \in Nat, r <= t
  PROVE  Within(h, n, r) \subseteq Within(h, n, t)
<1>1. 0..r \subseteq 0..t
  OBVIOUS
<1>2. QED BY <1>1 DEF Within

\* One level more at the far end, and at the near one.
LEMMA WithinNext ==
  ASSUME NEW h, WellHeld(h), NEW n, NEW r \in Nat, NEW m \in Within(h, n, r), NEW c, Child(h, m, c)
  PROVE  c \in Within(h, n, r + 1)
<1>1. PICK k \in 0..r : \E p : Path(h, n, m, k, p)
  BY DEF Within
<1>2. PICK p : Path(h, n, m, k, p)
  BY <1>1
<1>3. k \in Nat /\ k + 1 \in 0..(r + 1) /\ c \in DOMAIN h.nodes
  BY DEF Within, WellHeld
<1> DEFINE q == [i \in 0..(k + 1) |-> IF i = k + 1 THEN c ELSE p[i]]
<1>4. /\ p \in [0..k -> DOMAIN h.nodes] /\ p[0] = n /\ p[k] = m
      /\ \A i \in 0..(k - 1) : Child(h, p[i], p[i + 1])
  BY <1>2 DEF Path
<1>5. q \in [0..(k + 1) -> DOMAIN h.nodes]
  BY <1>3, <1>4
<1>6. q[0] = n /\ q[k] = m /\ q[k + 1] = c /\ \A i \in 0..k : q[i] = p[i]
  BY <1>3, <1>4
<1> HIDE DEF q
<1>7. ASSUME NEW i \in 0..k PROVE Child(h, q[i], q[i + 1])
  <2>1. CASE i = k
    BY <1>6, <2>1
  <2>2. CASE i # k
    <3>1. i \in 0..(k - 1) /\ i + 1 \in 0..k
      BY <1>3, <2>2
    <3>2. q[i] = p[i] /\ q[i + 1] = p[i + 1]
      BY <1>6, <3>1
    <3>3. QED BY <1>4, <3>1, <3>2
  <2>3. QED BY <2>1, <2>2
<1>8. (k + 1) - 1 = k
  BY <1>3
<1>9. Path(h, n, c, k + 1, q)
  BY <1>5, <1>6, <1>7, <1>8 DEF Path
<1>10. QED BY <1>3, <1>9 DEF Within

LEMMA WithinLast ==
  ASSUME NEW h, NEW n, NEW r \in Nat, NEW c \in Within(h, n, r + 1), c \notin Within(h, n, r)
  PROVE  \E m \in Within(h, n, r) : Child(h, m, c)
<1>1. PICK k \in 0..(r + 1) : \E p : Path(h, n, c, k, p)
  BY DEF Within
<1>2. PICK p : Path(h, n, c, k, p)
  BY <1>1
<1>3. c \in DOMAIN h.nodes
  BY DEF Within
<1>4. k = r + 1
  <2>1. k \notin 0..r
    BY <1>2, <1>3 DEF Within
  <2>2. QED BY <2>1
<1> DEFINE q == [i \in 0..r |-> p[i]]
           m == p[r]
<1>5. /\ p \in [0..(r + 1) -> DOMAIN h.nodes] /\ p[0] = n /\ p[r + 1] = c
      /\ \A i \in 0..r : Child(h, p[i], p[i + 1])
  <2>1. k - 1 = r
    BY <1>4
  <2>2. QED BY <1>2, <1>4, <2>1 DEF Path
<1>6. q \in [0..r -> DOMAIN h.nodes] /\ q[0] = n /\ q[r] = m /\ m \in DOMAIN h.nodes /\ \A i \in 0..r : q[i] = p[i]
  BY <1>5
<1>7. Child(h, m, c)
  BY <1>5
<1> HIDE DEF q, m
<1>8. \A i \in 0..(r - 1) : Child(h, q[i], q[i + 1])
  <2>1. ASSUME NEW i \in 0..(r - 1) PROVE Child(h, q[i], q[i + 1])
    <3>1. i \in 0..r /\ i + 1 \in 0..r
      OBVIOUS
    <3>2. q[i] = p[i] /\ q[i + 1] = p[i + 1]
      BY <1>6, <3>1
    <3>3. QED BY <1>5, <3>1, <3>2
  <2>2. QED BY <2>1
<1>9. Path(h, n, m, r, q)
  BY <1>6, <1>8 DEF Path
<1>10. r \in 0..r
  OBVIOUS
<1>11. QED BY <1>6, <1>7, <1>9, <1>10 DEF Within

LEMMA WithinFirst ==
  ASSUME NEW h, NEW n, NEW r \in Nat, NEW m \in Within(h, n, r), m # n
  PROVE  r # 0 /\ \E c : Child(h, n, c) /\ m \in Within(h, c, r - 1)
<1>1. PICK k \in 0..r : \E p : Path(h, n, m, k, p)
  BY DEF Within
<1>2. PICK p : Path(h, n, m, k, p)
  BY <1>1
<1>3. m \in DOMAIN h.nodes
  BY DEF Within
<1>4. /\ p \in [0..k -> DOMAIN h.nodes] /\ p[0] = n /\ p[k] = m
      /\ \A i \in 0..(k - 1) : Child(h, p[i], p[i + 1])
  BY <1>2 DEF Path
<1>5. k # 0
  BY <1>4
<1>6. k \in Nat /\ k - 1 \in 0..(r - 1) /\ r # 0 /\ 0 \in 0..(k - 1) /\ 0 + 1 = 1 /\ r - 1 \in Nat
  BY <1>5
<1> DEFINE q == [i \in 0..(k - 1) |-> p[i + 1]]
           c == p[1]
<1>7. Child(h, n, c)
  BY <1>4, <1>6
<1>8. /\ q \in [0..(k - 1) -> DOMAIN h.nodes] /\ q[0] = c /\ q[k - 1] = m
      /\ \A i \in 0..(k - 1) : q[i] = p[i + 1]
  BY <1>4, <1>6
<1> HIDE DEF q, c
<1>9. ASSUME NEW i \in 0..(k - 1 - 1) PROVE Child(h, q[i], q[i + 1])
  <2>1. i \in 0..(k - 1) /\ i + 1 \in 0..(k - 1)
    BY <1>6
  <2>2. q[i] = p[i + 1] /\ q[i + 1] = p[i + 1 + 1]
    BY <1>8, <2>1
  <2>3. QED BY <1>4, <2>1, <2>2
<1>10. Path(h, c, m, k - 1, q)
  BY <1>8, <1>9 DEF Path
<1>11. QED BY <1>3, <1>6, <1>7, <1>10 DEF Within

\* Level after level is path after path.
LEMMA LevelFacts ==
  ASSUME NEW h, WellHeld(h), NEW n \in DOMAIN h.nodes
  PROVE  Level(h, n) = Within(h, n, MaxDepth)
<1> DEFINE Sets == [k \in 0..MaxDepth |-> {Within(h, n, k)}]
<1>1. MaxDepth \in Nat /\ Levels \in Seq(1..MaxDepth) /\ Len(Levels) = MaxDepth /\ DOMAIN Levels = 1..MaxDepth
  BY WalkBoundsAssumption DEF Levels
<1>2. {n} \in Sets[0]
  <2>1. n \in Within(h, n, 0)
    BY WithinSelf
  <2>2. Within(h, n, 0) \subseteq {n}
    <3>1. ASSUME NEW m \in Within(h, n, 0) PROVE m = n
      <4>1. PICK k \in 0..0 : \E p : Path(h, n, m, k, p)
        BY DEF Within
      <4>2. k = 0
        OBVIOUS
      <4>3. QED BY <4>1, <4>2 DEF Path
    <3>2. QED BY <3>1
  <2>3. 0 \in 0..MaxDepth
    BY <1>1
  <2>4. QED BY <2>1, <2>2, <2>3
<1>3. ASSUME NEW i \in DOMAIN Levels, NEW reach \in Sets[i - 1]
      PROVE  LevelStep(h, 0, reach, Levels[i]) \in Sets[i]
  <2> DEFINE r == i - 1
             more == LevelStep(h, 0, reach, Levels[i])
  <2>1. r \in Nat /\ i = r + 1 /\ r \in 0..MaxDepth /\ i \in 0..MaxDepth
    BY <1>1
  <2>2. reach = Within(h, n, r)
    BY <2>1
  <2>3. \A c : c \in more <=> c \in reach \/ \E m \in reach : Child(h, m, c)
    BY DEF LevelStep, Child
  <2> HIDE DEF r, more
  <2>4. ASSUME NEW c \in more PROVE c \in Within(h, n, r + 1)
    <3>1. CASE c \in reach
      <4>1. Within(h, n, r) \subseteq Within(h, n, r + 1)
        BY <2>1, WithinMore
      <4>2. QED BY <2>2, <3>1, <4>1
    <3>2. CASE c \notin reach
      <4>1. PICK m \in reach : Child(h, m, c)
        BY <2>3, <2>4, <3>2
      <4>2. QED BY <2>1, <2>2, <4>1, WithinNext
    <3>3. QED BY <3>1, <3>2
  <2>5. ASSUME NEW c \in Within(h, n, r + 1) PROVE c \in more
    BY <2>1, <2>2, <2>3, <2>5, WithinLast
  <2>6. more = Within(h, n, i)
    BY <2>1, <2>4, <2>5
  <2>7. QED BY <2>1, <2>6 DEF more
<1>4. Level(h, n) \in Sets[Len(Levels)]
  <2> HIDE DEF Sets
  <2> DEFINE base == {n}
  <2>1. base \in Sets[0]
    BY <1>2
  <2> HIDE DEF base
  <2>2. LevelFold!Over(h, 0, base, Levels) \in Sets[Len(Levels)]
    BY <1>1, <1>3, <2>1, LevelFold!FoldInduction, SMT
  <2>3. QED BY <2>2, LevelIs DEF base
<1>5. QED BY <1>1, <1>4

-----------------------------------------------------------------------------
(* What the walk has yet to come to, and what it has been through.         *)

\* Where the walks to come begin, and how deep: the one at hand, then the rest of
\* the roots.
RootsAhead == {<<n, 0>> : n \in ToSet(matches) \cup UNION {ToSet(pending[k]) : k \in DOMAIN pending}}
Starts == ToSet(todo) \cup RootsAhead
ToOpen == {n \in Files(host) : Node(n).fit}
Yet(f, s) == f \in Within(host, s[1], MaxDepth - s[2])

\* All that is to come lies under a root, and so does what was opened.
Reachable ==
  /\ \A s \in Starts : \E from \in Matched(host) : s[1] \in Within(host, from, s[2])
  /\ examined \subseteq ToOpen

\* While nothing went wrong: a file that was not opened is still to come, and of
\* one that was, everything is reported.
Remaining == completed => \A f \in ToOpen \ examined : \E s \in Starts : Yet(f, s)
AllReported ==
  completed => \A f \in examined : \A i \in DOMAIN Node(f).entries :
                 Deployed(f, Node(f).entries[i]) \subseteq HeadsOf(observations, f, i)

\* The end comes when nothing is left to do, or something went wrong.
Ended ==
  /\ full => ~completed
  /\ main = "returned" => todo = <<>> /\ matches = <<>> /\ (pending = <<>> \/ ~completed)

Swept == Reachable /\ Remaining /\ AllReported /\ Ended

LEMMA ToSetParts ==
  ASSUME NEW T, NEW q \in Seq(T), q # <<>>
  PROVE  ToSet(q) = {Head(q)} \cup ToSet(Tail(q))
<1>1. Len(q) \in Nat \ {0} /\ DOMAIN q = 1..Len(q) /\ Head(q) = q[1] /\ Tail(q) \in Seq(T)
  OBVIOUS
<1>2. DOMAIN Tail(q) = 1..(Len(q) - 1) /\ \A i \in 1..(Len(q) - 1) : Tail(q)[i] = q[i + 1]
  OBVIOUS
<1>3. ASSUME NEW x \in ToSet(q) PROVE x \in {Head(q)} \cup ToSet(Tail(q))
  <2>1. PICK i \in 1..Len(q) : q[i] = x
    BY <1>1 DEF ToSet
  <2>2. i = 1 \/ (i - 1 \in 1..(Len(q) - 1) /\ (i - 1) + 1 = i)
    BY <1>1
  <2>3. QED BY <1>1, <1>2, <2>1, <2>2 DEF ToSet
<1>4. ASSUME NEW x \in {Head(q)} \cup ToSet(Tail(q)) PROVE x \in ToSet(q)
  <2>1. CASE x = Head(q)
    <3>1. 1 \in DOMAIN q /\ q[1] = x
      BY <1>1, <2>1
    <3>2. QED BY <3>1 DEF ToSet
  <2>2. CASE x \in ToSet(Tail(q))
    <3>1. PICK i \in 1..(Len(q) - 1) : Tail(q)[i] = x
      BY <1>2, <2>2 DEF ToSet
    <3>2. i + 1 \in DOMAIN q /\ q[i + 1] = x
      BY <1>1, <1>2, <3>1
    <3>3. QED BY <3>2 DEF ToSet
  <2>3. QED BY <1>4, <2>1, <2>2
<1>5. QED BY <1>3, <1>4

LEMMA ToSetConcat ==
  ASSUME NEW T, NEW a \in Seq(T), NEW b \in Seq(T)
  PROVE  ToSet(a \o b) = ToSet(a) \cup ToSet(b)
<1>1. /\ Len(a) \in Nat /\ Len(b) \in Nat /\ DOMAIN a = 1..Len(a) /\ DOMAIN b = 1..Len(b)
      /\ DOMAIN (a \o b) = 1..(Len(a) + Len(b))
      /\ \A i \in 1..Len(a) : (a \o b)[i] = a[i]
      /\ \A i \in 1..Len(b) : (a \o b)[Len(a) + i] = b[i]
  OBVIOUS
<1> DEFINE c == a \o b
           m == Len(a)
           n == Len(b)
<1>2. /\ m \in Nat /\ n \in Nat /\ DOMAIN a = 1..m /\ DOMAIN b = 1..n /\ DOMAIN c = 1..(m + n)
      /\ \A i \in 1..m : c[i] = a[i]
      /\ \A i \in 1..n : c[m + i] = b[i]
  BY <1>1
<1> HIDE DEF c, m, n
<1>3. ASSUME NEW x \in ToSet(c) PROVE x \in ToSet(a) \cup ToSet(b)
  <2>1. PICK i \in 1..(m + n) : c[i] = x
    BY <1>2, <1>3 DEF ToSet
  <2>2. i \in 1..m \/ (i - m \in 1..n /\ m + (i - m) = i)
    BY <1>2
  <2>3. QED BY <1>2, <2>1, <2>2 DEF ToSet
<1>4. ASSUME NEW x \in ToSet(a) \cup ToSet(b) PROVE x \in ToSet(c)
  <2>1. CASE x \in ToSet(a)
    <3>1. PICK i \in 1..m : a[i] = x
      BY <1>2, <2>1 DEF ToSet
    <3>2. i \in DOMAIN c /\ c[i] = x
      BY <1>2, <3>1
    <3>3. QED BY <3>2 DEF ToSet
  <2>2. CASE x \in ToSet(b)
    <3>1. PICK i \in 1..n : b[i] = x
      BY <1>2, <2>2 DEF ToSet
    <3>2. m + i \in DOMAIN c /\ c[m + i] = x
      BY <1>2, <3>1
    <3>3. QED BY <3>2 DEF ToSet
  <2>3. QED BY <1>4, <2>1, <2>2
<1>5. QED BY <1>3, <1>4 DEF c

\* What the assumption says of the tree at hand.
LEMMA TreeFacts ==
  ASSUME host \in Hosts
  PROVE  /\ WellHeld(host) /\ Matched(host) \subseteq Nodes
         /\ \A n \in Matched(host) : Level(host, n) = Within(host, n, MaxDepth)
<1>1. host.roots \in Seq(Seq(Nodes)) /\ \A n \in Nodes : Node(n).kind = "dir" => Node(n).holds \in Seq(Nodes)
  BY HostFacts
<1>2. WellHeld(host)
  <2>1. SUFFICES ASSUME NEW m \in Nodes, NEW c, Node(m).kind = "dir", c \in ToSet(Node(m).holds)
                 PROVE  c \in Nodes
    BY DEF WellHeld, Child, Nodes, Node
  <2>2. Node(m).holds \in Seq(Nodes)
    BY <1>1, <2>1
  <2>3. QED BY <2>1, <2>2 DEF ToSet
<1>3. Matched(host) \subseteq Nodes
  <2>1. \A k \in DOMAIN host.roots : host.roots[k] \in Seq(Nodes)
    BY <1>1
  <2>2. \A k \in DOMAIN host.roots : ToSet(host.roots[k]) \subseteq Nodes
    BY <2>1 DEF ToSet
  <2>3. QED BY <2>2 DEF Matched
<1>4. \A n \in Nodes : Level(host, n) = Within(host, n, MaxDepth)
  BY <1>2, LevelFacts DEF Nodes
<1>5. QED BY <1>2, <1>3, <1>4

LEMMA StartFacts ==
  ASSUME Ahead, NEW s \in Starts
  PROVE  s[1] \in Nodes /\ s[2] \in 0..MaxDepth
<1>1. CASE s \in ToSet(todo)
  <2>1. s \in Nodes \X (0..MaxDepth)
    BY <1>1 DEF Ahead, ToSet
  <2>2. QED BY <2>1
<1>2. CASE s \in RootsAhead
  <2>1. PICK n \in ToSet(matches) \cup UNION {ToSet(pending[k]) : k \in DOMAIN pending} : s = <<n, 0>>
    BY <1>2 DEF RootsAhead
  <2>2. matches \in Seq(Nodes) /\ \A k \in DOMAIN pending : pending[k] \in Seq(Nodes)
    BY DEF Ahead
  <2>3. ToSet(matches) \subseteq Nodes /\ \A k \in DOMAIN pending : ToSet(pending[k]) \subseteq Nodes
    BY <2>2 DEF ToSet
  <2>4. n \in Nodes /\ 0 \in 0..MaxDepth
    BY <2>1, <2>3, WalkBoundsAssumption
  <2>5. QED BY <2>1, <2>4
<1>3. QED BY <1>1, <1>2 DEF Starts

\* A file is to be opened when it lies under a root.
LEMMA ToOpenFacts ==
  ASSUME Ahead
  PROVE  /\ ToOpen \subseteq Nodes /\ \A f \in ToOpen : Candidate(f) /\ Node(f).fit
         /\ \A f \in Nodes : \A s \in Starts : Reachable /\ f = s[1] /\ Candidate(f) /\ Node(f).fit => f \in ToOpen
<1>1. /\ Matched(host) \subseteq Nodes
      /\ \A n \in Matched(host) : Level(host, n) = Within(host, n, MaxDepth)
  BY TreeFacts DEF Ahead
<1>2. Reached(host) \subseteq Nodes
  BY <1>1 DEF Reached, Within, Nodes
<1>3. ToOpen \subseteq Nodes /\ \A f \in ToOpen : Candidate(f) /\ Node(f).fit
  BY <1>2 DEF ToOpen, Files, Candidate, Node
<1>4. ASSUME NEW s \in Starts, Reachable PROVE s[1] \in Reached(host)
  <2>1. PICK from \in Matched(host) : s[1] \in Within(host, from, s[2])
    BY <1>4 DEF Reachable
  <2>2. s[2] \in Nat /\ s[2] <= MaxDepth /\ MaxDepth \in Nat
    BY StartFacts, WalkBoundsAssumption
  <2>3. s[1] \in Within(host, from, MaxDepth)
    BY <2>1, <2>2, WithinMore
  <2>4. QED BY <1>1, <2>3 DEF Reached
<1>5. QED BY <1>3, <1>4 DEF ToOpen, Files, Candidate, Node

LEMMA ToOpenStays ==
  ASSUME UNCHANGED host
  PROVE  /\ ToOpen' = ToOpen /\ Matched(host)' = Matched(host) /\ Nodes' = Nodes
         /\ \A n, r : Within(host, n, r)' = Within(host, n, r)
         /\ \A f, s : Yet(f, s)' = Yet(f, s)
<1>1. Files(host)' = Files(host) /\ Matched(host)' = Matched(host) /\ Nodes' = Nodes
  BY DEF Files, Matched, Nodes
<1>2. \A n, r : Within(host, n, r)' = Within(host, n, r)
  BY DEF Within, Path, Child
<1>3. QED BY <1>1, <1>2 DEF ToOpen, Node, Yet

\* What a step must show of what is to come: a start is new only one level below
\* an old one, and is left behind only with nothing under it still to open.
Opening(s) == \A f \in ToOpen : Yet(f, s) => f \in examined' \/ \E t \in Starts' : Yet(f, t)
Below(s, t) == t[2] < MaxDepth /\ Child(host, t[1], s[1]) /\ s[2] = t[2] + 1
LEMMA Forward ==
  ASSUME Ahead, Reachable, Remaining, UNCHANGED host, completed' => completed,
         examined \subseteq examined', examined' \subseteq ToOpen,
         \A s \in Starts' : s \in Starts \/ \E t \in Starts : Below(s, t),
         completed' => \A s \in Starts : s \in Starts' \/ Opening(s)
  PROVE  Reachable' /\ Remaining'
<1>1. /\ ToOpen' = ToOpen /\ Matched(host)' = Matched(host)
      /\ \A n, r : Within(host, n, r)' = Within(host, n, r)
      /\ \A f, s : Yet(f, s)' = Yet(f, s)
  BY ToOpenStays
<1>2. ASSUME NEW s \in Starts'
      PROVE  \E from \in Matched(host) : s[1] \in Within(host, from, s[2])
  <2>1. CASE s \in Starts
    BY <2>1 DEF Reachable
  <2>2. CASE \E t \in Starts : Below(s, t)
    <3>1. PICK t \in Starts : Below(s, t)
      BY <2>2
    <3>2. PICK from \in Matched(host) : t[1] \in Within(host, from, t[2])
      BY DEF Reachable
    <3>3. t[2] \in Nat /\ WellHeld(host) /\ Child(host, t[1], s[1]) /\ s[2] = t[2] + 1
      BY <3>1, StartFacts, TreeFacts DEF Ahead, Below
    <3>4. s[1] \in Within(host, from, t[2] + 1)
      BY <3>2, <3>3, WithinNext
    <3>5. QED BY <3>3, <3>4
  <2>3. QED BY <2>1, <2>2
<1>3. Reachable'
  BY <1>1, <1>2 DEF Reachable
<1>4. ASSUME completed', NEW f \in ToOpen \ examined'
      PROVE  \E s \in Starts' : Yet(f, s)
  <2>1. PICK s \in Starts : Yet(f, s)
    BY <1>4 DEF Remaining
  <2>2. CASE s \in Starts'
    BY <2>1, <2>2
  <2>3. CASE Opening(s)
    BY <1>4, <2>1, <2>3 DEF Opening
  <2>4. QED BY <1>4, <2>2, <2>3
<1>5. Remaining'
  BY <1>1, <1>4 DEF Remaining
<1>6. QED BY <1>3, <1>5

\* Of a file, and of what is no directory, a walk comes to nothing else.
LEMMA NothingBelow ==
  ASSUME Ahead, NEW s \in Starts, NEW f, Yet(f, s), f # s[1]
  PROVE  Node(s[1]).kind = "dir" /\ s[2] < MaxDepth /\ \E c : Child(host, s[1], c) /\ f \in Within(host, c, MaxDepth - s[2] - 1)
<1>1. s[2] \in 0..MaxDepth /\ MaxDepth \in Nat
  BY StartFacts, WalkBoundsAssumption
<1>2. MaxDepth - s[2] \in Nat
  BY <1>1
<1> DEFINE r == MaxDepth - s[2]
<1>3. f \in Within(host, s[1], r)
  BY DEF Yet
<1> HIDE DEF r
<1>4. r # 0 /\ \E c : Child(host, s[1], c) /\ f \in Within(host, c, r - 1)
  BY <1>2, <1>3, WithinFirst DEF r
<1>5. s[2] < MaxDepth
  BY <1>1, <1>4 DEF r
<1>6. QED BY <1>4, <1>5 DEF r, Child, Node

\* The node the walk has come to is the first of the starts, and the others stay.
LEMMA Onto ==
  ASSUME Ahead, NEW n, NEW d, At(n, d), UNCHANGED <<host, pending, matches>>,
         NEW more \in Seq(Nodes \X (0..MaxDepth)), todo' = more \o Tail(todo)
  PROVE  /\ <<n, d>> \in Starts
         /\ Starts \subseteq {<<n, d>>} \cup Starts' /\ ToSet(more) \subseteq Starts'
         /\ Starts' \subseteq ToSet(more) \cup Starts
<1> DEFINE T == Nodes \X (0..MaxDepth)
<1>1. todo \in Seq(T) /\ todo # <<>> /\ Head(todo) = <<n, d>>
  BY DEF At, Ahead
<1>2. Tail(todo) \in Seq(T)
  BY <1>1, TailOf
<1> HIDE DEF T
<1>3. ToSet(todo) = {<<n, d>>} \cup ToSet(Tail(todo))
  BY <1>1, ToSetParts
<1>4. ToSet(more \o Tail(todo)) = ToSet(more) \cup ToSet(Tail(todo))
  BY <1>2, ToSetConcat, ZenonT(40) DEF T
<1>5. ToSet(todo)' = ToSet(more) \cup ToSet(Tail(todo))
  BY <1>4 DEF ToSet
<1>6. RootsAhead' = RootsAhead
  BY DEF RootsAhead, ToSet
<1>7. QED BY <1>3, <1>5, <1>6 DEF Starts

\* A file that is read while nothing goes wrong has all of its leaves reported.
LEMMA DeployedLess ==
  ASSUME noted \subseteq noted', NEW f, NEW e
  PROVE  Deployed(f, e)' \subseteq Deployed(f, e)
<1>1. Deployed(f, e) = DeployedIn(e, f \in noted) /\ Deployed(f, e)' = DeployedIn(e, f \in noted')
  BY DEF Deployed, DeployedIn, LeavesOf
<1>2. CASE f \in noted
  BY <1>1, <1>2 DEF DeployedIn
<1>3. CASE f \notin noted /\ f \in noted'
  <2>1. Deployed(f, e)' = LeavesOf(e)
    BY <1>1, <1>3 DEF DeployedIn
  <2>2. LeavesOf(e) \subseteq Deployed(f, e)
    BY <1>1, <1>3 DEF DeployedIn
  <2>3. QED BY <2>1, <2>2
<1>4. CASE f \notin noted /\ f \notin noted'
  BY <1>1, <1>4
<1>5. QED BY <1>2, <1>3, <1>4

LEMMA NothingRead ==
  ASSUME AllReported, UNCHANGED <<host, observations, noted>>, completed' => completed,
         completed' => examined' = examined
  PROVE  AllReported'
<1>1. \A f, e : Deployed(f, e)' = Deployed(f, e)
  BY DEF Deployed
<1>2. \A f : Node(f)' = Node(f)
  BY DEF Node
<1>3. QED BY <1>1, <1>2 DEF AllReported, HeadsOf

LEMMA ReadReports ==
  ASSUME Ahead, Recorded, AllReported, UNCHANGED host,
         NEW n \in Nodes, Candidate(n), examined' = examined \cup {n}, Read(n)
  PROVE  AllReported' /\ (completed' => completed) /\ noted \subseteq noted' /\ (full' => full \/ ~completed')
<1> DEFINE C == CertificatesOf(host)
           whole == Node(n).entries
           E == JavaKeystore(whole)
           r == ReadFile(n, E)
           cut == Len(E) < Len(whole)
<1>1. Record(n, cut, r)
  BY DEF Read
<1>2. DOMAIN E = 1..Len(E) /\ (cut \/ E = whole) /\ r \in Reading(Nodes, C, n, E, observations, Len(E))
  BY ReadingFacts
<1>3. observations \in Seq(Observation(Nodes, C))
  BY DEF Recorded
<1> HIDE DEF C, whole, E, cut, r
<1>4. /\ Continues(observations, r.out) /\ r.short \subseteq Shortfalls
      /\ r.refused \/ r.stopped \/ \A a \in 1..Len(E) : AllFound(E[a], r.short, HeadsOf(r.out, n, a))
  BY <1>2 DEF Reading, Accumulator
<1>5. /\ observations' = r.out
      /\ completed' = (completed /\ ~cut /\ ~r.refused /\ ~r.stopped /\ r.short \cap {"truncated", "interrupted"} = {})
      /\ noted' = noted \cup IF cut \/ r.short \ {"interrupted"} # {} THEN {n} ELSE {}
      /\ full' = (full \/ r.refused)
  BY <1>1 DEF Record
<1>6. noted \subseteq noted' /\ (completed' => completed) /\ (full' => full \/ ~completed')
  BY <1>5
<1>7. ASSUME completed', NEW i \in DOMAIN whole
       PROVE  Deployed(n, whole[i])' \subseteq HeadsOf(r.out, n, i)
  <2>1. ~cut /\ ~r.refused /\ ~r.stopped /\ r.short \cap {"truncated", "interrupted"} = {}
    BY <1>5, <1>7
  <2>2. E = whole /\ i \in 1..Len(E)
    BY <1>2, <1>7, <2>1
  <2>3. AllFound(whole[i], r.short, HeadsOf(r.out, n, i))
    BY <1>4, <2>1, <2>2
  <2>4. DeployedIn(whole[i], r.short # {}) \subseteq HeadsOf(r.out, n, i)
    BY <2>1, <2>3 DEF AllFound
  <2>5. r.short # {} => n \in noted'
    BY <1>5, <2>1
  <2>6. Deployed(n, whole[i])' = DeployedIn(whole[i], n \in noted')
    <3>1. whole' = whole
      BY DEF whole, Node
    <3>2. QED BY <3>1 DEF Deployed, DeployedIn, LeavesOf
  <2>7. DeployedIn(whole[i], n \in noted') \subseteq DeployedIn(whole[i], r.short # {})
    <3>1. CASE r.short # {}
      BY <2>5, <3>1 DEF DeployedIn
    <3>2. CASE r.short = {} /\ n \in noted'
      BY <3>2 DEF DeployedIn
    <3>3. CASE r.short = {} /\ n \notin noted'
      BY <3>3 DEF DeployedIn
    <3>4. QED BY <3>1, <3>2, <3>3
  <2>8. QED BY <2>4, <2>6, <2>7
<1>8. ASSUME completed', NEW f \in examined', NEW i \in DOMAIN Node(f).entries
       PROVE  Deployed(f, Node(f).entries[i])' \subseteq HeadsOf(observations', f, i)
  <2>1. CASE f = n
    BY <1>5, <1>7, <1>8, <2>1 DEF whole
  <2>2. CASE f \in examined
    <3>1. Deployed(f, Node(f).entries[i]) \subseteq HeadsOf(observations, f, i)
      BY <1>6, <1>8, <2>2 DEF AllReported
    <3>2. HeadsOf(observations, f, i) \subseteq HeadsOf(r.out, f, i)
      <4>1. DOMAIN observations \subseteq DOMAIN r.out /\ \A k \in DOMAIN observations : r.out[k] = observations[k]
        <5>1. observations \in Seq(Observation(Nodes, C)) /\ r.out \in Seq(Observation(Nodes, C))
          BY <1>2, <1>3 DEF Reading, Accumulator
        <5>2. Len(observations) <= Len(r.out) /\ \A k \in DOMAIN observations : r.out[k] = observations[k]
          BY <1>4 DEF Continues
        <5>3. DOMAIN observations = 1..Len(observations) /\ DOMAIN r.out = 1..Len(r.out)
              /\ Len(observations) \in Nat /\ Len(r.out) \in Nat
          BY <5>1
        <5>4. QED BY <5>2, <5>3
      <4>2. QED BY <4>1 DEF HeadsOf
    <3>3. Deployed(f, Node(f).entries[i])' \subseteq Deployed(f, Node(f).entries[i])
      <4>1. Node(f)' = Node(f)
        BY DEF Node
      <4>2. QED BY <1>6, <4>1, DeployedLess
    <3>4. QED BY <1>5, <3>1, <3>2, <3>3
  <2>3. QED BY <1>8, <2>1, <2>2
<1>9. \A f : Node(f)' = Node(f)
  BY DEF Node
<1>10. AllReported'
  BY <1>8, <1>9 DEF AllReported
<1>11. QED BY <1>6, <1>10

\* Coming to a node: what each way of leaving it behind does.
LEMMA VisitSweeps ==
  ASSUME Inv, Swept, NEW n, NEW d, Visit(n, d)
  PROVE  Swept'
<1> USE DEF Inv, Swept
<1> DEFINE s == <<n, d>>
           T == Nodes \X (0..MaxDepth)
<1>1. At(n, d) /\ UNCHANGED <<host, pending, matches, main>>
  BY DEF Visit, Enter, Denied, PassOver, TooMany, Unfit, Open, ahead, result
<1>2. n \in Nodes /\ d \in 0..MaxDepth /\ todo \in Seq(T) /\ todo # <<>> /\ MaxDepth \in Nat
  BY <1>1, TodoShrinks, WalkBoundsAssumption DEF At, Ahead
<1> HIDE DEF T
<1>3. <<>> \in Seq(T) /\ Tail(todo) \in Seq(T) /\ <<>> \o Tail(todo) = Tail(todo) /\ ToSet(<<>>) = {}
  BY <1>2, TailOf DEF ToSet
<1>4. main # "returned" /\ main' = main
  BY <1>1, <1>2 DEF Ended
<1>5. s[1] = n /\ s[2] = d
  OBVIOUS
<1>6. \A f \in ToOpen : Candidate(f) /\ Node(f).fit
  BY ToOpenFacts
\* The rest is left as it was: nothing is new, and what was behind stays.
<1>7. ASSUME todo' = Tail(todo)
      PROVE  s \in Starts /\ Starts \subseteq {s} \cup Starts' /\ Starts' \subseteq Starts
  BY <1>1, <1>3, <1>7, Onto DEF T
<1>8. ASSUME todo' = <<>>
      PROVE  Starts' \subseteq Starts
  <2>1. ToSet(todo)' = {}
    BY <1>3, <1>8
  <2>2. RootsAhead' = RootsAhead
    BY <1>1 DEF RootsAhead, ToSet
  <2>3. QED BY <2>1, <2>2 DEF Starts
<1> HIDE DEF s
<1>9. CASE Enter(n, d)
  <2> DEFINE holds == Node(n).holds
             under == [i \in DOMAIN holds |-> <<holds[i], d + 1>>]
             more == IF d >= MaxDepth THEN <<>> ELSE under
  <2>1. /\ todo' = more \o Tail(todo) /\ Node(n).kind = "dir"
        /\ UNCHANGED <<examined, observations, noted, full, completed>>
    BY <1>9 DEF Enter, result
  <2>2. holds \in Seq(Nodes) /\ DOMAIN holds = 1..Len(holds) /\ Len(holds) \in Nat
    BY <1>2, <2>1, HostFacts DEF Ahead
  <2> HIDE DEF holds
  <2>3. d < MaxDepth => under \in Seq(T)
    <3>1. SUFFICES ASSUME d < MaxDepth PROVE under \in Seq(T)
      OBVIOUS
    <3>2. d + 1 \in 0..MaxDepth
      BY <1>2, <3>1
    <3>3. under \in [1..Len(holds) -> T]
      BY <2>2, <3>2 DEF T
    <3>4. QED BY <2>2, <3>3
  <2>4. \A x : x \in ToSet(under) <=> \E c \in ToSet(holds) : x = <<c, d + 1>>
    BY DEF ToSet
  <2> HIDE DEF under
  <2>5. more \in Seq(T)
    BY <1>2, <1>3, <2>3
  <2>6. \A x \in ToSet(more) : d < MaxDepth /\ x \in ToSet(under)
    BY <1>2, <1>3
  <2>7. d < MaxDepth => more = under
    BY <1>2
  <2> HIDE DEF more
  <2>8. s \in Starts /\ Starts \subseteq {s} \cup Starts' /\ ToSet(more) \subseteq Starts' /\ Starts' \subseteq ToSet(more) \cup Starts
    BY <1>1, <2>1, <2>5, Onto DEF s, T
  <2>9. ASSUME NEW x \in ToSet(more) PROVE Below(x, s)
    <3>1. PICK c \in ToSet(holds) : x = <<c, d + 1>>
      BY <2>4, <2>6
    <3>2. Child(host, n, c)
      BY <2>1, <3>1 DEF Child, Node, holds
    <3>3. QED BY <1>5, <2>6, <3>1, <3>2 DEF Below
  <2>10. Opening(s)
    <3>1. SUFFICES ASSUME NEW f \in ToOpen, Yet(f, s) PROVE \E t \in Starts' : Yet(f, t)
      BY DEF Opening
    <3>2. f # n
      BY <1>6, <2>1 DEF Candidate
    <3>3. d < MaxDepth /\ \E c : Child(host, n, c) /\ f \in Within(host, c, MaxDepth - d - 1)
      BY <1>5, <2>8, <3>1, <3>2, NothingBelow
    <3>4. PICK c : Child(host, n, c) /\ f \in Within(host, c, MaxDepth - d - 1)
      BY <3>3
    <3> DEFINE t == <<c, d + 1>>
    <3>5. t \in ToSet(under)
      BY <2>4, <3>4 DEF Child, Node, holds
    <3>6. t \in Starts'
      BY <2>7, <2>8, <3>3, <3>5
    <3>7. MaxDepth - d - 1 = MaxDepth - (d + 1) /\ t[1] = c /\ t[2] = d + 1
      BY <1>2
    <3>8. Yet(f, t)
      BY <3>4, <3>7 DEF Yet
    <3>9. QED BY <3>6, <3>8
  <2>11. Reachable' /\ Remaining'
    BY <1>1, <2>1, <2>8, <2>9, <2>10, Forward DEF Reachable
  <2>12. AllReported' /\ Ended'
    BY <1>1, <1>4, <2>1, NothingRead DEF Ended
  <2>13. QED BY <2>11, <2>12
<1>10. CASE Denied(n, d)
  <2>1. todo' = Tail(todo) /\ completed' = FALSE /\ UNCHANGED <<examined, observations, noted, full>>
    BY <1>10 DEF Denied, result
  <2>2. Reachable' /\ Remaining'
    BY <1>1, <1>7, <2>1, Forward DEF Reachable
  <2>3. AllReported' /\ Ended'
    BY <1>1, <1>4, <2>1, NothingRead DEF Ended
  <2>4. QED BY <2>2, <2>3
<1>11. CASE PassOver(n, d)
  <2>1. /\ todo' = Tail(todo) /\ Node(n).kind # "dir" /\ ~Candidate(n)
        /\ UNCHANGED <<examined, observations, noted, full, completed>>
    BY <1>11 DEF PassOver, result
  <2>2. Opening(s)
    BY <1>5, <1>6, <1>7, <2>1, NothingBelow DEF Opening
  <2>3. Reachable' /\ Remaining'
    BY <1>1, <1>7, <2>1, <2>2, Forward DEF Reachable
  <2>4. AllReported' /\ Ended'
    BY <1>1, <1>4, <2>1, NothingRead DEF Ended
  <2>5. QED BY <2>3, <2>4
<1>12. CASE TooMany(n, d)
  <2>1. todo' = <<>> /\ completed' = FALSE /\ UNCHANGED <<examined, observations, noted, full>>
    BY <1>12 DEF TooMany, result
  <2>2. Reachable' /\ Remaining'
    BY <1>1, <1>8, <2>1, Forward DEF Reachable
  <2>3. AllReported' /\ Ended'
    BY <1>1, <1>4, <2>1, NothingRead DEF Ended
  <2>4. QED BY <2>2, <2>3
<1>13. CASE Unfit(n, d)
  <2>1. /\ todo' = Tail(todo) /\ Candidate(n) /\ ~Node(n).fit
        /\ UNCHANGED <<examined, observations, noted, full, completed>>
    BY <1>13 DEF Unfit, result
  <2>2. Opening(s)
    BY <1>5, <1>6, <1>7, <2>1, NothingBelow DEF Opening, Candidate
  <2>3. Reachable' /\ Remaining'
    BY <1>1, <1>7, <2>1, <2>2, Forward DEF Reachable
  <2>4. AllReported' /\ Ended'
    BY <1>1, <1>4, <2>1, NothingRead DEF Ended
  <2>5. QED BY <2>3, <2>4
<1>14. CASE Open(n, d)
  <2>1. Candidate(n) /\ Node(n).fit /\ Examine(n) /\ examined' = examined \cup {n}
    BY <1>14 DEF Open, Examine
  <2>2. s \in Starts
    BY <1>1, <1>2, <1>3, ToSetParts DEF Starts, At, s, T
  <2>3. n \in ToOpen
    BY <1>2, <1>5, <2>1, <2>2, ToOpenFacts
  <2>4. Opening(s)
    BY <1>5, <2>1, <2>2, NothingBelow DEF Opening, Candidate
  <2>5. ASSUME completed' => completed, full' => ~completed', AllReported',
               todo' = (IF full' THEN <<>> ELSE Tail(todo))
        PROVE  Swept'
    <3>1. CASE full'
      <4>1. Reachable' /\ Remaining'
        BY <1>1, <1>8, <2>1, <2>3, <2>5, <3>1, Forward DEF Reachable
      <4>2. QED BY <1>4, <2>5, <4>1 DEF Ended
    <3>2. CASE ~full'
      <4>1. Reachable' /\ Remaining'
        BY <1>1, <1>7, <2>1, <2>3, <2>4, <2>5, <3>2, Forward DEF Reachable
      <4>2. QED BY <1>4, <2>5, <4>1 DEF Ended
    <3>3. QED BY <3>1, <3>2
  <2>6. CASE n \in examined
    <3>1. todo' = (IF full THEN <<>> ELSE Tail(todo)) /\ UNCHANGED <<observations, noted, full, completed>>
      BY <2>1, <2>6 DEF Examine, result
    <3>2. AllReported'
      BY <1>1, <2>1, <2>6, <3>1, NothingRead
    <3>3. QED BY <2>5, <3>1, <3>2 DEF Ended
  <2>7. CASE n \notin examined /\ ~Node(n).readable
    <3>1. todo' = Tail(todo) /\ completed' = FALSE /\ UNCHANGED <<observations, noted, full>>
      BY <2>1, <2>7 DEF Examine, result
    <3>2. AllReported'
      BY <1>1, <3>1, NothingRead
    <3>3. Reachable' /\ Remaining'
      BY <1>1, <1>7, <2>1, <2>3, <3>1, Forward DEF Reachable
    <3>4. QED BY <1>4, <3>1, <3>2, <3>3 DEF Ended
  <2>8. CASE n \notin examined /\ Node(n).readable
    <3>1. Read(n)
      BY <2>1, <2>8 DEF Examine
    <3>2. AllReported' /\ (completed' => completed) /\ (full' => full \/ ~completed')
      BY <1>1, <1>2, <2>1, <3>1, ReadReports
    <3>3. todo' = IF full' THEN <<>> ELSE Tail(todo)
      BY <3>1 DEF Read, Record
    <3>4. QED BY <2>5, <3>2, <3>3 DEF Ended
  <2>9. QED BY <2>6, <2>7, <2>8
<1>15. QED BY <1>9, <1>10, <1>11, <1>12, <1>13, <1>14 DEF Visit

\* Coming to a root or to a match of one moves a start from one place to another.
LEMMA WalkSweeps ==
  ASSUME Inv, Swept, NextRoot \/ Walk \/ Stop \/ Leave \/ (main = "collecting" /\ Return)
  PROVE  Swept'
<1> USE DEF Inv, Swept
<1>1. CASE NextRoot
  <2>1. /\ main = "collecting" /\ todo = <<>> /\ matches = <<>> /\ pending # <<>>
        /\ matches' = Head(pending) /\ pending' = Tail(pending)
        /\ UNCHANGED <<host, todo, examined, observations, noted, full, completed, main>>
    BY <1>1 DEF NextRoot, Between, result
  <2>2. pending \in Seq(Seq(Nodes))
    BY DEF Ahead
  <2> DEFINE Under(q) == UNION {ToSet(q[k]) : k \in DOMAIN q}
  <2>3. Under(pending) = UNION {ToSet(q) : q \in ToSet(pending)} /\ Under(pending') = UNION {ToSet(q) : q \in ToSet(pending')}
    BY DEF ToSet
  <2>4. ToSet(pending) = {Head(pending)} \cup ToSet(Tail(pending))
    BY <2>1, <2>2, ToSetParts
  <2>5. Under(pending) = ToSet(Head(pending)) \cup Under(Tail(pending))
    BY <2>1, <2>3, <2>4
  <2> HIDE DEF Under
  <2>6. RootsAhead = {<<n, 0>> : n \in ToSet(matches) \cup Under(pending)}
        /\ RootsAhead' = {<<n, 0>> : n \in ToSet(matches') \cup Under(pending')}
    BY DEF RootsAhead, Under, ToSet
  <2>7. ToSet(matches) = {} /\ ToSet(todo)' = ToSet(todo)
    BY <2>1 DEF ToSet
  <2>8. RootsAhead' = RootsAhead
    BY <2>1, <2>5, <2>6, <2>7
  <2>9. Starts' = Starts
    BY <2>7, <2>8 DEF Starts
  <2>10. Reachable' /\ Remaining'
    BY <2>1, <2>9, Forward DEF Reachable
  <2>11. AllReported' /\ Ended'
    BY <2>1, NothingRead DEF Ended
  <2>12. QED BY <2>10, <2>11
<1>2. CASE Walk
  <2>1. /\ todo = <<>> /\ matches # <<>> /\ todo' = <<<<Head(matches), 0>>>> /\ matches' = Tail(matches)
        /\ UNCHANGED <<host, pending, examined, observations, noted, full, completed, main>>
    BY <1>2 DEF Walk, result
  <2>2. matches \in Seq(Nodes)
    BY DEF Ahead
  <2>3. ToSet(matches) = {Head(matches)} \cup ToSet(Tail(matches))
    BY <2>1, <2>2, ToSetParts
  <2>4. ToSet(todo) = {} /\ ToSet(todo)' = {<<Head(matches), 0>>} /\ ToSet(matches)' = ToSet(Tail(matches))
    BY <2>1 DEF ToSet
  <2>5. RootsAhead = {<<Head(matches), 0>>} \cup RootsAhead'
    BY <2>1, <2>3, <2>4 DEF RootsAhead
  <2>6. Starts' = Starts
    BY <2>4, <2>5 DEF Starts
  <2>7. Reachable' /\ Remaining'
    BY <2>1, <2>6, Forward DEF Reachable
  <2>8. main # "returned"
    BY <2>1 DEF Ended
  <2>9. AllReported' /\ Ended'
    BY <2>1, <2>8, NothingRead DEF Ended
  <2>10. QED BY <2>7, <2>9
<1>3. CASE Stop
  <2>1. /\ todo # <<>> /\ todo' = <<>> /\ completed' = FALSE
        /\ UNCHANGED <<host, pending, matches, examined, observations, noted, full, main>>
    BY <1>3 DEF Stop, ahead, result
  <2>2. Starts' \subseteq Starts
    BY <2>1 DEF Starts, RootsAhead, ToSet
  <2>3. Reachable' /\ Remaining'
    BY <2>1, <2>2, Forward DEF Reachable
  <2>4. AllReported' /\ Ended'
    BY <2>1, NothingRead DEF Ended
  <2>5. QED BY <2>3, <2>4
<1>4. CASE Leave
  <2>1. /\ main' = "returned" /\ completed' = FALSE /\ todo = <<>> /\ matches = <<>>
        /\ UNCHANGED <<host, pending, matches, todo, examined, observations, noted, full>>
    BY <1>4 DEF Leave, Between, ahead, result
  <2>2. Starts' = Starts
    BY <2>1 DEF Starts, RootsAhead, ToSet
  <2>3. Reachable' /\ Remaining'
    BY <2>1, <2>2, Forward DEF Reachable
  <2>4. AllReported' /\ Ended'
    BY <2>1, NothingRead DEF Ended
  <2>5. QED BY <2>3, <2>4
<1>5. CASE main = "collecting" /\ Return
  <2>1. /\ main' = "returned" /\ todo = <<>> /\ matches = <<>> /\ pending = <<>>
        /\ UNCHANGED <<host, pending, matches, todo, examined, observations, noted, full, completed>>
    BY <1>5 DEF Return, Between, ahead, result
  <2>2. Starts' = Starts
    BY <2>1 DEF Starts, RootsAhead, ToSet
  <2>3. Reachable' /\ Remaining'
    BY <2>1, <2>2, Forward DEF Reachable
  <2>4. AllReported' /\ Ended'
    BY <2>1, NothingRead DEF Ended
  <2>5. QED BY <2>3, <2>4
<1>6. QED BY <1>1, <1>2, <1>3, <1>4, <1>5

LEMMA SweepStarts == Init => Swept
<1> SUFFICES ASSUME Init PROVE Swept
  OBVIOUS
<1>1. /\ host \in Hosts /\ pending = host.roots /\ matches = <<>> /\ todo = <<>> /\ examined = {}
      /\ ~full /\ main = "collecting"
  BY DEF Init
<1>2. /\ Matched(host) \subseteq Nodes
      /\ \A n \in Matched(host) : Level(host, n) = Within(host, n, MaxDepth)
  BY <1>1, TreeFacts
<1>3. ToSet(todo) = {} /\ ToSet(matches) = {}
  BY <1>1 DEF ToSet
<1>4. Starts = {<<n, 0>> : n \in Matched(host)}
  BY <1>1, <1>3 DEF Starts, RootsAhead, Matched
<1>5. MaxDepth \in Nat /\ MaxDepth - 0 = MaxDepth
  BY WalkBoundsAssumption
<1>6. Reachable
  <2>1. ASSUME NEW s \in Starts PROVE \E from \in Matched(host) : s[1] \in Within(host, from, s[2])
    <3>1. PICK n \in Matched(host) : s = <<n, 0>>
      BY <1>4
    <3>2. n \in Within(host, n, 0)
      BY <1>2, WithinSelf DEF Nodes
    <3>3. QED BY <3>1, <3>2
  <2>2. QED BY <1>1, <2>1 DEF Reachable
<1>7. Remaining
  <2>1. ASSUME NEW f \in ToOpen PROVE \E s \in Starts : Yet(f, s)
    <3>1. PICK n \in Matched(host) : f \in Level(host, n)
      BY DEF ToOpen, Files, Reached
    <3>2. <<n, 0>> \in Starts /\ f \in Within(host, n, MaxDepth)
      BY <1>2, <1>4, <3>1
    <3>3. Yet(f, <<n, 0>>)
      BY <1>5, <3>2 DEF Yet
    <3>4. QED BY <3>2, <3>3
  <2>2. QED BY <2>1 DEF Remaining
<1>8. QED BY <1>1, <1>6, <1>7 DEF Swept, AllReported, Ended

LEMMA SweptKept == Inv /\ Swept /\ [Next]_vars => Swept'
<1> SUFFICES ASSUME Inv, Swept, [Next]_vars PROVE Swept'
  OBVIOUS
<1>1. CASE UNCHANGED vars
  <2>1. UNCHANGED <<host, pending, matches, todo, examined, observations, noted, full, completed, main>>
    BY <1>1 DEF vars, ahead, result
  <2>2. Starts' = Starts
    BY <2>1 DEF Starts, RootsAhead, ToSet
  <2>3. Reachable' /\ Remaining'
    BY <2>1, <2>2, Forward DEF Reachable, Inv, Swept
  <2>4. AllReported' /\ Ended'
    BY <2>1, NothingRead DEF Ended, Swept
  <2>5. QED BY <2>3, <2>4 DEF Swept
<1>2. CASE NextRoot \/ Walk \/ Stop \/ Leave \/ (main = "collecting" /\ Return)
  BY <1>2, WalkSweeps
<1>3. CASE \E n \in Nodes, d \in 0..MaxDepth : Visit(n, d)
  BY <1>3, VisitSweeps
<1>4. QED BY <1>1, <1>2, <1>3 DEF Next

-----------------------------------------------------------------------------
(* The refinement.                                                         *)

Owed == Placements(host, Deployed)
Reports == {<<o.file, o.alias, Head(o.path)>> : o \in ToSet(observations)}
Grounded == Reports \subseteq Finding

LEMMA OwedIs ==
  /\ Owed = {x \in Owed : \E f \in ToOpen : \E i \in DOMAIN Node(f).entries :
               \E c \in Deployed(f, Node(f).entries[i]) : x = <<f, i, c>>}
  /\ \A f \in ToOpen : \A i \in DOMAIN Node(f).entries :
       \A c \in Deployed(f, Node(f).entries[i]) : <<f, i, c>> \in Owed
BY DEF Owed, Placements, ToOpen, Node

LEMMA IsFinding ==
  ASSUME host \in Hosts, NEW f \in ToOpen, NEW i \in DOMAIN Node(f).entries, NEW c \in ToSet(Node(f).entries[i].certs)
  PROVE  <<f, i, c>> \in Finding
<1>1. <<f, i, c>> \in Placements(host, LAMBDA n, e : ToSet(e.certs))
  BY DEF Placements, ToOpen, Node
<1>2. QED BY <1>1 DEF Finding

LEMMA OwedIsFinding ==
  ASSUME host \in Hosts
  PROVE  Owed \subseteq Finding
<1>1. SUFFICES ASSUME NEW x \in Owed PROVE x \in Finding
  OBVIOUS
<1>2. PICK f \in ToOpen : \E i \in DOMAIN Node(f).entries : \E c \in Deployed(f, Node(f).entries[i]) : x = <<f, i, c>>
  BY OwedIs
<1>3. PICK i \in DOMAIN Node(f).entries : \E c \in Deployed(f, Node(f).entries[i]) : x = <<f, i, c>>
  BY <1>2
<1>4. PICK c \in Deployed(f, Node(f).entries[i]) : x = <<f, i, c>>
  BY <1>3
<1> DEFINE e == Node(f).entries[i]
<1>5. e \in ToSet(Node(f).entries)
  BY DEF ToSet
<1>6. Node(f).kind = "file" /\ f \in Nodes
  <2>1. Reached(host) \subseteq Nodes
    BY TreeFacts DEF Reached, Within, Nodes
  <2>2. QED BY <2>1 DEF ToOpen, Files, Node
<1>7. e.certs \in Seq(CertificatesOf(host))
  BY <1>5, <1>6, HostFacts
<1>8. c \in LeavesOf(e) \/ (ToSet(e.certs) # {} /\ c = e.certs[1])
  BY <1>4 DEF Deployed, LeavesOf
<1> HIDE DEF e
<1>9. ToSet(e.certs) # {} => e.certs[1] \in ToSet(e.certs)
  BY <1>7 DEF ToSet
<1>10. c \in ToSet(e.certs)
  BY <1>8, <1>9 DEF LeavesOf
<1>11. QED BY <1>4, <1>10, IsFinding DEF e

LEMMA ReportsAreFindings ==
  ASSUME Inv, Swept
  PROVE  Grounded
<1>1. SUFFICES ASSUME NEW o \in ToSet(observations) PROVE <<o.file, o.alias, Head(o.path)>> \in Finding
  BY DEF Reports, Grounded
<1>2. o.file \in examined /\ o.alias \in DOMAIN Node(o.file).entries
  BY DEF Inv, FromFiles, ToSet
<1>3. Head(o.path) \in ToSet(Node(o.file).entries[o.alias].certs)
  BY OfItsStore DEF WellFound, EntryOf
<1>4. o.file \in ToOpen /\ host \in Hosts
  BY <1>2 DEF Swept, Reachable, Inv, Ahead
<1>5. QED BY <1>2, <1>3, <1>4, IsFinding

\* When nothing is left to come to and nothing went wrong, all is reported.
LEMMA AllIsReported ==
  ASSUME Inv, Swept, completed, todo = <<>>, matches = <<>>, pending = <<>>
  PROVE  Owed \subseteq Reports
<1>1. SUFFICES ASSUME NEW x \in Owed PROVE x \in Reports
  OBVIOUS
<1>2. PICK f \in ToOpen : \E i \in DOMAIN Node(f).entries : \E c \in Deployed(f, Node(f).entries[i]) : x = <<f, i, c>>
  BY OwedIs
<1>3. PICK i \in DOMAIN Node(f).entries : \E c \in Deployed(f, Node(f).entries[i]) : x = <<f, i, c>>
  BY <1>2
<1>4. PICK c \in Deployed(f, Node(f).entries[i]) : x = <<f, i, c>>
  BY <1>3
<1>5. Starts = {}
  BY DEF Starts, RootsAhead, ToSet
<1>6. f \in examined
  BY <1>5 DEF Swept, Remaining
<1>7. c \in HeadsOf(observations, f, i)
  BY <1>3, <1>4, <1>6 DEF Swept, AllReported
<1>8. PICK k \in DOMAIN observations : observations[k].file = f /\ observations[k].alias = i /\ c = Head(observations[k].path)
  BY <1>7 DEF HeadsOf
<1>9. observations[k] \in ToSet(observations)
  BY DEF ToSet
<1>10. QED BY <1>4, <1>8, <1>9 DEF Reports

\* What is owed only shrinks.
LEMMA OwedLess ==
  ASSUME UNCHANGED host, noted \subseteq noted'
  PROVE  Owed' \subseteq Owed
<1>1. ToOpen' = ToOpen /\ \A f : Node(f)' = Node(f)
  BY ToOpenStays DEF Node
<1>2. ASSUME NEW x \in Owed' PROVE x \in Owed
  <2>1. PICK f \in ToOpen' : \E i \in DOMAIN Node(f)'.entries : \E c \in Deployed(f, Node(f).entries[i])' : x = <<f, i, c>>
    BY <1>2 DEF Owed, Placements, ToOpen, Node
  <2>2. PICK i \in DOMAIN Node(f).entries : \E c \in Deployed(f, Node(f).entries[i])' : x = <<f, i, c>>
    BY <1>1, <2>1
  <2>3. PICK c \in Deployed(f, Node(f).entries[i])' : x = <<f, i, c>>
    BY <2>2
  <2>4. c \in Deployed(f, Node(f).entries[i])
    BY <1>1, <2>3, DeployedLess
  <2>5. QED BY <1>1, <2>3, <2>4, OwedIs
<1>3. QED BY <1>2

\* No step takes an observation back or a note from a file.
LEMMA Onwards ==
  ASSUME Inv, [Next]_vars
  PROVE  host' = host /\ noted \subseteq noted' /\ Continues(observations, observations')
<1>1. Continues(observations, observations)
  <2>1. observations \in Seq(Observation(Nodes, CertificatesOf(host)))
    BY DEF Inv, Recorded
  <2>2. QED BY <2>1 DEF Continues
<1>2. CASE UNCHANGED vars
  BY <1>1, <1>2 DEF vars, result
<1>3. CASE NextRoot \/ Walk \/ Stop \/ Leave \/ Return
  BY <1>1, <1>3 DEF NextRoot, Walk, Stop, Leave, Return, result
<1>4. ASSUME NEW n \in Nodes, NEW d \in 0..MaxDepth, Visit(n, d)
      PROVE  host' = host /\ noted \subseteq noted' /\ Continues(observations, observations')
  <2>1. CASE ~Open(n, d)
    BY <1>1, <1>4, <2>1 DEF Visit, Enter, Denied, PassOver, TooMany, Unfit, result
  <2>2. CASE Open(n, d)
    <3>1. Examine(n) /\ Candidate(n) /\ host' = host /\ examined' = examined \cup {n}
      BY <2>2 DEF Open, Examine
    <3>2. CASE Read(n)
      <4> DEFINE r == ReadFile(n, JavaKeystore(Node(n).entries))
      <4>1. Continues(observations, r.out)
        BY <3>1, ReadingFacts DEF Reading, Inv
      <4>2. observations' = r.out
        BY <3>2 DEF Read, Record
      <4>3. noted \subseteq noted'
        BY <3>2 DEF Read, Record
      <4>4. QED BY <3>1, <4>1, <4>2, <4>3
    <3>3. CASE ~Read(n)
      BY <1>1, <3>1, <3>3 DEF Examine, result
    <3>4. QED BY <3>2, <3>3
  <2>3. QED BY <2>1, <2>2
<1>5. QED BY <1>2, <1>3, <1>4 DEF Next

LEMMA ReportsStay ==
  ASSUME Inv, Inv', Continues(observations, observations')
  PROVE  Reports \subseteq Reports'
<1>1. observations \in Seq(Observation(Nodes, CertificatesOf(host)))
      /\ observations' \in Seq(Observation(Nodes', CertificatesOf(host)'))
  BY DEF Inv, Recorded
<1>2. DOMAIN observations = 1..Len(observations) /\ DOMAIN observations' = 1..Len(observations')
      /\ Len(observations) \in Nat /\ Len(observations') \in Nat
  BY <1>1
<1>3. \A k \in DOMAIN observations : k \in DOMAIN observations' /\ observations'[k] = observations[k]
  BY <1>2 DEF Continues
<1>4. ToSet(observations) \subseteq ToSet(observations')
  BY <1>3 DEF ToSet
<1>5. ToSet(observations)' = ToSet(observations')
  BY DEF ToSet
<1>6. QED BY <1>4, <1>5 DEF Reports

\* The two collectors keep the promise of Sweep for any tree, stores and bounds:
\* complete is said only when every certificate deployed in a file the walk is to
\* open was reported, whatever cannot be read or is cut off and whenever the
\* context ends (Completed, noteShortfall).
THEOREM Refinement == Spec => ImplementsSweep
<1>1. ASSUME Init PROVE S!Init
  <2>1. host \in Hosts /\ observations = <<>> /\ main = "collecting"
    BY <1>1 DEF Init
  <2>2. Owed \subseteq Finding /\ Reports = {}
    BY <2>1, OwedIsFinding DEF Reports, ToSet
  <2>3. QED BY <2>1, <2>2 DEF S!Init, Owed, Reports
<1>2. ASSUME Inv, Swept, Grounded', [Next]_vars PROVE [S!Next]_(S!vars)
  <2>1. Inv' /\ Swept'
    BY <1>2, Kept, SweptKept
  <2>2. host' = host /\ noted \subseteq noted' /\ Continues(observations, observations')
    BY <1>2, Onwards
  <2>3. Owed' \subseteq Owed /\ Owed \subseteq Finding /\ Owed' \subseteq Finding
    BY <1>2, <2>2, OwedLess, OwedIsFinding DEF Inv, Ahead
  <2>4. Reports \subseteq Reports' /\ Reports' \subseteq Finding
    <3>1. Reports \subseteq Reports'
      BY <1>2, <2>1, <2>2, ReportsStay
    <3>2. QED BY <1>2, <3>1 DEF Grounded
  <2>5. CASE main = "collecting" /\ main' = "collecting"
    <3>1. S!Report
      BY <2>3, <2>4, <2>5 DEF S!Report, Owed, Reports
    <3>2. QED BY <3>1 DEF S!Next
  <2>6. CASE (main = "collecting" /\ Return) \/ Leave
    <3>1. /\ main = "collecting" /\ main' = "returned" /\ todo = <<>> /\ matches = <<>>
          /\ completed' => completed /\ pending = <<>>
          /\ UNCHANGED <<host, observations, noted>>
      BY <2>6 DEF Return, Leave, Between, result
    <3>2. Owed' = Owed /\ Reports' = Reports
      BY <3>1 DEF Owed, Placements, Deployed, Reports, ToSet
    <3>3. completed' => Owed \subseteq Reports
      BY <1>2, <3>1, AllIsReported
    <3>4. S!Say
      BY <3>1, <3>2, <3>3 DEF S!Say, Owed, Reports
    <3>5. QED BY <3>4 DEF S!Next
  <2>7. CASE UNCHANGED vars
    <3>1. UNCHANGED <<host, observations, noted, main, completed>>
      BY <2>7 DEF vars, result
    <3>2. Owed' = Owed /\ Reports' = Reports
      BY <3>1 DEF Owed, Placements, Deployed, Reports, ToSet
    <3>3. QED BY <3>1, <3>2 DEF S!vars, Owed, Reports
  <2>8. ASSUME NextRoot \/ Walk \/ Stop \/ \E n \in Nodes, d \in 0..MaxDepth : Visit(n, d)
        PROVE  main = "collecting" /\ main' = "collecting"
    <3>1. main = "returned" => todo = <<>> /\ matches = <<>>
      BY <1>2 DEF Swept, Ended
    <3>2. main \in {"collecting", "returned"}
      BY <1>2 DEF Inv, Ahead
    <3>3. ASSUME NEW n, NEW d, Visit(n, d) PROVE todo # <<>> /\ main' = main
      BY <3>3 DEF Visit, Enter, Denied, PassOver, TooMany, Unfit, Open, At
    <3>4. ASSUME NextRoot PROVE main = "collecting" /\ main' = main
      BY <3>4 DEF NextRoot, Between
    <3>5. ASSUME Walk \/ Stop PROVE main' = main /\ (todo # <<>> \/ matches # <<>>)
      BY <3>5 DEF Walk, Stop
    <3>6. QED BY <2>8, <3>1, <3>2, <3>3, <3>4, <3>5
  <2>9. QED BY <1>2, <2>5, <2>6, <2>7, <2>8 DEF Next
<1>3. Inv /\ Swept => Grounded
  BY ReportsAreFindings
<1>4. QED BY <1>1, <1>2, <1>3, Start, Kept, SweepStarts, SweptKept, PTL DEF Spec, ImplementsSweep, S!Spec
=============================================================================
