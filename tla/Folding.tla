------------------------------ MODULE Folding ------------------------------
(***************************************************************************)
(* Induction along a fold, for any operator: what holds of the first       *)
(* value, and is kept by every step, holds of the last.  A module that     *)
(* folds an operator of its own instantiates Op with it.                   *)
(***************************************************************************)
EXTENDS SequencesExt, WellFoundedInduction, TLAPS

CONSTANT Op(_, _, _, _)  \* of two things that stay, the value so far, the next element

Over(same, also, base, q) == FoldLeft(LAMBDA a, x : Op(same, also, a, x), base, q)

-----------------------------------------------------------------------------
LessThan == {pair \in Nat \X Nat : pair[1] < pair[2]}

\* Any set of numbers that has one has a least one.
LEMMA Least ==
  ASSUME NEW T, T \subseteq Nat, T # {}
  PROVE  \E x \in T : \A y \in T : x <= y
<1>1. OpToRel(<, Nat) = LessThan
  BY DEF OpToRel, LessThan
<1>2. IsWellFoundedOn(LessThan, Nat)
  BY <1>1, NatLessThanWellFounded
<1>3. PICK x \in T : \A y \in T : ~(<<y, x>> \in LessThan)
  BY <1>2, WFMin
<1>4. ASSUME NEW y \in T PROVE x <= y
  <2>1. x \in Nat /\ y \in Nat
    OBVIOUS
  <2>2. ~(y < x)
    <3>1. SUFFICES ASSUME y < x PROVE <<y, x>> \in LessThan
      BY <1>3
    <3>2. QED BY <2>1, <3>1 DEF LessThan
  <2>3. QED BY <2>1, <2>2
<1>5. QED BY <1>4

\* What a bounded set of numbers has as its largest.
LEMMA Largest ==
  ASSUME NEW m \in Nat, NEW s \in SUBSET (1..m), s # {}
  PROVE  Max(s) \in s /\ \A y \in s : Max(s) >= y
<1> DEFINE Above == {u \in Nat : \A x \in s : x <= u}
<1>1. m \in Above
  OBVIOUS
<1>2. PICK u \in Above : \A v \in Above : u <= v
  <2>1. Above \subseteq Nat /\ Above # {}
    BY <1>1
  <2> HIDE DEF Above
  <2>2. QED BY <2>1, Least
<1>3. u \in s
  <2>1. SUFFICES ASSUME u \notin s PROVE FALSE
    OBVIOUS
  <2>2. PICK x \in s : TRUE
    OBVIOUS
  <2>3. u \in Nat /\ u >= 1
    BY <1>2, <2>2
  <2>4. \A y \in s : y <= u - 1
    BY <1>2, <2>1, <2>3
  <2>5. u - 1 \in Above
    BY <2>3, <2>4
  <2>6. QED BY <1>2, <2>3, <2>5
<1>4. \A y \in s : u >= y
  BY <1>2
<1>5. QED BY <1>3, <1>4 DEF Max

-----------------------------------------------------------------------------
(* The function that a fold iterates.                                      *)

Step(same, also, base, q, f, s) == IF s = {} THEN base ELSE Op(same, also, f[s \ {Max(s)}], q[Max(s)])
Iterates(same, also, base, q, m, f) == f = [s \in SUBSET (1..m) |-> Step(same, also, base, q, f, s)]

\* It takes the elements in order, and so there is one.
LEMMA IterateNext ==
  ASSUME NEW same, NEW also, NEW base, NEW q, NEW m \in Nat, NEW f, Iterates(same, also, base, q, m, f)
  PROVE  \E g : Iterates(same, also, base, q, m + 1, g)
<1> DEFINE g == [s \in SUBSET (1..(m + 1)) |-> Step(same, also, base, q, f, s)]
<1>1. ASSUME NEW s \in SUBSET (1..m) PROVE g[s] = f[s]
  <2>1. s \in SUBSET (1..(m + 1))
    OBVIOUS
  <2>2. g[s] = Step(same, also, base, q, f, s)
    BY <2>1
  <2>3. f[s] = Step(same, also, base, q, f, s)
    BY DEF Iterates
  <2>4. QED BY <2>2, <2>3
<1>2. ASSUME NEW s \in SUBSET (1..(m + 1)) PROVE Step(same, also, base, q, f, s) = Step(same, also, base, q, g, s)
  <2>1. CASE s = {}
    BY <2>1 DEF Step
  <2>2. CASE s # {}
    <3>1. m + 1 \in Nat
      OBVIOUS
    <3>2. Max(s) \in s /\ \A y \in s : Max(s) >= y
      BY <2>2, <3>1, Largest
    <3>3. s \ {Max(s)} \in SUBSET (1..m)
      <4>1. ASSUME NEW y \in s, y # Max(s) PROVE y \in 1..m
        <5>1. PICK k \in s : k = Max(s) /\ k >= y
          BY <3>2
        <5>2. k \in 1..(m + 1) /\ y \in 1..(m + 1) /\ y # k
          BY <4>1, <5>1
        <5>3. QED BY <5>1, <5>2
      <4>2. QED BY <4>1
    <3>4. g[s \ {Max(s)}] = f[s \ {Max(s)}]
      BY <1>1, <3>3
    <3>5. QED BY <3>4 DEF Step
  <2>3. QED BY <2>1, <2>2
<1>3. g = [s \in SUBSET (1..(m + 1)) |-> Step(same, also, base, q, g, s)]
  BY <1>2
<1>4. QED BY <1>3 DEF Iterates

LEMMA Iterated ==
  ASSUME NEW same, NEW also, NEW base, NEW q, NEW n \in Nat
  PROVE  \E f : Iterates(same, also, base, q, n, f)
<1> DEFINE None == {m \in Nat : ~\E f : Iterates(same, also, base, q, m, f)}
<1>1. 0 \notin None
  <2> DEFINE f == [s \in SUBSET (1..0) |-> base]
  <2>1. \A s \in SUBSET (1..0) : Step(same, also, base, q, f, s) = base
    BY DEF Step
  <2>2. f = [s \in SUBSET (1..0) |-> Step(same, also, base, q, f, s)]
    BY <2>1
  <2>3. QED BY <2>2 DEF Iterates
<1>2. None = {}
  <2>1. SUFFICES ASSUME None # {} PROVE FALSE
    OBVIOUS
  <2>2. PICK m \in None : \A k \in None : m <= k
    <3>1. None \subseteq Nat
      OBVIOUS
    <3> HIDE DEF None
    <3>2. QED BY <2>1, <3>1, Least
  <2>3. m \in Nat /\ m # 0
    BY <1>1
  <2>4. m - 1 \in Nat /\ (m - 1) + 1 = m /\ ~(m <= m - 1)
    BY <2>3
  <2>5. m - 1 \notin None
    BY <2>2, <2>4
  <2>6. PICK f : Iterates(same, also, base, q, m - 1, f)
    BY <2>4, <2>5
  <2>7. \E g : Iterates(same, also, base, q, (m - 1) + 1, g)
    BY <2>4, <2>6, IterateNext
  <2>8. \E g : Iterates(same, also, base, q, m, g)
    BY <2>4, <2>7
  <2>9. QED BY <2>8
<1>3. QED BY <1>2

\* A fold goes by the function it iterates.
LEMMA FoldIterates ==
  ASSUME NEW same, NEW also, NEW base, NEW T, NEW q \in Seq(T)
  PROVE  \E f : Iterates(same, also, base, q, Len(q), f) /\ Over(same, also, base, q) = f[1..Len(q)]
<1> DEFINE n == Len(q)
           iter == CHOOSE f : f = [s \in SUBSET (1..n) |-> Step(same, also, base, q, f, s)]
<1>1. n \in Nat /\ DOMAIN q = 1..n
  OBVIOUS
<1>2. \E f : f = [s \in SUBSET (1..n) |-> Step(same, also, base, q, f, s)]
  <2> HIDE DEF n
  <2>1. \E f : Iterates(same, also, base, q, n, f)
    BY <1>1, Iterated
  <2>2. QED BY <2>1 DEF Iterates
<1>3. Iterates(same, also, base, q, n, iter)
  BY <1>2 DEF Iterates
<1>4. Over(same, also, base, q) = iter[1..n]
  <2>1. Over(same, also, base, q) =
          LET it == CHOOSE f : f = [s \in SUBSET DOMAIN q |->
                                      IF s = {} THEN base ELSE Op(same, also, f[s \ {Max(s)}], q[Max(s)])]
          IN it[DOMAIN q]
    BY Zenon DEF Over, FoldLeft, MapThenFoldSet
  <2>2. QED BY <1>1, <2>1, Zenon DEF Step
<1>5. QED BY <1>3, <1>4

\* What holds of the first value, and is kept by every step, holds of the last; it
\* may depend on how far the fold has come.
LEMMA FoldInduction ==
  ASSUME NEW same, NEW also, NEW base, NEW T, NEW q \in Seq(T), NEW Holds,
         base \in Holds[0],
         \A i \in DOMAIN q : \A a \in Holds[i - 1] : Op(same, also, a, q[i]) \in Holds[i]
  PROVE  Over(same, also, base, q) \in Holds[Len(q)]
<1> DEFINE n == Len(q)
<1>1. n \in Nat /\ DOMAIN q = 1..n
  OBVIOUS
<1>2. PICK f : Iterates(same, also, base, q, n, f) /\ Over(same, also, base, q) = f[1..n]
  BY FoldIterates
<1> DEFINE Fails == {i \in 0..n : f[1..i] \notin Holds[i]}
<1>3. 0 \notin Fails
  <2>1. f[{}] = base /\ 1..0 = {}
    BY <1>2 DEF Iterates, Step
  <2>2. QED BY <2>1
<1>4. Fails = {}
  <2>1. SUFFICES ASSUME Fails # {} PROVE FALSE
    OBVIOUS
  <2>2. PICK i \in Fails : \A k \in Fails : i <= k
    <3>1. Fails \subseteq Nat
      OBVIOUS
    <3> HIDE DEF Fails
    <3>2. QED BY <2>1, <3>1, Least
  <2>3. i \in 1..n /\ i - 1 \in 0..n /\ ~(i <= i - 1)
    BY <1>1, <1>3
  <2>4. f[1..(i - 1)] \in Holds[i - 1]
    BY <2>2, <2>3
  <2>5. f[1..i] = Op(same, also, f[1..(i - 1)], q[i])
    <3>1. 1..i \in SUBSET (1..n) /\ 1..i # {} /\ i \in 1..i /\ i \in Nat
      BY <1>1, <2>3
    <3>2. Max(1..i) \in 1..i /\ Max(1..i) >= i
      BY <3>1, Largest
    <3>3. Max(1..i) = i
      BY <3>1, <3>2
    <3>4. (1..i) \ {i} = 1..(i - 1)
      BY <3>1
    <3>5. f[1..i] = Step(same, also, base, q, f, 1..i)
      BY <1>2, <3>1 DEF Iterates
    <3>6. QED BY <3>1, <3>3, <3>4, <3>5 DEF Step
  <2>6. f[1..i] \in Holds[i]
    BY <1>1, <2>3, <2>4, <2>5
  <2>7. QED BY <2>2, <2>6
<1>5. n \in 0..n
  BY <1>1
<1>6. QED BY <1>2, <1>4, <1>5

\* The same for what holds all along.
LEMMA FoldInvariant ==
  ASSUME NEW same, NEW also, NEW base, NEW T, NEW q \in Seq(T), NEW Holds,
         base \in Holds,
         \A a \in Holds, x \in T : Op(same, also, a, x) \in Holds
  PROVE  Over(same, also, base, q) \in Holds
<1> DEFINE along == [i \in 0..Len(q) |-> Holds]
<1>1. Len(q) \in Nat /\ DOMAIN q = 1..Len(q)
  OBVIOUS
<1>2. base \in along[0] /\ along[Len(q)] = Holds
  BY <1>1
<1>3. ASSUME NEW i \in DOMAIN q, NEW a \in along[i - 1] PROVE Op(same, also, a, q[i]) \in along[i]
  <2>1. i - 1 \in 0..Len(q) /\ i \in 0..Len(q) /\ q[i] \in T
    BY <1>1
  <2>2. QED BY <2>1
<1> HIDE DEF along
<1>4. QED BY <1>2, <1>3, FoldInduction, Zenon

=============================================================================
