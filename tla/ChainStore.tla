---------------------------- MODULE ChainStore ----------------------------
(***************************************************************************)
(* The chain store (parse.Store): which certificates of one store are      *)
(* end-entity certificates, and the issuers of each that the store holds.  *)
(*                                                                         *)
(* A certificate is a record of what the store reads of it: its name and   *)
(* its issuer's, its key and the one that signed it, what basicConstraints *)
(* say, whether it is valid now.  A copy, equal in every byte, is the same *)
(* record.                                                                 *)
(*                                                                         *)
(* Work on a store passes a state along: what is left of the budget, how   *)
(* often the context may yet be asked before it is done, the pairs checked *)
(* and the shortfall.                                                      *)
(***************************************************************************)
EXTENDS Integers, FiniteSets, SequencesExt

CONSTANTS
  Cost,             \* of one verification under each key
  VerifyBudget,     \* what one file may cost
  MaxCertificates,  \* MaxCertificatesPerStore
  MaxLeaves,        \* MaxLeavesPerStore
  MaxChainDepth

ASSUME ChainBoundsAssumption ==
  /\ \A k \in DOMAIN Cost : Cost[k] \in Nat \ {0}
  /\ {VerifyBudget, MaxCertificates, MaxLeaves, MaxChainDepth} \subseteq Nat \ {0}

IsCA(c) == c.ca = "yes"
MayIssue(c) == c.ca # "no"
Signed(child, ca) == child.by = ca.key

-----------------------------------------------------------------------------
(* The context, the budget and the checks made.                            *)

Never == -1

\* A context that is asked `until` times more before it is done, or never.
Cancelled(st) == st.until = 0
Asked(st) == [st EXCEPT !.until = IF @ > 0 THEN @ - 1 ELSE @]
Short(st, what) == [st EXCEPT !.short = @ \cup {what}]
CutShort(st) == st.short \cap {"outOfBudget", "interrupted"} # {}

\* A pair is checked once, and not at all when the budget or the context ended.
Check(st, child, ca) ==
  IF <<child, ca>> \in st.checked \/ CutShort(st) THEN st
  ELSE IF Cancelled(st) THEN Short(st, "interrupted")
  ELSE IF Cost[ca.key] > st.left THEN Short(Asked(st), "outOfBudget")
  ELSE [Asked(st) EXCEPT !.left = @ - Cost[ca.key], !.checked = @ \cup {<<child, ca>>}]

Verified(st, child, ca) == <<child, ca>> \in st.checked /\ Signed(child, ca)

CheckSelf(st, c) == IF c.name = c.issuer THEN Check(st, c, c) ELSE st
SelfSigned(st, c) == c.name = c.issuer /\ Verified(st, c, c)

-----------------------------------------------------------------------------
(* One store.                                                              *)

Distinct(certs) == FoldLeft(LAMBDA q, c : IF Contains(q, c) THEN q ELSE Append(q, c), <<>>, certs)

UpTo(q, n) == SubSeq(q, 1, IF Len(q) > n THEN n ELSE Len(q))

\* NewStore: what the input held and then the extra issuers, each once and as
\* many as are indexed; the first `ours` of them are the input.
NewStore(certs, issuers) ==
  [all  |-> UpTo(Distinct(certs \o issuers), MaxCertificates),
   ours |-> Len(UpTo(Distinct(certs), MaxCertificates))]

\* The state work on it starts from; the budget and the context may be shared.
Opened(certs, issuers, left, until) ==
  [left |-> left, until |-> until, checked |-> {},
   short |-> IF Len(Distinct(certs \o issuers)) > MaxCertificates THEN {"truncated"} ELSE {}]

\* The indexes: possible issuers by their name, certificates by their issuer's.
BySubject(store, name) ==
  FoldLeft(LAMBDA q, c : IF MayIssue(c) /\ c.name = name THEN Append(q, c) ELSE q, <<>>, store.all)
ByIssuer(store, name) ==
  FoldLeft(LAMBDA q, c : IF c.issuer = name THEN Append(q, c) ELSE q, <<>>, store.all)

Rank(st, ca) == (IF ca.valid THEN 2 ELSE 0) + (IF SelfSigned(st, ca) THEN 1 ELSE 0)

\* A later candidate is taken only if it ranks higher.
Prefer(acc, ca, st) ==
  IF Rank(st, ca) > acc.rank THEN [st |-> st, best |-> <<ca>>, rank |-> Rank(st, ca)]
  ELSE [acc EXCEPT !.st = st]

Judge(acc, cert, ca, st) ==
  IF Verified(st, cert, ca) THEN Prefer(acc, ca, CheckSelf(st, ca)) ELSE [acc EXCEPT !.st = st]

\* Every candidate is checked.
BestOf(store, st, cert, visited) ==
  FoldLeft(LAMBDA acc, ca : IF ca \in visited THEN acc ELSE Judge(acc, cert, ca, Check(acc.st, cert, ca)),
           [st |-> st, best |-> <<>>, rank |-> -1],
           BySubject(store, cert.issuer))

\* A mutant of Settle: the best so far will do.
SettleForLess(r) == r

\* nil, the answer too when some candidate went unchecked.
Settle(r) == IF CutShort(r.st) THEN [r EXCEPT !.best = <<>>] ELSE r

IssuerOf(store, st, cert, visited) == Settle(BestOf(store, st, cert, visited))

\* A mutant of Extend: a chain cut at the depth is not noted.
ExtendQuietly(acc, issuer) ==
  IF issuer.best = <<>> \/ Len(acc.path) > MaxChainDepth THEN [acc EXCEPT !.st = issuer.st, !.ended = TRUE]
  ELSE [acc EXCEPT !.st = issuer.st, !.path = @ \o issuer.best]

\* path is the certificate and the chain so far.
Extend(acc, issuer) ==
  IF issuer.best = <<>> THEN [acc EXCEPT !.st = issuer.st, !.ended = TRUE]
  ELSE IF Len(acc.path) > MaxChainDepth THEN [acc EXCEPT !.st = Short(issuer.st, "tooDeep"), !.ended = TRUE]
  ELSE [acc EXCEPT !.st = issuer.st, !.path = @ \o issuer.best]

Climb(store, acc) ==
  IF SelfSigned(acc.st, Last(acc.path)) THEN [acc EXCEPT !.ended = TRUE]
  ELSE Extend(acc, IssuerOf(store, acc.st, Last(acc.path), ToSet(acc.path)))

\* The path climbs at most MaxChainDepth links and then looks once more.
ChainFor(store, st, cert) ==
  FoldLeft(LAMBDA acc, i : IF acc.ended THEN acc
                           ELSE Climb(store, [acc EXCEPT !.st = CheckSelf(@, Last(acc.path))]),
           [st |-> st, path |-> <<cert>>, ended |-> FALSE],
           [i \in 1..(MaxChainDepth + 1) |-> i])

IssuedAnother(store, st, cert) ==
  IF ~MayIssue(cert) THEN [st |-> st, yes |-> FALSE]
  ELSE FoldLeft(LAMBDA acc, child :
                  IF acc.yes \/ child = cert THEN acc
                  ELSE LET one == Check(acc.st, child, cert)
                       IN [st |-> one, yes |-> Verified(one, child, cert)],
                [st |-> st, yes |-> FALSE],
                ByIssuer(store, cert.name))

\* One certificate of the input that is no CA, and whether it issued another.
AddLeaf(acc, chain) == [acc EXCEPT !.st = chain.st, !.out = Append(@, chain.path)]
Count(store, acc, cert, issued) ==
  IF issued.yes THEN [acc EXCEPT !.st = issued.st]
  ELSE IF Len(acc.out) = MaxLeaves THEN [acc EXCEPT !.st = Short(issued.st, "truncated"), !.ended = TRUE]
  ELSE AddLeaf(acc, ChainFor(store, issued.st, cert))

Consider(store, acc, cert) ==
  IF acc.ended THEN acc
  ELSE IF Cancelled(acc.st) THEN [acc EXCEPT !.st = Short(@, "interrupted"), !.ended = TRUE]
  ELSE IF IsCA(cert) THEN [acc EXCEPT !.st = Asked(@)]
  ELSE Count(store, acc, cert, IssuedAnother(store, Asked(acc.st), cert))

\* Leaves: out is the end-entity certificates, each at the head of its path.
Leaves(store, st) ==
  FoldLeft(LAMBDA acc, cert : Consider(store, acc, cert),
           [st |-> st, out |-> <<>>, ended |-> FALSE],
           UpTo(store.all, store.ours))

-----------------------------------------------------------------------------
(* What the certificates of a store are, whatever it costs to tell.        *)

Issues(ca, child) == MayIssue(ca) /\ ca.name = child.issuer /\ Signed(child, ca)
RootItself(c) == c.name = c.issuer /\ Signed(c, c)
EndEntity(S, c) == ~IsCA(c) /\ \A d \in S \ {c} : ~Issues(c, d)

\* One issuer is no worse than another: valid now first, self-signed next.
NoWorse(a, b) ==
  \/ a.valid /\ ~b.valid
  \/ a.valid = b.valid /\ (RootItself(b) => RootItself(a))

\* Each link of a path was issued by the next, and by none better in the store
\* that is not on the path already.
IsChain(S, path) ==
  /\ Len(path) <= MaxChainDepth + 1
  /\ \A i, j \in DOMAIN path : path[i] = path[j] => i = j
  /\ \A i \in 1..(Len(path) - 1) :
       /\ Issues(path[i + 1], path[i]) /\ ~RootItself(path[i])
       /\ path[i + 1] \in S
       /\ \A ca \in S \ {path[k] : k \in 1..i} : Issues(ca, path[i]) => NoWorse(path[i + 1], ca)

\* Nothing in the store would carry the path further.
Whole(S, path) ==
  RootItself(Last(path)) \/ \A ca \in S \ ToSet(path) : ~Issues(ca, Last(path))
=============================================================================
