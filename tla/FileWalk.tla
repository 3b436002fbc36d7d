----------------------------- MODULE FileWalk -----------------------------
(***************************************************************************)
(* The collectors that walk directories: file (FS) and java_keystore       *)
(* (Keystores).                                                            *)
(*                                                                         *)
(*   Collect   root after root; one may match several directories, or none *)
(*   walk      what lies under one, in order, not past MaxDepth            *)
(*   examine   one file: its stores, their end-entity certificates, and    *)
(*             the chain of each (ChainStore)                              *)
(*                                                                         *)
(* A file holds a sequence of stores: the one of a .pem, the aliases of a  *)
(* keystore.  The context is asked at every step and may end at any.       *)
(***************************************************************************)
EXTENDS ChainStore

CONSTANTS
  Hosts,     \* [source, nodes, roots]: which of the two collectors this is, a
             \* tree of directories, files and links, and for each configured
             \* root the nodes it matches
  Patience,  \* how often a context may be asked before it is done
  MaxDepth,
  MaxFiles,
  Room       \* observations the run still has room for

ASSUME WalkBoundsAssumption ==
  /\ MaxDepth \in Nat \ {0} /\ MaxFiles \in Nat \ {0} /\ Room \in Nat
  /\ Patience \subseteq Nat \cup {Never}

\* Roots match nodes, directories hold nodes, files hold stores of certificates.
IsSequence(q) == q \in Seq(ToSet(q))
ASSUME HostsAssumption ==
  \A h \in Hosts :
    /\ h.roots \in Seq(Seq(DOMAIN h.nodes))
    /\ \A n \in DOMAIN h.nodes :
         LET node == h.nodes[n] IN
         /\ node.kind = "dir" => node.holds \in Seq(DOMAIN h.nodes)
         /\ node.kind = "file" =>
              /\ IsSequence(node.entries)
              /\ \A e \in ToSet(node.entries) :
                   /\ IsSequence(e.certs)
                   /\ \A c \in ToSet(e.certs) : c.key \in DOMAIN Cost /\ c.valid \in BOOLEAN

VARIABLES
  host,
  pending,       \* roots not come to yet
  matches,       \* of the root at hand, those not walked yet
  todo,          \* the walk at hand: nodes to come to, with their depth
  until,         \* the context, as in ChainStore
  seen,          \* files counted against MaxFiles
  examined,      \* files opened
  observations,  \* of the Result: file, alias, and the path of certificates
  noted,         \* files the Errors name with what was left undone
  completed,     \* of the Result
  full,          \* the run took no more
  main           \* "collecting", then "returned"

ahead == <<pending, matches>>
result == <<observations, noted, full>>
vars == <<host, ahead, todo, until, seen, examined, result, completed, main>>

Init ==
  /\ host \in Hosts
  /\ pending = host.roots /\ matches = <<>> /\ todo = <<>>
  /\ until \in Patience
  /\ seen = 0 /\ examined = {}
  /\ observations = <<>> /\ noted = {} /\ completed = TRUE /\ full = FALSE
  /\ main = "collecting"

source == host.source
Done == until = 0
Ask == until' = IF until > 0 THEN until - 1 ELSE until

-----------------------------------------------------------------------------
(* One file.                                                               *)

Node(n) == host.nodes[n]

\* JavaKeystore reads entries in order and stops at the first it cannot step
\* over: a secret key, a type it does not know, a length beyond the end.
Readable(e) == e.tag \in {"key", "trusted"}
JavaKeystore(entries) ==
  LET bad == SelectInSeq(entries, LAMBDA e : ~Readable(e))
  IN IF bad = 0 THEN entries ELSE SubSeq(entries, 1, bad - 1)

\* The end-entity certificates of a store; of one that has none and a key, the
\* first certificate.
Only(chain) == [st |-> chain.st, out |-> <<chain.path>>]
Found(store, e, ls) ==
  IF ls.out # <<>> \/ e.tag # "key" \/ e.certs = <<>> \/ "interrupted" \in ls.st.short
  THEN [st |-> ls.st, out |-> ls.out]
  ELSE Only(ChainFor(store, ls.st, e.certs[1]))

Spent(acc, st) == [acc EXCEPT !.left = st.left, !.until = st.until, !.short = @ \cup st.short]
Observed(n, i, paths) == [k \in DOMAIN paths |-> [file |-> n, alias |-> i, path |-> paths[k]]]

\* A mutant of Take: the run's limit is not asked about.
TakeRegardless(n, i, acc, found) ==
  [Spent(acc, found.st) EXCEPT !.out = @ \o Observed(n, i, found.out)]

\* What there was room to record.
Take(n, i, acc, found) ==
  LET room == Room - Len(acc.out)
  IN [Spent(acc, found.st) EXCEPT !.out = @ \o Observed(n, i, UpTo(found.out, room)),
                                  !.refused = Len(found.out) > room]

\* One store, with what is left of the file's budget.
ReadEntry(n, acc, i, e) ==
  LET store == NewStore(e.certs, <<>>)
  IN Take(n, i, acc, Found(store, e, Leaves(store, Opened(e.certs, <<>>, acc.left, acc.until))))

\* The next store of a file; Keystores asks the context first.
ReadNext(src, n, acc, store) ==
  IF acc.refused \/ acc.stopped THEN acc
  ELSE IF src = "file" THEN ReadEntry(n, acc, store.alias, store.entry)
  ELSE IF Cancelled(acc) THEN [acc EXCEPT !.stopped = TRUE]
  ELSE ReadEntry(n, Asked(acc), store.alias, store.entry)

ReadFile(n, entries) ==
  FoldLeft(LAMBDA acc, store : ReadNext(source, n, acc, store),
    [left |-> VerifyBudget, until |-> IF until > 0 THEN until - 1 ELSE until, short |-> {},
     out |-> observations, refused |-> FALSE, stopped |-> FALSE],
    [i \in DOMAIN entries |-> [alias |-> i, entry |-> entries[i]]])

Record(n, fault, r) ==
  /\ until' = r.until
  /\ observations' = r.out
  /\ completed' = (completed /\ ~fault /\ ~r.refused /\ ~r.stopped
                     /\ r.short \cap {"truncated", "interrupted"} = {})
  /\ noted' = noted \cup IF fault \/ r.short \ {"interrupted"} # {} THEN {n} ELSE {}
  /\ full' = (full \/ r.refused)
  /\ todo' = IF full' THEN <<>> ELSE Tail(todo)

Read(n) ==
  LET entries == JavaKeystore(Node(n).entries)
  IN Record(n, Len(entries) < Len(Node(n).entries), ReadFile(n, entries))

\* A mutant of Examine: a file reached again is read again.
ExamineAgain(n) ==
  /\ examined' = examined \cup {n}
  /\ IF ~Node(n).readable
     THEN /\ completed' = FALSE /\ todo' = Tail(todo) /\ Ask /\ UNCHANGED result
     ELSE Read(n)

\* examine: a file is read once, whichever roots it was reached through.
Examine(n) ==
  /\ examined' = examined \cup {n}
  /\ IF n \in examined THEN /\ todo' = IF full THEN <<>> ELSE Tail(todo)
                            /\ Ask /\ UNCHANGED <<result, completed>>
     ELSE IF ~Node(n).readable
     THEN /\ completed' = FALSE /\ todo' = Tail(todo) /\ Ask /\ UNCHANGED result
     ELSE Read(n)

-----------------------------------------------------------------------------
(* The walk.                                                               *)

\* The node the walk has come to, the context not done.
At(n, d) == todo # <<>> /\ Head(todo) = <<n, d>> /\ ~Done
Candidate(n) == Node(n).kind = "file" /\ Node(n).named

\* The context is done: the walk fails.
Stop ==
  /\ todo # <<>> /\ Done
  /\ todo' = <<>> /\ completed' = FALSE
  /\ UNCHANGED <<host, ahead, until, seen, examined, result, main>>

Enter(n, d) ==
  /\ At(n, d) /\ Node(n).kind = "dir"
  /\ d >= MaxDepth \/ Node(n).readable
  /\ todo' = (IF d >= MaxDepth THEN <<>> ELSE [i \in DOMAIN Node(n).holds |-> <<Node(n).holds[i], d + 1>>])
               \o Tail(todo)
  /\ Ask
  /\ UNCHANGED <<host, ahead, seen, examined, result, completed, main>>

\* A mutant of Denied: what cannot be listed is passed over.
DeniedQuietly(n, d) ==
  /\ At(n, d) /\ Node(n).kind = "dir"
  /\ d < MaxDepth /\ ~Node(n).readable
  /\ todo' = Tail(todo)
  /\ Ask
  /\ UNCHANGED <<host, ahead, seen, examined, result, completed, main>>

\* A directory that cannot be listed is skipped, and said.
Denied(n, d) ==
  /\ At(n, d) /\ Node(n).kind = "dir"
  /\ d < MaxDepth /\ ~Node(n).readable
  /\ todo' = Tail(todo) /\ completed' = FALSE
  /\ Ask
  /\ UNCHANGED <<host, ahead, seen, examined, result, main>>

\* Links are not followed, and other files are not opened.
PassOver(n, d) ==
  /\ At(n, d) /\ Node(n).kind # "dir" /\ ~Candidate(n)
  /\ todo' = Tail(todo)
  /\ Ask
  /\ UNCHANGED <<host, ahead, seen, examined, result, completed, main>>

\* A mutant of TooMany: the file counted before it is compared.
TooManyByOne(n, d) ==
  /\ At(n, d) /\ Candidate(n) /\ seen + 1 >= MaxFiles
  /\ todo' = <<>> /\ completed' = FALSE
  /\ Ask
  /\ UNCHANGED <<host, ahead, seen, examined, result, main>>

\* One file past the bound: this walk ends, and said.
TooMany(n, d) ==
  /\ At(n, d) /\ Candidate(n) /\ seen >= MaxFiles
  /\ todo' = <<>> /\ completed' = FALSE
  /\ Ask
  /\ UNCHANGED <<host, ahead, seen, examined, result, main>>

\* Empty, too large to be a certificate file, or not to be asked about.
Unfit(n, d) ==
  /\ At(n, d) /\ Candidate(n) /\ seen < MaxFiles /\ ~Node(n).fit
  /\ todo' = Tail(todo) /\ seen' = seen + 1
  /\ Ask
  /\ UNCHANGED <<host, ahead, examined, result, completed, main>>

Open(n, d) ==
  /\ At(n, d) /\ Candidate(n) /\ seen < MaxFiles /\ Node(n).fit
  /\ seen' = seen + 1
  /\ Examine(n)
  /\ UNCHANGED <<host, ahead, main>>

Visit(n, d) ==
  \/ Enter(n, d) \/ Denied(n, d) \/ PassOver(n, d)
  \/ TooMany(n, d) \/ Unfit(n, d) \/ Open(n, d)

-----------------------------------------------------------------------------
(* Collect.                                                                *)

Between == main = "collecting" /\ todo = <<>> /\ matches = <<>>

\* A root that matches nothing is not on this host.
NextRoot ==
  /\ Between /\ pending # <<>>
  /\ source = "file" \/ ~Done
  /\ matches' = Head(pending) /\ pending' = Tail(pending)
  /\ IF source = "file" THEN UNCHANGED until ELSE Ask
  /\ UNCHANGED <<host, todo, seen, examined, result, completed, main>>

Walk ==
  /\ todo = <<>> /\ matches # <<>>
  /\ todo' = <<<<Head(matches), 0>>>> /\ matches' = Tail(matches)
  /\ UNCHANGED <<host, pending, until, seen, examined, result, completed, main>>

\* Keystores asks the context between roots too.
Leave ==
  /\ Between /\ pending # <<>> /\ source = "java_keystore" /\ Done
  /\ main' = "returned" /\ completed' = FALSE
  /\ UNCHANGED <<host, ahead, todo, until, seen, examined, result>>

Return ==
  /\ Between /\ pending = <<>>
  /\ main' = "returned"
  /\ UNCHANGED <<host, ahead, todo, until, seen, examined, result, completed>>

Nodes == DOMAIN host.nodes

Next ==
  \/ NextRoot \/ Walk \/ Stop \/ Leave
  \/ main = "collecting" /\ Return
  \/ \E n \in Nodes, d \in 0..MaxDepth : Visit(n, d)

Spec == Init /\ [][Next]_vars

-----------------------------------------------------------------------------
(* Properties.                                                             *)

\* Every variable keeps its shape, no more files are counted than the bound
\* and no more recorded than the run has room for (walk, observe).
TypeOK ==
  /\ main \in {"collecting", "returned"}
  /\ \A k \in DOMAIN todo : todo[k][1] \in Nodes /\ todo[k][2] \in 0..MaxDepth
  /\ seen \in 0..MaxFiles /\ until \in Nat \cup {Never}
  /\ examined \cup noted \subseteq {n \in Nodes : Candidate(n)}
  /\ Len(observations) <= Room
  /\ {completed, full} \subseteq BOOLEAN

\* What a walk from a node comes to: what lies up to MaxDepth levels below it.
\* Nothing is owed of a root that matches nothing, though it may match nothing
\* because what its pattern goes through cannot be listed (fs.go:94-98).
Level(h, n) ==
  FoldLeft(LAMBDA reach, k : reach \cup UNION {ToSet(h.nodes[m].holds) : m \in {m \in reach : h.nodes[m].kind = "dir"}},
           {n}, [k \in 1..MaxDepth |-> k])
Matched(h) == UNION {ToSet(h.roots[k]) : k \in DOMAIN h.roots}
Reached(h) == UNION {Level(h, n) : n \in Matched(h)}

Files(h) == {n \in Reached(h) : h.nodes[n].kind = "file" /\ h.nodes[n].named}
Placements(h, Deployed(_, _)) ==
  UNION {UNION {{<<n, i, c>> : c \in Deployed(n, h.nodes[n].entries[i])} :
                   i \in DOMAIN h.nodes[n].entries} :
           n \in {n \in Files(h) : h.nodes[n].fit}}

\* The certificates of a store this host presents: the end-entity ones, and of
\* a store that has none and a key, the first, unless the file was noted: a
\* store out of budget may take an issuer for its leaf.
Deployed(n, e) ==
  LET S == ToSet(e.certs)
      leaves == {c \in S : EndEntity(S, c)}
  IN IF leaves # {} \/ e.tag # "key" \/ S = {} \/ n \in noted THEN leaves ELSE {e.certs[1]}

Finding == UNION {Placements(h, LAMBDA n, e : ToSet(e.certs)) : h \in Hosts}

\* The two collectors keep the promise of Sweep, whatever cannot be read, does
\* not fit or is cut off, and whenever the context ends: complete is said only
\* when every certificate deployed in a file the walk is to open was reported
\* (Completed; noteShortfall; JavaKeystore's partial reads).
S == INSTANCE Sweep WITH
       owed <- Placements(host, Deployed),
       reported <- {<<o.file, o.alias, Head(o.path)>> : o \in ToSet(observations)},
       said <- IF main = "collecting" THEN "nothing"
               ELSE IF completed THEN "complete" ELSE "incomplete"
ImplementsSweep == S!Spec

StoreOf(o) == ToSet(Node(o.file).entries[o.alias].certs)
Indexed(o) == ToSet(NewStore(Node(o.file).entries[o.alias].certs, <<>>).all)

\* Each link of a chain that is reported signed the one below, and none the
\* store indexes is better: valid now before expired, self-signed before
\* cross-signed; nothing repeats, through loops and copies (ChainFor, issuerOf).
ChainsAreBest == \A o \in ToSet(observations) : IsChain(Indexed(o), o.path)

\* A file's chains are whole and its leaves no issuers, or the file is noted, or
\* the sweep incomplete: a chain cut short never passes for one that the store
\* could not carry further (Shortfall).
CutShortIsSaid ==
  \A o \in ToSet(observations) :
    \/ o.file \in noted \/ ~completed
    \/ /\ Whole(StoreOf(o), o.path)
       /\ Head(o.path) \in Deployed(o.file, Node(o.file).entries[o.alias])

\* A file reached through two roots, or a certificate twice in a store, is
\* reported once (examined, canonical).
ReportedOnce ==
  \A j, k \in DOMAIN observations :
    (/\ observations[j].file = observations[k].file
     /\ observations[j].alias = observations[k].alias
     /\ Head(observations[j].path) = Head(observations[k].path)) => j = k

\* Only a reason ends a sweep as incomplete: the bound on files is passed and not
\* met, and links, foreign files, roots that are not there and chains cut short
\* are none (MaxFiles, noteShortfall).
RootsOf(h) == FlattenSeq(h.roots)
Visits == {v \in (DOMAIN RootsOf(host)) \X Files(host) : v[2] \in Level(host, RootsOf(host)[v[1]])}
OnlyForAReason ==
  main = "returned" /\ ~completed =>
    \/ Done \/ full
    \/ Cardinality(Visits) > MaxFiles
    \/ \E n \in Reached(host) : Node(n).kind # "link" /\ ~Node(n).readable
    \/ \E n \in Files(host) : \E i \in DOMAIN Node(n).entries :
         LET e == Node(n).entries[i] IN
           \/ ~Readable(e)
           \/ Len(Distinct(e.certs)) > MaxCertificates
           \/ Cardinality({c \in ToSet(e.certs) : ~IsCA(c)}) > MaxLeaves
=============================================================================
