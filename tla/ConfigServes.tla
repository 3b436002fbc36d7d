--------------------------- MODULE ConfigServes ---------------------------
(***************************************************************************)
(* What the sites of a configuration present, by the configuration alone,  *)
(* whatever it takes to read it; and that the collector of ConfigReader    *)
(* reports that, or says that it did not.                                  *)
(***************************************************************************)
EXTENDS ConfigReader

-----------------------------------------------------------------------------
(* What a configuration says, whatever it takes to read it: every include  *)
(* in its place, each time, as one sequence of items.                      *)

\* The files an include names; ServerRoot stands before Apache's includes.
RootOf(h, m) ==
  LET items == h.files[m.file].items
      i == SelectInSeq(items, LAMBDA x : x.op = "server root")
  IN IF m.server = "apache" /\ i # 0 THEN items[i].value ELSE "own"
Included(h, m, f) ==
  LET q == SelectSeq(h.files[f].items, LAMBDA x : x.op = "include")
  IN FlattenSeq([i \in DOMAIN q |-> q[i].files[RootOf(h, m)]])

\* Files that an include brings in more than once.
Repeated(h, m) ==
  LET times == {<<f, i>> \in Reached(h, m) \X (1..4) : i \in DOMAIN Included(h, m, f)}
      n(g) == Cardinality({t \in times : Included(h, m, t[1])[t[2]] = g})
  IN {g \in Reached(h, m) : n(g) + (IF g = m.file THEN 1 ELSE 0) > 1}

\* Files that an include brings in over a directory that the agent may not list.
Unlisted(h, m) ==
  UNION {UNION {ToSet(x.files[RootOf(h, m)]) : x \in {x \in Includes(h, f) : x.hidden}} : f \in Reached(h, m)}

RECURSIVE Spliced(_, _, _, _)
Spliced(h, m, f, apart) ==
  LET items == h.files[f].items
      in(g) == IF g \in apart THEN <<[op |-> "apart", file |-> g, value |-> ""]>> ELSE Spliced(h, m, g, apart)
      at(x) == IF x.op # "include" THEN <<[op |-> x.op, file |-> f, value |-> x.value]>>
               ELSE LET q == x.files[RootOf(h, m)] IN FlattenSeq([i \in DOMAIN q |-> in(q[i])])
  IN FlattenSeq([i \in DOMAIN items |-> at(items[i])])

\* The sections that each item of a sequence stands in, outermost first.
Nested(q) ==
  FoldLeft(LAMBDA r, x :
             [path |-> CASE x.op \in {"server", "section"} -> Append(r.path, Len(r.items) + 1)
                         [] x.op = "end" -> Front(r.path)
                         [] OTHER -> r.path,
              items |-> Append(r.items, [op |-> x.op, file |-> x.file, value |-> x.value, path |-> r.path])],
           [path |-> <<>>, items |-> <<>>], q).items
Within(q, i) == IF q[i].path = <<>> THEN 0 ELSE Last(q[i].path)
Around(q, i) == ToSet(q[i].path)
Balanced(h, m) ==
  \A f \in Reached(h, m) : LET q == h.files[f].items
                                n(ops, i) == Cardinality({j \in 1..i : q[j].op \in ops})
                            IN /\ n({"server", "section"}, Len(q)) = n({"end"}, Len(q))
                               /\ \A i \in DOMAIN q : n({"end"}, i) <= n({"server", "section"}, i)

SitesOf(q) == {i \in DOMAIN q : q[i].op = "server"}

\* A site presents what its own directives say, and only without one what those
\* of the levels around it do.
CertsWithin(q, S) == {q[k].value : k \in {k \in DOMAIN q : q[k].op = "certificate" /\ Within(q, k) \in S}}
Presents(q, i) ==
  IF CertsWithin(q, {i}) # {} THEN CertsWithin(q, {i}) ELSE CertsWithin(q, Around(q, i) \cup {0})
LabelOf(m, q, i) ==
  LET own(k) == q[k].op = "name" /\ IF m.server = "apache" THEN i \in Around(q, k) ELSE Within(q, k) = i
      named == SelectSeq([k \in DOMAIN q |-> k], own)
  IN PrimaryName([j \in DOMAIN named |-> q[named[j]].value])

\* A site to which a file set apart may have something to say.
Uncertain(q, i) ==
  \E k \in DOMAIN q : /\ q[k].op = "apart"
                      /\ \/ i \in Around(q, k)
                         \/ CertsWithin(q, {i}) = {} /\ Within(q, k) \in Around(q, i) \cup {0}

\* The sites of a main file with what each presents, but for those uncertain.
Serves(h, m, apart) ==
  LET q == Nested(Spliced(h, m, m.file, apart))
  IN {<<<<q[i].file, LabelOf(m, q, i)>>, c>> :
        <<i, c>> \in {<<i, c>> \in SitesOf(q) \X DOMAIN h.certs : c \in Presents(q, i) /\ ~Uncertain(q, i)}}

Mains(h) == {m \in ToSet(h.mains) : h.files[m.file].state # "missing" /\ Balanced(h, m)}

\* What a binding presents: what the most specific key it is filed under names.
IISServes(h) ==
  IF h.iis.state = "absent" THEN {}
  ELSE {<<<<"IIS", b.site>>, f.cert>> : <<b, f>> \in
         {<<b, f>> \in ToSet(h.iis.bindings) \X {h.iis.bound[k] : k \in DOMAIN h.iis.bound} :
            /\ ToSet(RegistryKeys(b)) \cap h.iis.locked = {}
            /\ \E i \in DOMAIN RegistryKeys(b) :
                 /\ RegistryKeys(b)[i] \in DOMAIN h.iis.bound /\ h.iis.bound[RegistryKeys(b)[i]] = f
                 /\ \A j \in 1..(i - 1) : RegistryKeys(b)[j] \notin DOMAIN h.iis.bound
            /\ f.cert \in h.iis.stores[f.store].certs}}

-----------------------------------------------------------------------------
(* Properties.                                                             *)

Reported == {<<o.location, o.cert>> : o \in ToSet(observations)}
There(h, served) == {x \in served : h.certs[x[2]] \in {"ok", "unreadable"}}

\* What a complete sweep owes: the sites of every configuration that the server
\* itself would load, with the certificates that are there.  Not those to which a
\* file has something to say that is included twice (NoSiteIsForgotten) or only
\* over a directory that the agent may not list (whose glob fails in silence), nor
\* a certificate by a relative path (which reads as gone), nor a binding under a
\* key that could not be opened.
Apart(h, m) == Repeated(h, m) \cup Unlisted(h, m)
OwedBy == [h \in Hosts |->
             UNION {There(h, Serves(h, m, Apart(h, m))) : m \in Mains(h)} \cup IISServes(h)]

Finding == UNION {(((DOMAIN h.files \cup {"IIS"}) \X
                     ({"default"} \cup {b.site : b \in ToSet(h.iis.bindings)}
                        \cup UNION {{x.value : x \in ToSet(h.files[f].items)} : f \in DOMAIN h.files}))
                     \X (DOMAIN h.certs \cup UNION {h.iis.stores[s].certs : s \in DOMAIN h.iis.stores})) : h \in Hosts}

\* The collector keeps the promise of Sweep through includes that loop, nest too
\* deep, are too many, cannot be read or are broken, wherever it is cancelled:
\* complete is said only when every site it owes was reported (problems,
\* Completed, record, iisObservations).
S == INSTANCE Sweep WITH
       owed <- OwedBy[host],
       reported <- Reported,
       said <- IF main # "returned" THEN "nothing"
               ELSE IF completed THEN "complete" ELSE "incomplete"
ImplementsSweep == S!Spec

\* A complete sweep credits no site with a certificate that it does not present:
\* its own, or else those of the levels around it, wherever on the level they
\* stand, and of an IIS binding the most specific one (walkNginx, walkApache,
\* lookupBinding).  Not of a configuration with an upstream, whose servers are
\* taken for sites, with a file that is included twice or not seen, or with a site
\* whose own certificate is no file: it inherits the level's, since the code drops
\* such a one before it asks whether a site has its own (pairCertificates).
Tricky(h) ==
  \E m \in ToSet(h.mains) : Apart(h, m) # {} \/ ~Balanced(h, m)
    \/ \E f \in Reached(h, m) : \E x \in ToSet(h.files[f].items) : x.op = "upstream"
Pathless(h) ==
  \E m \in Mains(h) : LET q == Nested(Spliced(h, m, m.file, {}))
                      IN \E i \in SitesOf(q) : CertsWithin(q, {i}) = {NoFile}

\* Every site is reported with what it presents, or the sweep is incomplete: an
\* ssl_certificate in an included file belongs to the block that included it
\* (nginx.go), and every refusal to read is recorded (configReader.read).
NoSiteIsForgotten ==
  main = "returned" /\ completed =>
    \A m \in {m \in Mains(host) : m.file \notin Repeated(host, m)} :
      There(host, Serves(host, m, Unlisted(host, m))) \subseteq Reported
=============================================================================
