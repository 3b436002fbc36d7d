--------------------------- MODULE ConfigReader ---------------------------
(***************************************************************************)
(* The server_config collector: the sites that nginx, Apache and IIS are   *)
(* configured to serve, and the certificates they were told to present.    *)
(*                                                                         *)
(*   Collect       one main file after another, then IIS                   *)
(*   configReader  opens each file once and no more than MaxFiles, and     *)
(*                 notes what it could not read                            *)
(*   block         directives and sections; an included file is spliced in *)
(*   walk          the sites in the tree, with what they inherit           *)
(*   record        the certificate file of each                            *)
(*                                                                         *)
(* A file is a sequence of items.  Reading keeps a stack of frames: a file *)
(* or a section in it, what was read of it, and the files its last include *)
(* has yet to bring in.                                                    *)
(*                                                                         *)
(* In a run it comes after os_store (StoreSweep), with the room that this  *)
(* one left.                                                               *)
(***************************************************************************)
EXTENDS StoreSweep

CONSTANTS
  Wildcards,  \* names that are a poor label
  NoFile,     \* a certificate given as a variable, a token, or inline
  MaxDepth,
  MaxFiles

ASSUME ReaderBoundsAssumption == {MaxDepth, MaxFiles} \subseteq Nat /\ MaxFiles > 0

\* What any file gives as the server root.
ServerRoots(h) ==
  UNION {{x.value : x \in {x \in ToSet(h.files[f].items) : x.op = "server root"}} : f \in DOMAIN h.files}

\* Main files and includes name files, what is configured names certificates,
\* and bindings are filed under certificates of stores that there are.
ASSUME ConfigurationsAssumption ==
  \A h \in Hosts :
    /\ IsFiniteSet(DOMAIN h.files)
    /\ h.mains \in Seq([server : {"nginx", "apache"}, file : DOMAIN h.files])
    /\ \A f \in DOMAIN h.files :
         /\ h.files[f].items \in Seq(ToSet(h.files[f].items))
         /\ \A x \in ToSet(h.files[f].items) :
              /\ x.op = "certificate" => x.value \in DOMAIN h.certs \cup {NoFile}
              /\ x.op = "include" =>
                   /\ {x.plain, x.hidden} \subseteq BOOLEAN /\ ~(x.plain /\ x.hidden)
                   /\ {"own"} \cup ServerRoots(h) \subseteq DOMAIN x.files
                   /\ \A r \in DOMAIN x.files : x.files[r] \in Seq(DOMAIN h.files)
    /\ \A c \in DOMAIN h.certs : h.certs[c] \in {"ok", "gone", "relative", "nothing", "unreadable"}
    /\ h.iis.state \in {"absent", "unreadable", "ok"}
    /\ h.iis.bindings \in Seq(ToSet(h.iis.bindings))
    /\ \A k \in DOMAIN h.iis.bound : h.iis.bound[k].store \in DOMAIN h.iis.stores

\* Of Hosts here [mains, files, certs, iis]: main files, what each file holds or
\* why it cannot be read, certificate files, and IIS (see IIS below).  A
\* certificate is "relative" when its server finds it under a directory of its own
\* and the agent, from where it runs, does not.  An include is "plain" without
\* wildcards, and "hidden" when the agent may not list what its pattern goes
\* through.
VARIABLES
  next,          \* the main file Collect has come to
  stack,         \* frames, the innermost last
  serverRoot,    \* what Apache's includes resolve against
  visited, opened, problems,  \* of the configReader
  sites,         \* parsed and not yet recorded: location and certificate
  observations, completed,    \* of the Result
  main           \* "waiting", "main files", "sites", "read", "returned"

readerVars == <<visited, opened, problems>>
resultVars == <<observations, completed, room, full>>
configVars == <<next, stack, serverRoot, readerVars, sites, observations, completed, main>>
vars == <<host, room, full, cancelled, storeVars, configVars>>

Init ==
  /\ host \in Hosts
  /\ next = 1 /\ stack = <<>> /\ serverRoot = "own"
  /\ visited = {} /\ opened = 0 /\ problems = {}
  /\ sites = <<>>
  /\ observations = <<>> /\ completed = TRUE
  /\ StoresInit
  /\ main = "waiting"

server == host.mains[next].server

-----------------------------------------------------------------------------
(* The sites of a tree.                                                    *)

Certificates(nodes) ==
  FoldLeft(LAMBDA q, n : IF n.op = "certificate" /\ n.value # NoFile THEN Append(q, n.value) ELSE q,
           <<>>, nodes)

\* The walks go down a level at a time: the file's, those of its sections, which
\* nest no deeper than there are sections, and past the last.
Node(op, f, value, children) == [op |-> op, file |-> f, value |-> value, children |-> children]
Nesting ==
  2 + Cardinality(UNION {{<<f, i>> : i \in {i \in DOMAIN host.files[f].items :
                                          host.files[f].items[i].op \in {"section", "server", "upstream"}}} :
                         f \in DOMAIN host.files})
Levels == [k \in 1..Nesting |-> k]

\* Apache's names may stand in sections of the site's own; its certificates, and
\* all of nginx's, may not.
Opened(q, n) == IF n.children = <<>> THEN Append(q, n) ELSE q \o n.children
NamesOf(srv, nodes) ==
  LET flat == IF srv = "apache" THEN FoldLeft(LAMBDA q, k : FoldLeft(Opened, <<>>, q), nodes, Levels) ELSE nodes
      names == SelectSeq(flat, LAMBDA n : n.op = "name")
  IN [i \in DOMAIN names |-> names[i].value]

PrimaryName(names) ==
  LET plain == SelectSeq(names, LAMBDA n : n \notin Wildcards)
  IN IF plain # <<>> THEN Head(plain) ELSE IF names # <<>> THEN Head(names) ELSE "default"


\* nginxServer, apacheVirtualHost: its own certificates, or those it inherits.
Site(srv, node, level) ==
  LET own == Certificates(node.children)
  IN [location |-> <<node.file, PrimaryName(NamesOf(srv, node.children))>>,
      certs |-> IF own # <<>> THEN own ELSE level, node |-> node]

\* walkNginx, walkApache: a level's certificates are known before its sites,
\* wherever on the level they stand.  A server is one by its name alone, so a
\* `server` of an upstream passes for a site.
Inside(x) ==
  LET level == x.level \o Certificates(x.node.children)
  IN [k \in DOMAIN x.node.children |-> [node |-> x.node.children[k], level |-> level]]
Entered(q, x) == q \o IF x.node.op = "server" THEN <<x>> ELSE Inside(x)
SitesIn(srv, nodes) ==
  LET top == <<[node |-> Node("section", "", "", nodes), level |-> <<>>]>>
      found == FoldLeft(LAMBDA q, k : FoldLeft(Entered, <<>>, q), top, Levels)
  IN [i \in DOMAIN found |-> Site(srv, found[i].node, found[i].level)]

\* One entry per certificate of each site, in order.
Placed(q, site) == q \o [k \in DOMAIN site.certs |-> [location |-> site.location, cert |-> site.certs[k]]]
Placements(srv, nodes) == FoldLeft(Placed, <<>>, SitesIn(srv, nodes))

-----------------------------------------------------------------------------
(* Reading.                                                                *)

File(f) == host.files[f]
Frame(f, op, pos, depth) == [file |-> f, op |-> op, pos |-> pos, depth |-> depth, nodes |-> <<>>, todo |-> <<>>]

Top == Last(stack)
Under == Front(stack)
SetTop(frame) == stack' = Append(Under, frame)
Added(frame, nodes) == [frame EXCEPT !.nodes = @ \o nodes]

\* The innermost frame has come to an item, or to the end of its file.
Reading == main = "main files" /\ stack # <<>> /\ Top.todo = <<>>
AtEnd == Top.pos > Len(File(Top.file).items)
Item == File(Top.file).items[Top.pos]
Come(ops) == Reading /\ ~AtEnd /\ Item.op \in ops

\* configReader.read: refused and noted, passed over, or to be taken.
Refused(f) ==
  /\ f \notin visited
  /\ opened >= MaxFiles \/ File(f).state \in {"missing", "unreadable", "large"}
PassedOver(f) == f \in visited \/ (opened < MaxFiles /\ File(f).state = "directory")

Read(f) ==
  /\ visited' = visited \cup {f}
  /\ opened' = opened + (IF Refused(f) \/ PassedOver(f) THEN 0 ELSE 1)
  /\ problems' = problems \cup IF Refused(f) THEN {f} ELSE {}

\* runWithin: a source is not run when the run has refused something.
Start ==
  /\ stores = "returned" /\ main = "waiting"
  /\ IF full THEN main' = "returned" /\ completed' = FALSE
     ELSE main' = "main files" /\ UNCHANGED completed
  /\ UNCHANGED <<host, room, full, cancelled, storeVars, next, stack, serverRoot, readerVars, sites, observations>>

\* A main file that is not there: this server is not installed.
Absent ==
  /\ main = "main files" /\ stack = <<>> /\ next <= Len(host.mains) /\ ~cancelled
  /\ File(host.mains[next].file).state = "missing"
  /\ next' = next + 1
  /\ UNCHANGED <<host, storeVars, stack, serverRoot, readerVars, sites, resultVars, cancelled, main>>

\* A new reader for each main file, which is read like any other.
Begin ==
  /\ main = "main files" /\ stack = <<>> /\ next <= Len(host.mains) /\ ~cancelled
  /\ LET f == host.mains[next].file
     IN /\ File(f).state # "missing"
        /\ visited' = {f} /\ serverRoot' = "own"
        /\ opened' = IF File(f).state = "ok" THEN 1 ELSE 0
        /\ problems' = IF File(f).state \in {"unreadable", "large"} THEN {f} ELSE {}
        /\ IF File(f).state = "ok"
           THEN stack' = <<Frame(f, "file", 1, 0)>> /\ UNCHANGED <<next, completed>>
           ELSE /\ next' = next + 1 /\ completed' = (completed /\ problems' = {})
                /\ UNCHANGED stack
  /\ UNCHANGED <<host, storeVars, sites, observations, room, full, cancelled, main>>

Directive ==
  /\ Come({"certificate", "name", "upstream"})
  /\ SetTop([Added(Top, <<IF Item.op = "upstream"
                          THEN Node("section", Top.file, "", <<Node("server", Top.file, "", <<>>)>>)
                          ELSE Node(Item.op, Top.file, Item.value, <<>>)>>) EXCEPT !.pos = @ + 1])
  /\ UNCHANGED <<host, storeVars, next, serverRoot, readerVars, sites, resultVars, cancelled, main>>

ServerRoot ==
  /\ Come({"server root"})
  /\ serverRoot' = Item.value
  /\ SetTop([Top EXCEPT !.pos = @ + 1])
  /\ UNCHANGED <<host, storeVars, next, readerVars, sites, resultVars, cancelled, main>>

\* expand: what a pattern names depends on the root for Apache, and it names
\* nothing where the agent may not look; a plain path that names nothing is
\* noted, and a pattern is not.
Include ==
  /\ Come({"include"})
  /\ LET files == IF Item.hidden THEN <<>> ELSE Item.files[IF server = "apache" THEN serverRoot ELSE "own"]
     IN /\ SetTop([Top EXCEPT !.pos = @ + 1, !.todo = files])
        /\ problems' = problems \cup IF files = <<>> /\ Item.plain THEN {Top.file} ELSE {}
  /\ UNCHANGED <<host, storeVars, next, serverRoot, visited, opened, sites, resultVars, cancelled, main>>

Section ==
  /\ Come({"server", "section"})
  /\ stack' = Append(stack, Frame(Top.file, Item.op, Top.pos + 1, Top.depth))
  /\ UNCHANGED <<host, storeVars, next, serverRoot, readerVars, sites, resultVars, cancelled, main>>

\* A section ends with its brace, or with the file.
EndSection ==
  /\ Reading /\ Top.op # "file"
  /\ AtEnd \/ Come({"end"})
  /\ LET outer == Last(Under)
         pos == IF AtEnd THEN Top.pos ELSE Top.pos + 1
     IN stack' = Append(Front(Under),
                   [Added(outer, <<Node(Top.op, Top.file, "", Top.nodes)>>) EXCEPT !.pos = pos])
  /\ UNCHANGED <<host, storeVars, next, serverRoot, readerVars, sites, resultVars, cancelled, main>>

\* The main file is read: its sites, and whether anything was not seen.
Parsed(nodes) ==
  /\ stack' = <<>>
  /\ completed' = (completed /\ problems = {})
  /\ sites' = Placements(server, nodes)
  /\ IF sites' = <<>> THEN next' = next + 1 /\ UNCHANGED main ELSE main' = "sites" /\ UNCHANGED next

\* A file ends at its end, or at a brace that closes nothing.
EndFile ==
  /\ Reading /\ Top.op = "file"
  /\ AtEnd \/ Come({"end"})
  /\ IF Under = <<>> THEN Parsed(Top.nodes)
     ELSE /\ stack' = Append(Front(Under), Added(Last(Under), Top.nodes))
          /\ UNCHANGED <<next, completed, sites, main>>
  /\ UNCHANGED <<host, storeVars, serverRoot, readerVars, observations, room, full, cancelled>>

\* A mutant of Broken: what an included file could not say is not noted.
BrokenQuietly ==
  /\ Come({"broken"})
  /\ LET here == Max({i \in DOMAIN stack : stack[i].op = "file"})
     IN IF here = 1
        THEN stack' = <<>> /\ next' = next + 1 /\ completed' = FALSE /\ UNCHANGED problems
        ELSE stack' = SubSeq(stack, 1, here - 1) /\ UNCHANGED <<next, completed, problems>>
  /\ UNCHANGED <<host, storeVars, serverRoot, visited, opened, sites, observations, room, full, cancelled, main>>

\* A block without a directive: nothing of its file is kept.
Broken ==
  /\ Come({"broken"})
  /\ LET here == Max({i \in DOMAIN stack : stack[i].op = "file"})
     IN IF here = 1
        THEN stack' = <<>> /\ next' = next + 1 /\ completed' = FALSE /\ UNCHANGED problems
        ELSE /\ stack' = SubSeq(stack, 1, here - 1)
             /\ problems' = problems \cup {stack[here].file}
             /\ UNCHANGED <<next, completed>>
  /\ UNCHANGED <<host, storeVars, serverRoot, visited, opened, sites, observations, room, full, cancelled, main>>

\* A mutant of Splice: an include too many.
SpliceDeeper ==
  /\ main = "main files" /\ stack # <<>> /\ Top.todo # <<>>
  /\ LET f == Head(Top.todo)
         rest == [Top EXCEPT !.todo = Tail(@)]
     IN IF Top.depth > MaxDepth
        THEN SetTop(rest) /\ problems' = problems \cup {f} /\ UNCHANGED <<visited, opened>>
        ELSE /\ Read(f)
             /\ stack' = Append(Under, rest)
                           \o IF Refused(f) \/ PassedOver(f) THEN <<>> ELSE <<Frame(f, "file", 1, Top.depth + 1)>>
  /\ UNCHANGED <<host, storeVars, next, serverRoot, sites, resultVars, cancelled, main>>

\* The next file of the include at hand.
Splice ==
  /\ main = "main files" /\ stack # <<>> /\ Top.todo # <<>>
  /\ LET f == Head(Top.todo)
         rest == [Top EXCEPT !.todo = Tail(@)]
     IN IF Top.depth + 1 > MaxDepth
        THEN SetTop(rest) /\ problems' = problems \cup {f} /\ UNCHANGED <<visited, opened>>
        ELSE /\ Read(f)
             /\ stack' = Append(Under, rest)
                           \o IF Refused(f) \/ PassedOver(f) THEN <<>> ELSE <<Frame(f, "file", 1, Top.depth + 1)>>
  /\ UNCHANGED <<host, storeVars, next, serverRoot, sites, resultVars, cancelled, main>>

-----------------------------------------------------------------------------
(* Recording.                                                              *)

\* The run's limit on observations.  A chain that there was no time to work out
\* makes the sweep incomplete (noteShortfall).
Observe(o) ==
  IF full \/ room = 0
  THEN full' = TRUE /\ completed' = FALSE /\ UNCHANGED <<observations, room>>
  ELSE /\ observations' = Append(observations, o) /\ room' = room - 1 /\ UNCHANGED full
       /\ completed' \in {completed, completed /\ ~cancelled}

\* A mutant of RecordSite: any failure to read spoils the sweep.
RecordSiteStrictly ==
  /\ main = "sites"
  /\ LET s == Head(sites)
     IN CASE host.certs[s.cert] = "ok" -> Observe([location |-> s.location, cert |-> s.cert])
          [] host.certs[s.cert] = "nothing" -> UNCHANGED resultVars
          [] OTHER -> completed' = FALSE /\ UNCHANGED <<observations, room, full>>
  /\ sites' = Tail(sites)
  /\ IF sites' = <<>> THEN main' = "main files" /\ next' = next + 1 ELSE UNCHANGED <<main, next>>
  /\ UNCHANGED <<host, storeVars, stack, serverRoot, readerVars, cancelled>>

\* record: a file that is gone or holds no certificate was seen to be so, a
\* relative path is taken from where the agent runs, and one that cannot be read
\* was not seen.
RecordSite ==
  /\ main = "sites"
  /\ LET s == Head(sites)
     IN CASE host.certs[s.cert] = "ok" -> Observe([location |-> s.location, cert |-> s.cert])
          [] host.certs[s.cert] \in {"gone", "relative", "nothing"} -> UNCHANGED resultVars
          [] OTHER -> completed' = FALSE /\ UNCHANGED <<observations, room, full>>
  /\ sites' = Tail(sites)
  /\ IF sites' = <<>> THEN main' = "main files" /\ next' = next + 1 ELSE UNCHANGED <<main, next>>
  /\ UNCHANGED <<host, storeVars, stack, serverRoot, readerVars, cancelled>>

-----------------------------------------------------------------------------
(* IIS: applicationHost.config names the sites, HTTP.sys the thumbprint of *)
(* each binding, a certificate store the certificate.                      *)

\* The names a binding may be filed under, most specific first.
RegistryKeys(b) ==
  IF b.host # "" THEN <<<<b.address, b.host>>, <<"any", b.host>>, <<b.address, "">>>>
  ELSE <<<<b.address, "">>, <<"any", "">>>>

\* readSSLBindings passes over a key it may not open.
KeysRead(iis) == DOMAIN iis.bound \ iis.locked

\* lookupBinding among the keys that were read.
Filed(iis, b) ==
  LET at == {i \in DOMAIN RegistryKeys(b) : RegistryKeys(b)[i] \in KeysRead(iis)}
  IN IF at = {} THEN <<>> ELSE <<iis.bound[RegistryKeys(b)[Min(at)]]>>

\* certificatesByThumbprint: from every store that a binding names.
StoresNamed(iis) == {iis.bound[k].store : k \in KeysRead(iis)}
Fetched(iis) == UNION {iis.stores[s].certs : s \in {s \in StoresNamed(iis) : iis.stores[s].readable}}

Presented(iis, b) == Filed(iis, b) # <<>> /\ Filed(iis, b)[1].cert \in Fetched(iis)
IISObservations(iis) ==
  FoldLeft(LAMBDA q, b : IF Presented(iis, b)
                         THEN Append(q, [location |-> <<"IIS", b.site>>, cert |-> Filed(iis, b)[1].cert])
                         ELSE q,
           <<>>, iis.bindings)

\* A binding without a certificate was seen to be so; one whose certificate is
\* in no store that could be read was not seen.
IISComplete(iis) ==
  /\ \A s \in StoresNamed(iis) : iis.stores[s].readable
  /\ \A i \in DOMAIN iis.bindings :
       Filed(iis, iis.bindings[i]) = <<>> \/ Filed(iis, iis.bindings[i])[1].cert \in Fetched(iis)

IIS ==
  /\ main = "main files" /\ stack = <<>> /\ next > Len(host.mains)
  /\ main' = "read"
  /\ CASE host.iis.state = "absent" \/ (host.iis.state = "ok" /\ host.iis.bindings = <<>>) -> UNCHANGED resultVars
       [] host.iis.state = "unreadable" -> completed' = FALSE /\ UNCHANGED <<observations, room, full>>
       [] OTHER ->
            LET q == IISObservations(host.iis)
                n == IF full THEN 0 ELSE IF Len(q) > room THEN room ELSE Len(q)
            IN /\ observations' = observations \o SubSeq(q, 1, n) /\ room' = room - n
               /\ full' = (full \/ n < Len(q))
               /\ completed' = (completed /\ IISComplete(host.iis) /\ n = Len(q))
  /\ UNCHANGED <<host, storeVars, next, stack, serverRoot, readerVars, sites, cancelled>>

Return ==
  /\ main = "read"
  /\ main' = "returned"
  /\ UNCHANGED <<host, storeVars, next, stack, serverRoot, readerVars, sites, resultVars, cancelled>>

Stop ==
  /\ main = "main files" /\ stack = <<>> /\ next <= Len(host.mains) /\ cancelled
  /\ completed' = FALSE /\ main' = "returned"
  /\ UNCHANGED <<host, storeVars, next, stack, serverRoot, readerVars, sites, observations, room, full, cancelled>>

Cancel ==
  /\ ~cancelled /\ main # "returned"
  /\ cancelled' = TRUE
  /\ UNCHANGED <<host, storeVars, next, stack, serverRoot, readerVars, sites, resultVars, main>>

Parse == Directive \/ ServerRoot \/ Include \/ Section \/ EndSection \/ EndFile \/ Broken \/ Splice

Collect == Start \/ Absent \/ Begin \/ Parse \/ RecordSite \/ IIS \/ Return \/ Stop

Next == Collect \/ Cancel \/ (StoresNext /\ UNCHANGED configVars)

Spec == Init /\ [][Next]_vars

-----------------------------------------------------------------------------
(* Properties.                                                             *)

\* Every variable keeps its shape, no reader opens more files than the bound
\* or a frame deeper than it, and no more is recorded than the run has room
\* for (read, nginxParseFile, observe).
TypeOK ==
  /\ main \in {"waiting", "main files", "sites", "read", "returned"}
  /\ next \in 1..(Len(host.mains) + 1)
  /\ \A k \in DOMAIN stack : /\ stack[k].op \in {"file", "server", "section"}
                             /\ stack[k].depth \in 0..MaxDepth
  /\ visited \cup problems \subseteq DOMAIN host.files
  /\ opened \in 0..MaxFiles
  /\ room \in 0..Room /\ room = Room - Len(observations) - Len(inStores)
  /\ {completed, full, cancelled} \subseteq BOOLEAN

\* What may be read for a main file: the files that includes of those read name,
\* whatever the server root is when they do.
Roots(h, m) == {"own"} \cup IF m.server = "apache" THEN ServerRoots(h) ELSE {}
Includes(h, f) == {x \in ToSet(h.files[f].items) : x.op = "include"}
Names(h, m, f) == UNION {UNION {ToSet(x.files[r]) : r \in Roots(h, m)} : x \in Includes(h, f)}
Reached(h, m) ==
  {g \in DOMAIN h.files :
     \A s \in SUBSET DOMAIN h.files : m.file \in s /\ (\A f \in s : Names(h, m, f) \subseteq s) => g \in s}

\* Files, each of which names the next and none of which comes twice, too many
\* for another to be read below them.
TooDeep(h, m) ==
  \E chain \in [0..MaxDepth -> Reached(h, m)] :
    /\ chain[0] = m.file /\ Names(h, m, chain[MaxDepth]) # {}
    /\ \A i, j \in 0..MaxDepth : chain[i] = chain[j] => i = j
    /\ \A i \in 1..MaxDepth : chain[i] \in Names(h, m, chain[i - 1])

\* What cannot be seen for a main file.
Unseen(h, m) ==
  \/ Cardinality(Reached(h, m)) > MaxFiles
  \/ TooDeep(h, m)
  \/ \E f \in Reached(h, m) :
       \/ h.files[f].state \in {"unreadable", "large"} \/ (f # m.file /\ h.files[f].state = "missing")
       \/ \E x \in ToSet(h.files[f].items) : x.op = "broken"
       \/ \E x \in Includes(h, f) : x.plain /\ \E r \in Roots(h, m) : x.files[r] = <<>>

\* What was seen not to be there spoils nothing: a certificate file that is gone
\* or holds none, a pattern that matches nothing, a server that is not installed,
\* a binding without a certificate, a directory, a loop (record, expand, read).
SeenToBeGoneSpoilsNothing ==
  main = "returned" /\ ~completed =>
    \/ cancelled \/ full
    \/ \E c \in DOMAIN host.certs : host.certs[c] = "unreadable"
    \/ host.iis.state = "unreadable"
    \/ \E s \in DOMAIN host.iis.stores : ~host.iis.stores[s].readable
    \/ \E k \in DOMAIN host.iis.bound : host.iis.bound[k].cert \notin host.iis.stores[host.iis.bound[k].store].certs
    \/ \E m \in ToSet(host.mains) : Unseen(host, m)
=============================================================================
