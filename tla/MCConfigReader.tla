-------------------------- MODULE MCConfigReader --------------------------
(***************************************************************************)
(* An instance of ConfigReader and ConfigServes for TLC: constants only.   *)
(***************************************************************************)
EXTENDS ConfigServes, TLC

CONSTANTS noFile

X(op, value) == [op |-> op, value |-> value]
Cert(c) == X("certificate", c)
Name(n) == X("name", n)
Open(op) == X(op, "")
End == X("end", "")
Inc(files, plain) ==
  [op |-> "include", value |-> "", plain |-> plain, hidden |-> FALSE, files |-> [r \in {"own", "etc"} |-> files]]
IncEtc(files) == [Inc(files, FALSE) EXCEPT !.files = "own" :> <<>> @@ "etc" :> files]
IncHidden(files) == [Inc(files, FALSE) EXCEPT !.hidden = TRUE]
Ok(items) == [state |-> "ok", items |-> items]
SiteBlock(name, items) == <<Open("server"), Name(name)>> \o items \o <<End>>

\* What each file and certificate is found to be, as far as it matters.
Say(files, f, state) ==
  [files EXCEPT ![f] = [state |-> state, items |-> IF state \in {"directory", "missing"} THEN <<>> ELSE @.items]]
States == {"ok", "unreadable", "large", "directory", "missing"}
Certs(a, b) == [c \in {"cH", "c1", "c2"} |-> CASE c = "c1" -> a [] c = "c2" -> b [] OTHER -> "ok"]
CertStates == {"ok", "gone", "relative", "nothing", "unreadable"}

NoIIS == [state |-> "absent", bindings |-> <<>>, bound |-> <<>>, locked |-> {}, stores |-> <<>>]
Linux == [platform |-> "linux", stores |-> <<>>, anchors |-> {}, identities |-> FALSE]
Host(srv, files, certs) ==
  [mains |-> <<[server |-> srv, file |-> "main"]>>, files |-> files, certs |-> certs, iis |-> NoIIS, os |-> Linux]

\* sites-enabled: two sites, one with a snippet, under a level with a certificate.
Debian ==
  LET files == "main" :> Ok(<<Open("section"), Inc(<<"a", "b">>, FALSE), Cert("cH"), End>>)
            @@ "a" :> Ok(SiteBlock("www", <<Cert("c1")>>) \o SiteBlock("*", <<>>))
            @@ "b" :> Ok(SiteBlock("*", <<Name("alt"), Inc(<<"s">>, TRUE)>>))
            @@ "s" :> Ok(<<Cert("c2"), Cert(noFile)>>)
  IN {Host("nginx", Say(Say(Say(files, "a", sa), "b", sb), "s", ss), Certs(ca, cb)) :
        sa \in {"ok", "directory", "large"}, sb \in {"ok", "missing"}, ss \in States,
        ca \in CertStates, cb \in CertStates}

\* ServerRoot above the main file's directory; names in a section of the site.
RedHat ==
  LET v == <<Open("section")>> \o SiteBlock("www", <<Cert("c1"), Cert("c2")>>)
             \o <<Open("server"), Open("section"), Name("alt"), End, End, End>>
      files(first) == "main" :> Ok(first \o <<IncEtc(<<"v">>), Cert("cH")>>) @@ "v" :> Ok(v)
  IN {Host("apache", Say(files(first), "v", sv), Certs(ca, "ok")) :
        first \in {<<>>, <<X("server root", "etc")>>}, sv \in States, ca \in CertStates}

\* Loops, depth, too many files, includes that match nothing, upstreams.
Shapes ==
  {Host("nginx", files, Certs("ok", "ok")) : files \in
     {"main" :> Ok(<<Inc(<<"main", "a">>, FALSE)>> \o SiteBlock("www", <<Cert("c1")>>)) @@ "a" :> Ok(<<Inc(<<"main">>, TRUE), Cert("cH")>>),
      "main" :> Ok(<<Inc(<<"a">>, TRUE)>>) @@ "a" :> Ok(<<Inc(<<"b">>, TRUE)>>)
        @@ "b" :> Ok(<<Inc(<<"s">>, TRUE)>>) @@ "s" :> Ok(SiteBlock("www", <<Cert("c1")>>)),
      "main" :> Ok(<<Inc(<<"a", "b", "s">>, FALSE)>>) @@ "a" :> Ok(SiteBlock("www", <<Cert("c1")>>))
        @@ "b" :> Ok(SiteBlock("alt", <<Cert("c2")>>)) @@ "s" :> Ok(<<Inc(<<>>, FALSE), Cert("cH")>> \o SiteBlock("*", <<>>)),
      "main" :> Ok(<<Inc(<<"a", "b", "s", "t">>, FALSE)>>) @@ "a" :> Ok(<<>>) @@ "b" :> Ok(<<>>)
        @@ "s" :> Ok(<<>>) @@ "t" :> Ok(SiteBlock("www", <<Cert("c1")>>)),
      "main" :> Ok(<<Inc(<<>>, TRUE)>> \o SiteBlock("www", <<Cert("c1"), Open("section"), End>>)),
      "main" :> Ok(<<Cert("c1"), X("upstream", "")>> \o SiteBlock("www", <<Cert("c2")>>)),
      "main" :> Ok(<<Inc(<<"a">>, TRUE)>> \o SiteBlock("www", <<Cert("c1")>>)) @@ "a" :> Ok(<<Cert("c2"), X("broken", "")>> \o SiteBlock("alt", <<>>)),
      "main" :> Ok(<<Open("section"), X("broken", "")>> \o SiteBlock("www", <<Cert("c1")>>)),
      "main" :> Ok(<<Inc(<<"a", "b">>, TRUE)>> \o SiteBlock("www", <<>>)) @@ "a" :> Ok(<<Open("section"), Cert("c1")>>)
        @@ "b" :> Ok(<<End, Cert("c2")>>),
      "main" :> Ok(FlattenSeq([i \in 1..4 |-> SiteBlock(<<"www", "alt", "own", "*">>[i], <<Cert("c1")>>)])),
      "main" :> Ok(<<End, Cert("c1")>>), "main" :> [state |-> "missing", items |-> <<>>],
      "main" :> [state |-> "unreadable", items |-> SiteBlock("www", <<Cert("c1")>>)],
      "main" :> [state |-> "directory", items |-> <<>>]}}

\* A site whose own certificate is no file, below a level with one.
PathlessSites ==
  {Host(srv, "main" :> Ok(<<Open("section"), Cert("cH")>> \o SiteBlock("www", <<Cert(noFile)>>)
                          \o SiteBlock("alt", <<>>) \o SiteBlock("own", <<Cert("c1")>>) \o <<End>>),
        Certs("ok", "ok")) : srv \in {"nginx", "apache"}}

\* An include over a directory that the agent may not list, of sites or within one.
UnlistedIncludes ==
  {Host("nginx", "main" :> Ok(<<Cert("cH"), IncHidden(<<"a">>)>> \o SiteBlock("alt", <<Inc(<<"b">>, TRUE)>>)
                               \o SiteBlock("*", <<x>>))
             @@ "a" :> Ok(SiteBlock("www", <<Cert("c1")>>)) @@ "b" :> Ok(<<Cert("c2")>>)
             @@ "s" :> Ok(<<Cert("c1")>>), Certs("ok", "ok")) : x \in {Name("own"), IncHidden(<<"s">>)}}

\* One snippet in two sites, beside a site of its own.
Shared ==
  {Host("nginx", "main" :> Ok(top \o SiteBlock("www", <<Inc(<<"s">>, TRUE)>>) \o SiteBlock("alt", <<Inc(<<"s">>, TRUE)>>)
                                 \o SiteBlock("own", <<Cert("c2")>>))
             @@ "s" :> Ok(<<Cert("c1")>>), Certs("ok", "ok")) : top \in {<<>>, <<Cert("cH")>>}}

Both ==
  {[mains |-> <<[server |-> "nginx", file |-> "main"], [server |-> "apache", file |-> "httpd"]>>,
    files |-> "main" :> Ok(SiteBlock("www", <<Cert("c1")>>)) @@ "httpd" :> Ok(SiteBlock("alt", <<Cert("c2")>>) \o SiteBlock("own", <<Cert("c1")>>)),
    certs |-> Certs(ca, "ok"), iis |-> NoIIS, os |-> Linux] : ca \in {"ok", "gone"}}

\* Two sites behind one address, filed by host, by address or not at all, in two
\* stores.
Binding(site, host_) == [site |-> site, address |-> "ip", host |-> host_]
Windows ==
  {[mains |-> <<[server |-> "nginx", file |-> "main"]>>,
    files |-> "main" :> nginx, certs |-> Certs("ok", "ok"), os |-> Linux,
    iis |-> [state |-> state, bindings |-> bindings, bound |-> [k \in keys |-> table[k]], locked |-> locked \cap keys,
             stores |-> [s \in {"MY", "WebHosting"} |->
               [readable |-> s = "MY" \/ readable, certs |-> IF s = "MY" THEN mine ELSE {"c2"}]]]] :
     nginx \in {[state |-> "missing", items |-> <<>>], Ok(SiteBlock("own", <<Cert("c1")>>))},
     state \in {"ok", "unreadable"}, readable \in BOOLEAN, mine \in {{"cH", "c1"}, {"cH"}},
     bindings \in {<<>>, <<Binding("shop", "www"), Binding("wiki", "alt"), Binding("bare", "")>>},
     keys \in SUBSET {<<"ip", "www">>, <<"any", "alt">>, <<"ip", "">>, <<"any", "">>},
     locked \in {{}, {<<"ip", "www">>}},
     table \in {<<"ip", "www">> :> [cert |-> "c1", store |-> "MY"] @@ <<"any", "alt">> :> [cert |-> "c2", store |-> "WebHosting"]
             @@ <<"ip", "">> :> [cert |-> "cH", store |-> "MY"] @@ <<"any", "">> :> [cert |-> "c2", store |-> "WebHosting"]}}

\* A store and a store of anchors: a certificate with its key, self-signed with
\* and without, a CA, a root without basicConstraints, one that does not parse.
StoreEntry(c, ca, self, key) == [cert |-> c, ca |-> ca, self |-> self, key |-> key, valid |-> TRUE, parses |-> TRUE]
Mine(parses) == <<StoreEntry("site", FALSE, FALSE, TRUE), StoreEntry("self", FALSE, TRUE, TRUE),
          [StoreEntry("untrusted", FALSE, TRUE, TRUE) EXCEPT !.valid = FALSE],
          StoreEntry("believed", FALSE, TRUE, FALSE), [StoreEntry("odd", FALSE, FALSE, TRUE) EXCEPT !.parses = parses],
          StoreEntry("ca", TRUE, TRUE, TRUE), StoreEntry("partner", FALSE, FALSE, FALSE)>>
WithStores(platform) ==
  {[mains |-> <<[server |-> "nginx", file |-> "main"]>>, files |-> "main" :> Ok(SiteBlock("www", <<Cert("c1")>>)),
    certs |-> Certs("ok", "ok"), iis |-> NoIIS,
    os |-> [platform |-> platform, identities |-> identities, anchors |-> {"Root"},
            stores |-> <<[name |-> "My", state |-> a, entries |-> SubSeq(Mine(parses), 1, n)],
                         [name |-> "Root", state |-> "ok", entries |-> <<StoreEntry("cross", FALSE, FALSE, FALSE)>>],
                         [name |-> "WebHosting", state |-> b, entries |-> <<StoreEntry("shop", FALSE, FALSE, TRUE)>>]>>]] :
     a \in {"ok", "denied", "absent"} \cup IF platform = "windows" THEN {"broken off"} ELSE {}, n \in {3, 7},
     b \in {"ok", "absent", "denied"}, parses \in BOOLEAN, identities \in {platform = "windows", TRUE}}

MCHosts == WithStores("windows") \cup WithStores("darwin") \cup Debian \cup RedHat \cup Shapes \cup PathlessSites
             \cup UnlistedIncludes \cup Shared \cup Both \cup Windows
=============================================================================
