---------------------------- MODULE MCFileWalk ----------------------------
(***************************************************************************)
(* An instance of FileWalk for TLC: constants only.                        *)
(***************************************************************************)
EXTENDS FileWalk

Certificate(name, issuer, key, by, ca, valid) ==
  [name |-> name, issuer |-> issuer, key |-> key, by |-> by, ca |-> ca, valid |-> valid]

\* A site's certificates, the second after a renewal, and another site's.
site  == Certificate("site", "int", "kS", "kI", "no", TRUE)
next  == Certificate("site", "int", "kN", "kI", "no", TRUE)
other == Certificate("other", "int", "kT", "kI", "no", FALSE)
\* Their issuer, the same from before basicConstraints, and one of its name.
int   == Certificate("int", "root", "kI", "kR", "yes", TRUE)
intV1 == Certificate("int", "root", "kI", "kR", "absent", TRUE)
decoy == Certificate("int", "root", "kD", "kR", "yes", TRUE)
\* The root, self-signed and under an older root that expired; and the older
\* root signed by the newer, a loop with the cross-signed one.
root  == Certificate("root", "root", "kR", "kR", "yes", TRUE)
rootV1 == Certificate("root", "root", "kR", "kR", "absent", TRUE)
cross == Certificate("root", "old", "kR", "kO", "yes", FALSE)
old   == Certificate("old", "old", "kO", "kO", "yes", FALSE)
back  == Certificate("old", "root", "kO", "kR", "yes", TRUE)
\* What `openssl req -x509` makes.
own   == Certificate("own", "own", "kW", "kW", "yes", TRUE)

CostOf == [k \in {"kS", "kN", "kT", "kI", "kD", "kR", "kO", "kW"} |-> IF k = "kD" THEN 3 ELSE 1]

Orders(C, n) == UNION {{q \in [1..k -> C] : \A i, j \in 1..k : q[i] = q[j] => i = j} : k \in 1..n}
Stores ==
  Orders({site, intV1, decoy, int}, 3) \cup Orders({intV1, root, cross, back}, 4)
    \cup Orders({site, int, root, cross, old}, 4)
    \cup {<<own>>, <<site, own>>, <<site, int, site>>, <<next, int, site, root>>, <<site, next, int, root, cross>>,
          <<site, other, int, next>>, <<site, int, cross, old, root>>,
          <<intV1, int, site, decoy>>, <<int, decoy, site, intV1>>}

Entry(tag, certs) == [tag |-> tag, certs |-> certs]
File(entries) == [kind |-> "file", named |-> TRUE, readable |-> TRUE, fit |-> TRUE, entries |-> entries]
Dir(nodes) == [kind |-> "dir", holds |-> nodes, readable |-> TRUE]

\* One file in one directory, its store in every order.
OneStore == {[source |-> "file", roots |-> <<<<1>>>>,
              nodes |-> <<Dir(<<2>>), File(<<Entry(tag, q)>>)>>] : q \in Stores, tag \in {"key", "trusted"}}

\* A keystore of three entries that share a budget.
Aliases == {Entry("trusted", <<root>>), Entry("key", <<own>>), Entry("key", <<site, int, root>>),
            Entry("key", <<>>), Entry("secret", <<>>), Entry("key", <<int, decoy, intV1>>),
            Entry("key", <<int, rootV1>>)}
OneKeystore == {[source |-> "java_keystore", roots |-> <<<<1>>>>,
                 nodes |-> <<Dir(<<2>>), File(<<a, b, c>>)>>] : a, b, c \in Aliases}

\* A tree deeper than the walk goes, reached through overlapping roots, one
\* of which is not there, with a link, a foreign file and what cannot be read.
Tree(src, roots, shut, unfit) ==
  LET pem(certs) == File(<<Entry("trusted", certs)>>)
      nodes == <<Dir(<<2, 3, 6>>), pem(<<site, next>>), Dir(<<4, 5, 7>>), pem(<<other>>),
                 [kind |-> "link"], [File(<<>>) EXCEPT !.named = FALSE], Dir(<<8>>), pem(<<site, int>>)>>
  IN [source |-> src, roots |-> roots,
      nodes |-> [n \in 1..8 |->
        IF n \in shut THEN [nodes[n] EXCEPT !.readable = FALSE]
        ELSE IF n \in unfit THEN [nodes[n] EXCEPT !.fit = FALSE] ELSE nodes[n]]]
Trees == {Tree(src, roots, shut, unfit) :
            src \in {"file", "java_keystore"}, shut \in SUBSET {1, 2, 3}, unfit \in SUBSET {4},
            roots \in {<<<<1>>, <<>>>>, <<<<1, 3>>, <<2>>>>, <<<<3, 7>>, <<>>, <<5>>>>, <<<<7>>, <<1>>, <<3>>>>}}

MCHosts == OneStore \cup OneKeystore \cup Trees
MCPatience == {Never} \cup 0..9
=============================================================================
