---------------------------- MODULE MCReportRun ----------------------------
(***************************************************************************)
(* Instances of ReportRun for TLC: constants only.  One run of all the     *)
(* sources: a file f1, a configured site c1, a listener's default          *)
(* certificate l0 and a certificate l1 it serves only to c1's name.  Two   *)
(* overlapping runs: two files.                                            *)
(***************************************************************************)
EXTENDS ReportRun, TLC

CONSTANTS f1, f2, c1, l0, l1

FullHost == (f1 :> "file") @@ (c1 :> "server_config")
              @@ (l0 :> "listener") @@ (l1 :> "listener")
NamedSite == [x \in Placement |-> IF x = l1 THEN {c1} ELSE {}]
FilesOnHost == [x \in Placement |-> "file"]
NoNames == [x \in Placement |-> {}]

\* In the instances' byte limit of 4 not everything fits with a file of 2.
Sizes == [x \in Placement |-> IF x \in {f1, f2} THEN 2 ELSE 1]

Everything == {Placement}
Narrowed == {Placement, Placement \ {f1}}
NoneOrOne == {{}, {"file"}, {"server_config"}}
OnlyConfigOff == {{"server_config"}}
AllButFiles == {Source \ {"file"}}

Symmetry == Permutations(Run)
=============================================================================
