-------------------------------- MODULE MCIcon --------------------------------
(* The code's times, in an order and not to scale.                            *)
EXTENDS Icon

MCLimit == [p \in Phase \ {"failed"} |-> 2]
MCDue == [p \in Phase |-> 1]
MCLonger == [p \in {"pending", "scanning"} |-> 3]
=============================================================================
