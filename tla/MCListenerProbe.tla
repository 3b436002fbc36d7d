-------------------------- MODULE MCListenerProbe --------------------------
(***************************************************************************)
(* An instance of ListenerProbe for TLC: constants only.  IPs 1 and 4 are  *)
(* the two wildcards, 2 and 5 their loopbacks, 3 an address of the host.   *)
(***************************************************************************)
EXTENDS ListenerProbe, TLC

CONSTANTS certA, certB

Socket(ip, port) == [ip |-> ip, port |-> port]

Loopbacks == (1 :> 2) @@ (4 :> 5)

\* A listener in both families beside one on an address; three listeners, one
\* too many to probe.
HostTables == {<<Socket(3, 443), Socket(1, 443), Socket(4, 443)>>,
               <<Socket(3, 443), Socket(4, 8443), Socket(1, 443)>>}

\* Nothing of the table could be read, or the one of its two halves that has a
\* wildcard bind of the port that is guessed.
HalfTables == {<<>>, <<Socket(1, 443)>>}
Guessed == <<Socket(2, 443)>>
GivenPorts == {<<Socket(2, 8443), Socket(2, 443), Socket(2, 443)>>}

\* A database; an SSH daemon; a default site and two names, one of which draws
\* nothing, or is refused; one that refuses a client that names nobody.
Listeners == {<<"mute", "mute", "mute">>, <<"banner", "banner", "banner">>, <<certA, "mute", certB>>,
              <<certA, "refuses", certA>>, <<"refuses", certA, certB>>}
=============================================================================
