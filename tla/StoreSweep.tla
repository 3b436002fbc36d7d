----------------------------- MODULE StoreSweep -----------------------------
(***************************************************************************)
(* The os_store collector: the certificates that the operating system      *)
(* holds, in Windows stores or in macOS keychains.  There a certificate    *)
(* that the machine serves lies beside those that it merely trusts, and    *)
(* trustAnchor tells them apart.                                           *)
(*                                                                         *)
(* A store is what it is found to be ("absent", "denied", "broken off" or  *)
(* "ok") and a sequence of entries: a certificate, whether it says that it *)
(* is a CA, whether it is self-signed, whether the machine holds its key,  *)
(* whether macOS finds it valid, and whether Go can parse it.              *)
(***************************************************************************)
EXTENDS Integers, FiniteSets, SequencesExt

CONSTANTS
  Hosts,  \* what may be found; [os] here
  Room    \* observations the run still has room for

ASSUME RoomAssumption == Room \in Nat

\* A store that is read holds a list.
ASSUME StoresAssumption ==
  \A h \in Hosts :
    /\ h.os.stores \in Seq(ToSet(h.os.stores))
    /\ \A s \in ToSet(h.os.stores) :
         /\ s.state \in {"absent", "denied", "broken off", "ok"}
         /\ s.entries \in Seq(ToSet(s.entries))

VARIABLES
  host,       \* one of them; host.os: platform, stores, anchors (stores of trust anchors),
              \* and whether `security find-identity` answers
  room, full, \* what the run still takes, and that it refused something
  cancelled,  \* the context is done
  asked,      \* stores asked for
  held,       \* entries read and not yet looked at
  inStores,   \* the Result: what was observed ...
  storesSeen, \* ... and Completed
  stores      \* "reading", "recording", "returned"

storeVars == <<asked, held, inStores, storesSeen, stores>>

StoresInit ==
  /\ room = Room /\ full = FALSE /\ cancelled = FALSE
  /\ asked = 0 /\ held = <<>> /\ inStores = <<>> /\ storesSeen = TRUE
  /\ stores = "reading"

OS == host.os

-----------------------------------------------------------------------------
(* readOSStores.                                                           *)

\* Windows keeps with a certificate whether there is a key to it; on macOS
\* `security find-identity -v` knows it of what it finds valid, and when that fails
\* there is no key to any.
HasPrivateKey(os, e) == e.key /\ (os.platform = "darwin" => os.identities /\ e.valid)

\* No store that this agent can read, or the context ended between two.
NoStores ==
  /\ stores = "reading"
  /\ OS.platform = "linux" \/ (cancelled /\ asked < Len(OS.stores))
  /\ storesSeen' = FALSE /\ stores' = "returned"
  /\ UNCHANGED <<host, room, full, cancelled, asked, held, inStores>>

\* What is read of a store: an enumeration that breaks off ends like one that
\* is over, and what Go cannot parse is left out (on macOS, all that was printed,
\* when none of it can be).
Entry(os, s, e) ==
  [store |-> s.name, cert |-> e.cert, ca |-> e.ca, self |-> e.self, key |-> HasPrivateKey(os, e)]
Entries(os, s) ==
  LET upTo == IF s.state = "broken off" THEN Len(s.entries) \div 2 ELSE Len(s.entries)
  IN FoldLeft(LAMBDA q, e : IF e.parses THEN Append(q, Entry(os, s, e)) ELSE q, <<>>, SubSeq(s.entries, 1, upTo))

\* A mutant of Failed: a store that is not there was never there.
AbsentAtMost(s) == s.state = "denied" /\ OS.platform = "windows"

\* A store that would not open; on Windows one that is not there need not be.
Failed(s) == s.state = "denied" \/ (s.state = "absent" /\ OS.platform = "darwin")

ReadStore ==
  /\ stores = "reading" /\ OS.platform # "linux" /\ ~cancelled /\ asked < Len(OS.stores)
  /\ asked' = asked + 1
  /\ LET s == OS.stores[asked']
     IN IF s.state \in {"absent", "denied"}
        THEN storesSeen' = (storesSeen /\ ~Failed(s)) /\ UNCHANGED held
        ELSE held' = held \o Entries(OS, s) /\ UNCHANGED storesSeen
  /\ UNCHANGED <<host, room, full, cancelled, inStores, stores>>

AllRead ==
  /\ stores = "reading" /\ OS.platform # "linux" /\ asked = Len(OS.stores)
  /\ stores' = "recording"
  /\ UNCHANGED <<host, room, full, cancelled, asked, held, inStores, storesSeen>>

-----------------------------------------------------------------------------
(* OSStore.Collect.                                                        *)

\* Something that the machine believes, not something that it serves.
TrustAnchor(e) == e.store \in OS.anchors \/ e.ca \/ (e.self /\ ~e.key)

\* The first entry that the run refuses is the last to be looked at.
RecordEntry ==
  /\ stores = "recording" /\ held # <<>>
  /\ LET e == Head(held)
     IN IF TrustAnchor(e) THEN held' = Tail(held) /\ UNCHANGED <<room, full, inStores, storesSeen>>
        ELSE IF full \/ room = 0
        THEN full' = TRUE /\ storesSeen' = FALSE /\ held' = <<>> /\ UNCHANGED <<room, inStores>>
        ELSE /\ room' = room - 1 /\ inStores' = Append(inStores, <<e.store, e.cert>>)
             /\ held' = Tail(held) /\ UNCHANGED <<full, storesSeen>>
  /\ UNCHANGED <<host, cancelled, asked, stores>>

StoresReturn ==
  /\ stores = "recording" /\ held = <<>>
  /\ stores' = "returned"
  /\ UNCHANGED <<host, room, full, cancelled, asked, held, inStores, storesSeen>>

StoresNext == NoStores \/ ReadStore \/ AllRead \/ RecordEntry \/ StoresReturn

-----------------------------------------------------------------------------
(* Properties.                                                             *)

\* What the machine serves, or could: not a CA's certificate, and a self-signed
\* one only with its key.
Served(os) ==
  UNION {{<<s.name, e.cert>> : e \in {e \in ToSet(s.entries) : ~e.ca /\ (e.self => e.key)}} :
           s \in {s \in ToSet(os.stores) : s.state # "absent" /\ s.name \notin os.anchors}}

\* What the code is known to lose in silence: the rest of a store whose
\* enumeration broke off, and what Go cannot parse ...
Unread(os) ==
  UNION {{<<s.name, e.cert>> : e \in {e \in ToSet(s.entries) : s.state = "broken off" \/ ~e.parses}} :
           s \in ToSet(os.stores)}

\* ... and on macOS the self-signed certificates whose key it does not learn of,
\* because the keys could not be asked for or the identity is not found valid.
Keyless(os) ==
  UNION {{<<s.name, e.cert>> : e \in {e \in ToSet(s.entries) : e.self /\ ~HasPrivateKey(os, e)}} :
           s \in ToSet(os.stores)}

Stored == UNION {UNION {{s.name} \X {e.cert : e \in ToSet(s.entries)} : s \in ToSet(h.os.stores)} : h \in Hosts}

\* os_store says complete only when it has reported every certificate that the
\* machine serves, of every store it was to read, wherever it is cancelled and
\* whatever the run refuses (OSStore.Collect, readOSStores).
StoresSweep == INSTANCE Sweep WITH
       Finding <- Stored,
       owed <- Served(OS) \ (Unread(OS) \cup Keyless(OS)),
       reported <- ToSet(inStores),
       said <- IF stores # "returned" THEN "nothing"
               ELSE IF storesSeen THEN "complete" ELSE "incomplete"
StoresImplementSweep == StoresSweep!Spec
=============================================================================
