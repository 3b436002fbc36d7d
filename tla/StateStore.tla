----------------------------- MODULE StateStore -----------------------------
(***************************************************************************)
(* The state directory: agent.key, config.json and last-run.json, written  *)
(* and read by `dtp-agent enroll` and by cycles (the service's, and        *)
(* `dtp-agent run`), which may be killed at any point, find the disk full  *)
(* or a file held open, and lose power.                                    *)
(*                                                                         *)
(* Every file is replaced by a temporary one and a rename, so a process    *)
(* sees one whole file or another.  What a power failure leaves is another *)
(* matter: the rename may or may not have reached the disk, and what was   *)
(* written to the temporary file has for certain only if it was synced.    *)
(***************************************************************************)
EXTENDS Integers, FiniteSets

CONSTANTS
  Proc,       \* processes of the agent that may run at the same time
  Key,        \* keys it may generate; a config names the one it was given for
  Absent,     \* there is no such file
  Torn,       \* the file is there and is not what was written
  Power       \* whether the power may fail

File == {"agent.key", "config.json", "last-run.json"}
Result == {"ok", "error"}

ASSUME StoreAssumption ==
  /\ Power \in BOOLEAN
  /\ Absent # Torn /\ {Absent, Torn} \cap (Key \cup Result) = {} /\ Key \cap Result = {}

VARIABLES
  disk,       \* what a process reads under each name
  durable,    \* what is under it when nothing since has reached the disk
  synced,     \* the file's contents have reached the disk
  pc,         \* where each process stands
  task,       \* "enroll" or "cycle"
  key,        \* the key a process holds
  used,       \* the keys generated so far
  registered, \* server: the keys it knows
  lost        \* history: the power has failed

fileVars == <<disk, durable, synced>>
procVars == <<pc, task, key>>
vars == <<fileVars, procVars, used, registered, lost>>

Init ==
  /\ disk = [f \in File |-> Absent]
  /\ durable = disk
  /\ synced = [f \in File |-> TRUE]
  /\ pc = [p \in Proc |-> "idle"]
  /\ task = [p \in Proc |-> "cycle"]
  /\ key = [p \in Proc |-> Absent]
  /\ used = {} /\ registered = {} /\ lost = FALSE

GoTo(p, l) == pc' = [pc EXCEPT ![p] = l]

\* The file now under a name, and whether it was synced before the rename.
Rename(f, data, flushed) ==
  /\ disk' = [disk EXCEPT ![f] = data]
  /\ synced' = [synced EXCEPT ![f] = flushed]
  /\ UNCHANGED durable

\* A mutant of WriteAtomic: no Sync.
WriteUnsynced(f, data) == Rename(f, data, FALSE) \/ UNCHANGED fileVars

\* writeAtomic; on any error the file stays as it was.
WriteAtomic(f, data) == Rename(f, data, TRUE) \/ UNCHANGED fileVars

-----------------------------------------------------------------------------
(* What a process does.                                                    *)

\* cmdEnroll, on a new machine or again. Nothing in the code keeps two
\* enrollments apart: that one administrator runs one at a time is assumed.
StartEnroll(p) ==
  /\ pc[p] = "idle"
  /\ \A q \in Proc : pc[q] # "idle" => task[q] # "enroll"
  /\ GoTo(p, "key")
  /\ task' = [task EXCEPT ![p] = "enroll"]
  /\ UNCHANGED <<fileVars, key, used, registered, lost>>

\* A mutant of StartCycle: the key before the config.
StartCycleUnasked(p) ==
  /\ pc[p] = "idle"
  /\ GoTo(p, "key")
  /\ task' = [task EXCEPT ![p] = "cycle"]
  /\ UNCHANGED <<fileVars, key, used, registered, lost>>

\* reportOnce goes on only when config.json says the machine is enrolled.
StartCycle(p) ==
  /\ pc[p] = "idle"
  /\ disk["config.json"] \in Key
  /\ GoTo(p, "key")
  /\ task' = [task EXCEPT ![p] = "cycle"]
  /\ UNCHANGED <<fileVars, key, used, registered, lost>>

KeyInHand(p) == IF task[p] = "enroll" THEN "register" ELSE "auth"

\* A mutant of LoadKey: what parseKey says is not looked at.
LoadKeyUnparsed(p) ==
  /\ pc[p] = "key"
  /\ \/ /\ disk["agent.key"] # Absent
        /\ key' = [key EXCEPT ![p] = disk["agent.key"]]
        /\ GoTo(p, KeyInHand(p))
        /\ UNCHANGED used
     \/ /\ disk["agent.key"] = Absent
        /\ \E k \in Key \ used : key' = [key EXCEPT ![p] = k] /\ used' = used \cup {k}
        /\ GoTo(p, "create")
     \/ GoTo(p, "idle") /\ UNCHANGED <<key, used>>
  /\ UNCHANGED <<fileVars, task, registered, lost>>

\* LoadOrCreateKey: the key is read and parsed, or there is none and one is
\* generated; or the file cannot be read, secured or parsed ...
LoadKey(p) ==
  /\ pc[p] = "key"
  /\ \/ /\ disk["agent.key"] \in Key
        /\ key' = [key EXCEPT ![p] = disk["agent.key"]]
        /\ GoTo(p, KeyInHand(p))
        /\ UNCHANGED used
     \/ /\ disk["agent.key"] = Absent
        /\ \E k \in Key \ used : key' = [key EXCEPT ![p] = k] /\ used' = used \cup {k}
        /\ GoTo(p, "create")
     \/ GoTo(p, "idle") /\ UNCHANGED <<key, used>>
  /\ UNCHANGED <<fileVars, task, registered, lost>>

\* ... or, when there was none, renamed into place, without a Sync.
CreateKey(p) ==
  /\ pc[p] = "create"
  /\ \/ Rename("agent.key", key[p], FALSE) /\ GoTo(p, KeyInHand(p))
     \/ UNCHANGED fileVars /\ GoTo(p, "idle")
  /\ UNCHANGED <<task, key, used, registered, lost>>

\* A mutant of Register: the config is saved whatever the server said.
RegisterAnyhow(p) ==
  /\ pc[p] = "register"
  /\ registered' \in {registered, registered \cup {key[p]}}
  /\ GoTo(p, "save")
  /\ UNCHANGED <<fileVars, task, key, used, lost>>

\* The server knows the key, and maybe the answer is lost; or it does not.
Register(p) ==
  /\ pc[p] = "register"
  /\ \/ registered' = registered \cup {key[p]} /\ (GoTo(p, "save") \/ GoTo(p, "idle"))
     \/ UNCHANGED registered /\ GoTo(p, "idle")
  /\ UNCHANGED <<fileVars, task, key, used, lost>>

SaveConfig(p) ==
  /\ pc[p] = "save"
  /\ WriteAtomic("config.json", key[p])
  /\ GoTo(p, "idle")
  /\ UNCHANGED <<task, key, used, registered, lost>>

\* The server takes an assertion only under a key it knows.
Authenticate(p) ==
  /\ pc[p] = "auth"
  /\ \/ key[p] \in registered /\ GoTo(p, "report")
     \/ GoTo(p, "idle")
  /\ UNCHANGED <<fileVars, task, key, used, registered, lost>>

SaveLastRun(p) ==
  /\ pc[p] = "report"
  /\ \E result \in Result : WriteAtomic("last-run.json", result)
  /\ GoTo(p, "idle")
  /\ UNCHANGED <<task, key, used, registered, lost>>

-----------------------------------------------------------------------------
(* The machine.                                                            *)

Kill(p) ==
  /\ pc[p] # "idle"
  /\ GoTo(p, "idle")
  /\ UNCHANGED <<fileVars, task, key, used, registered, lost>>

\* What is under a name reaches the disk in its own time.
Flush(f) ==
  /\ durable[f] # disk[f] \/ ~synced[f]
  /\ durable' = [durable EXCEPT ![f] = disk[f]]
  /\ synced' = [synced EXCEPT ![f] = TRUE]
  /\ UNCHANGED <<disk, procVars, used, registered, lost>>

PowerFails ==
  /\ Power
  /\ disk' \in [File -> Key \cup Result \cup {Absent, Torn}]
  /\ \A f \in File : disk'[f] \in {disk[f], durable[f]} \cup IF synced[f] THEN {} ELSE {Torn}
  /\ durable' = disk'
  /\ synced' = [f \in File |-> TRUE]
  /\ pc' = [p \in Proc |-> "idle"]
  /\ lost' = TRUE
  /\ UNCHANGED <<task, key, used, registered>>

Next ==
  \/ \E p \in Proc :
       \/ StartEnroll(p) \/ StartCycle(p) \/ LoadKey(p) \/ CreateKey(p) \/ Register(p)
       \/ SaveConfig(p) \/ Authenticate(p) \/ SaveLastRun(p) \/ Kill(p)
  \/ \E f \in File : Flush(f)
  \/ PowerFails

Spec == Init /\ [][Next]_vars

-----------------------------------------------------------------------------
(* Properties.                                                             *)

\* Every variable keeps its shape, and what a file holds is what belongs there.
TypeOK ==
  /\ \A d \in {disk, durable} :
       /\ d["agent.key"] \in Key \cup {Absent, Torn}
       /\ d["config.json"] \in Key \cup {Absent, Torn}
       /\ d["last-run.json"] \in Result \cup {Absent, Torn}
  /\ synced \in [File -> BOOLEAN]
  /\ pc \in [Proc -> {"idle", "key", "create", "register", "save", "auth", "report"}]
  /\ task \in [Proc -> {"enroll", "cycle"}]
  /\ \A p \in Proc : IF pc[p] \in {"idle", "key"} THEN key[p] \in used \cup {Absent}
                                                 ELSE key[p] \in used
  /\ used \subseteq Key /\ registered \subseteq used /\ lost \in BOOLEAN

\* No crash leaves config.json or last-run.json half written (writeAtomic).
FilesAreWhole == Torn \notin {disk["config.json"], disk["last-run.json"]}

\* A machine whose config says enrolled has been registered, under a key the
\* server knows, however the enrollment before it failed (cmdEnroll).
ConfigIsRegistered == disk["config.json"] \in Key => disk["config.json"] \in registered

\* An enrolled machine holds the very key it was registered with, whatever was
\* killed, failed or ran beside it, unless the power failed: there is one key
\* for a machine's life (LoadOrCreateKey).
EnrolledKeyIsKept ==
  disk["config.json"] \in Key /\ ~lost => disk["agent.key"] = disk["config.json"]

\* The key is under its name only once it is whole (LoadOrCreateKey).
KeyIsWhole == disk["agent.key"] # Torn
=============================================================================
