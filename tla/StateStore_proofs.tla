------------------------- MODULE StateStore_proofs -------------------------
(***************************************************************************)
(* Proofs about StateStore, for any processes and keys, with the power     *)
(* failing or not:                                                         *)
(*                                                                         *)
(*   TypeCorrect   the shapes, and what belongs in each file               *)
(*   Whole         a crash leaves config.json and last-run.json whole      *)
(*   Registered    a config names a key that the server knows              *)
(*   Kept          an enrolled machine keeps the key it was registered     *)
(*                 with, unless the power failed                           *)
(*                                                                         *)
(* What a process reads now is kept by the rules for what the disk may go  *)
(* back to, so each part of the invariant speaks of both.                  *)
(***************************************************************************)
EXTENDS StateStore, TLAPS

Content == Key \cup Result \cup {Absent, Torn}
Place == {"idle", "key", "create", "register", "save", "auth", "report"}

\* The functions, and what is under each name: a key in agent.key was generated.
Shapes ==
  /\ disk \in [File -> Content] /\ durable \in [File -> Content]
  /\ synced \in [File -> BOOLEAN]
  /\ pc \in [Proc -> Place] /\ task \in [Proc -> {"enroll", "cycle"}]
  /\ key \in [Proc -> Key \cup {Absent}]
  /\ used \subseteq Key /\ registered \subseteq used /\ lost \in BOOLEAN

BelongsIn(d) ==
  /\ d["agent.key"] \in used \cup {Absent, Torn}
  /\ d["config.json"] \in Key \cup {Absent, Torn}
  /\ d["last-run.json"] \in Result \cup {Absent, Torn}
Belongs == BelongsIn(disk) /\ BelongsIn(durable)

\* A process has a key in hand once it has loaded or generated one.
InHand ==
  \A p \in Proc : IF pc[p] \in {"idle", "key"} THEN key[p] \in used \cup {Absent}
                                               ELSE key[p] \in used

Inv1 == Shapes /\ Belongs /\ InHand

\* What writeAtomic puts under a name had reached the disk before.
Synced ==
  \A f \in {"config.json", "last-run.json"} : synced[f] /\ Torn \notin {disk[f], durable[f]}

\* Only a key that the server took is saved.
Known ==
  /\ disk["config.json"] \in Key => disk["config.json"] \in registered
  /\ durable["config.json"] \in Key => durable["config.json"] \in registered
  /\ \A p \in Proc : pc[p] = "save" => key[p] \in registered

\* Only an enrollment makes a key, there is one at a time, and as long as the
\* power stays on agent.key is not replaced.
OneEnrollment ==
  \A p, q \in Proc : pc[p] # "idle" /\ pc[q] # "idle" /\ task[p] = "enroll" /\ task[q] = "enroll" => p = q
Duties ==
  \A p \in Proc : /\ pc[p] \in {"register", "save"} => task[p] = "enroll"
                  /\ pc[p] \in {"auth", "report"} => task[p] = "cycle"
OneKey ==
  ~lost =>
    /\ disk["config.json"] \in Key => disk["agent.key"] = disk["config.json"]
    /\ \A p \in Proc :
         /\ pc[p] = "key" /\ task[p] = "cycle" => disk["config.json"] \in Key
         /\ pc[p] = "create" => task[p] = "enroll" /\ disk["agent.key"] = Absent
         /\ pc[p] \in {"register", "save"} => key[p] = disk["agent.key"]

Inv == Inv1 /\ OneEnrollment /\ Duties /\ OneKey

-----------------------------------------------------------------------------
(* The shapes.                                                             *)

LEMMA InitInv1 == Init => Inv1
<1> SUFFICES ASSUME Init PROVE Inv1
  OBVIOUS
<1>1. Shapes BY DEF Init, Shapes, Content, Place
<1>2. Belongs BY DEF Init, Belongs, BelongsIn, File
<1>3. InHand BY DEF Init, InHand
<1>4. QED BY <1>1, <1>2, <1>3 DEF Inv1

LEMMA ProcessInv1 ==
  ASSUME Inv1, NEW p \in Proc,
         \/ StartEnroll(p) \/ StartCycle(p) \/ LoadKey(p) \/ CreateKey(p) \/ Register(p)
         \/ SaveConfig(p) \/ Authenticate(p) \/ SaveLastRun(p) \/ Kill(p)
  PROVE  Inv1'
<1> USE DEF Inv1, Shapes, Belongs, BelongsIn, InHand, fileVars, GoTo
<1>1. CASE StartEnroll(p) BY <1>1 DEF StartEnroll, Place
<1>2. CASE StartCycle(p) BY <1>2 DEF StartCycle, Place
<1>3. CASE LoadKey(p)
  BY <1>3, StoreAssumption DEF LoadKey, Place, KeyInHand, File
<1>4. CASE CreateKey(p)
  <2>1. key[p] \in used /\ key[p] \in Content
    BY <1>4 DEF CreateKey, Content
  <2>2. Shapes' BY <1>4, <2>1 DEF CreateKey, Rename, Place, KeyInHand
  <2>3. Belongs' BY <1>4, <2>1 DEF CreateKey, Rename, File
  <2>4. InHand' BY <1>4, <2>1 DEF CreateKey, Place, KeyInHand
  <2>5. QED BY <2>2, <2>3, <2>4
<1>5. CASE Register(p) BY <1>5 DEF Register, Place
<1>6. CASE SaveConfig(p)
  <2>1. key[p] \in used /\ key[p] \in Content
    BY <1>6 DEF SaveConfig, Content
  <2>2. Shapes'
    <3>1. disk' \in [File -> Content] /\ durable' = durable /\ synced' \in [File -> BOOLEAN]
      BY <1>6, <2>1 DEF SaveConfig, WriteAtomic, Rename
    <3>2. QED BY <1>6, <3>1 DEF SaveConfig, Place
  <2>3. Belongs' BY <1>6, <2>1 DEF SaveConfig, WriteAtomic, Rename, File
  <2>4. InHand' BY <1>6 DEF SaveConfig, Place
  <2>5. QED BY <2>2, <2>3, <2>4
<1>7. CASE Authenticate(p) BY <1>7 DEF Authenticate, Place
<1>8. CASE SaveLastRun(p)
  <2>1. PICK result \in Result : WriteAtomic("last-run.json", result)
    BY <1>8 DEF SaveLastRun
  <2>2. Shapes'
    <3>1. result \in Content BY DEF Content
    <3>2. disk' \in [File -> Content] /\ durable' = durable /\ synced' \in [File -> BOOLEAN]
      BY <2>1, <3>1 DEF WriteAtomic, Rename
    <3>3. QED BY <1>8, <3>2 DEF SaveLastRun, Place
  <2>3. Belongs' BY <1>8, <2>1 DEF SaveLastRun, WriteAtomic, Rename, File
  <2>4. InHand' BY <1>8 DEF SaveLastRun, Place
  <2>5. QED BY <2>2, <2>3, <2>4
<1>9. CASE Kill(p) BY <1>9 DEF Kill, Place
<1>10. QED BY <1>1, <1>2, <1>3, <1>4, <1>5, <1>6, <1>7, <1>8, <1>9

LEMMA MachineInv1 ==
  ASSUME Inv1, (\E f \in File : Flush(f)) \/ PowerFails
  PROVE  Inv1'
<1> USE DEF Inv1, Shapes, Belongs, BelongsIn, InHand, procVars, Content, Place
<1>1. ASSUME NEW f \in File, Flush(f) PROVE Inv1'
  BY <1>1 DEF Flush, File
<1>2. CASE PowerFails
  <2>1. \A f \in File : disk'[f] \in {disk[f], durable[f], Torn}
    BY <1>2 DEF PowerFails
  <2>2. QED BY <1>2, <2>1 DEF PowerFails, File
<1>3. QED BY <1>1, <1>2

LEMMA StepInv1 == Inv1 /\ [Next]_vars => Inv1'
<1>1. ASSUME Inv1, UNCHANGED vars PROVE Inv1'
  BY <1>1 DEF Inv1, Shapes, Belongs, BelongsIn, InHand, vars, fileVars, procVars
<1>2. QED BY <1>1, ProcessInv1, MachineInv1 DEF Next

\* Every variable keeps its shape, and what a file holds is what belongs there,
\* in whatever way the processes of the state directory interleave and end.
THEOREM TypeCorrect == Spec => []TypeOK
<1>1. Inv1 => TypeOK
  BY DEF Inv1, Shapes, Belongs, BelongsIn, InHand, TypeOK, Place
<1>2. QED BY <1>1, InitInv1, StepInv1, PTL DEF Spec

-----------------------------------------------------------------------------
(* Files are whole.                                                        *)

LEMMA StepSynced ==
  ASSUME Inv1, Synced, [Next]_vars
  PROVE  Synced'
<1> USE DEF Inv1, Shapes, Synced, File
<1>1. ASSUME NEW p \in Proc, SaveConfig(p) PROVE Synced'
  <2>1. key[p] # Torn
    BY StoreAssumption
  <2>2. QED BY <1>1, <2>1 DEF SaveConfig, WriteAtomic, Rename, fileVars
<1>2. ASSUME NEW p \in Proc, SaveLastRun(p) PROVE Synced'
  <2>1. PICK result \in Result : WriteAtomic("last-run.json", result)
    BY <1>2 DEF SaveLastRun
  <2>2. result # Torn
    BY StoreAssumption
  <2>3. QED BY <2>1, <2>2 DEF WriteAtomic, Rename, fileVars
<1>3. ASSUME NEW p \in Proc, CreateKey(p) PROVE Synced'
  BY <1>3 DEF CreateKey, Rename, fileVars
<1>4. ASSUME NEW p \in Proc,
             \/ StartEnroll(p) \/ StartCycle(p) \/ LoadKey(p) \/ Register(p)
             \/ Authenticate(p) \/ Kill(p)
      PROVE  Synced'
  BY <1>4 DEF StartEnroll, StartCycle, LoadKey, Register, Authenticate, Kill, fileVars
<1>5. ASSUME NEW f \in File, Flush(f) PROVE Synced'
  BY <1>5 DEF Flush
<1>6. CASE PowerFails
  <2>1. ASSUME NEW f \in {"config.json", "last-run.json"} PROVE disk'[f] # Torn /\ synced'[f]
    BY <1>6 DEF PowerFails
  <2>2. QED BY <1>6, <2>1 DEF PowerFails
<1>7. CASE UNCHANGED vars
  BY <1>7 DEF vars, fileVars
<1>8. QED BY <1>1, <1>2, <1>3, <1>4, <1>5, <1>6, <1>7 DEF Next

\* No crash and no power failure leaves config.json or last-run.json half
\* written, for they are synced before they are renamed (writeAtomic).
THEOREM Whole == Spec => []FilesAreWhole
<1>1. Init => Synced
  BY StoreAssumption DEF Init, Synced, File
<1>2. Synced => FilesAreWhole
  BY DEF Synced, FilesAreWhole
<1>3. QED BY <1>1, <1>2, InitInv1, StepInv1, StepSynced, PTL DEF Spec

-----------------------------------------------------------------------------
(* A config that is there names a key the server knows.                    *)

LEMMA StepKnown ==
  ASSUME Inv1, Known, [Next]_vars
  PROVE  Known'
<1> USE DEF Inv1, Shapes, Known, GoTo, File
<1>1. ASSUME NEW p \in Proc, Register(p) PROVE Known'
  BY <1>1 DEF Register, fileVars
<1>2. ASSUME NEW p \in Proc, SaveConfig(p) PROVE Known'
  BY <1>2 DEF SaveConfig, WriteAtomic, Rename, fileVars
<1>3. ASSUME NEW p \in Proc, SaveLastRun(p) PROVE Known'
  BY <1>3 DEF SaveLastRun, WriteAtomic, Rename, fileVars
<1>4. ASSUME NEW p \in Proc, CreateKey(p) PROVE Known'
  BY <1>4 DEF CreateKey, Rename, KeyInHand, fileVars
<1>5. ASSUME NEW p \in Proc, LoadKey(p) PROVE Known'
  BY <1>5 DEF LoadKey, KeyInHand, fileVars
<1>6. ASSUME NEW p \in Proc, StartEnroll(p) \/ StartCycle(p) \/ Authenticate(p) \/ Kill(p)
      PROVE  Known'
  BY <1>6 DEF StartEnroll, StartCycle, Authenticate, Kill, fileVars
<1>7. ASSUME NEW f \in File, Flush(f) PROVE Known'
  BY <1>7 DEF Flush, procVars
<1>8. CASE PowerFails
  <2>1. disk'["config.json"] \in {disk["config.json"], durable["config.json"], Torn}
    BY <1>8 DEF PowerFails
  <2>2. Torn \notin Key
    BY StoreAssumption
  <2>3. QED BY <1>8, <2>1, <2>2 DEF PowerFails
<1>9. CASE UNCHANGED vars
  BY <1>9 DEF vars, fileVars, procVars
<1>10. QED BY <1>1, <1>2, <1>3, <1>4, <1>5, <1>6, <1>7, <1>8, <1>9 DEF Next

\* A machine whose config says enrolled has been registered: the config is
\* written last, and what the disk may go back to was true before (cmdEnroll).
THEOREM Registered == Spec => []ConfigIsRegistered
<1>1. Init => Known
  BY StoreAssumption DEF Init, Known, File
<1>2. Known => ConfigIsRegistered
  BY DEF Known, ConfigIsRegistered
<1>3. QED BY <1>1, <1>2, InitInv1, StepInv1, StepKnown, PTL DEF Spec

-----------------------------------------------------------------------------
(* One key for a machine's life.                                           *)

LEMMA StepEnrollment ==
  ASSUME Inv1, OneEnrollment, Duties, [Next]_vars
  PROVE  OneEnrollment' /\ Duties'
<1> USE DEF Inv1, Shapes, OneEnrollment, Duties, GoTo
<1>1. ASSUME NEW p \in Proc, StartEnroll(p) PROVE OneEnrollment' /\ Duties'
  BY <1>1 DEF StartEnroll
<1>2. ASSUME NEW p \in Proc, StartCycle(p) PROVE OneEnrollment' /\ Duties'
  BY <1>2 DEF StartCycle
<1>3. ASSUME NEW p \in Proc, LoadKey(p) \/ CreateKey(p) PROVE OneEnrollment' /\ Duties'
  <2>1. PICK l : /\ pc' = [pc EXCEPT ![p] = l] /\ task' = task /\ pc[p] # "idle"
                 /\ l \in {"register", "save"} => task[p] = "enroll"
                 /\ l \in {"auth", "report"} => task[p] = "cycle"
    <3>1. CASE LoadKey(p)
      BY <3>1 DEF LoadKey, KeyInHand
    <3>2. CASE CreateKey(p)
      BY <3>2 DEF CreateKey, KeyInHand
    <3>3. QED BY <1>3, <3>1, <3>2
  <2>2. \A q \in Proc : pc'[q] # "idle" => pc[q] # "idle"
    BY <2>1
  <2>3. OneEnrollment'
    BY <2>1, <2>2
  <2>4. Duties'
    BY <2>1
  <2>5. QED BY <2>3, <2>4
<1>4. ASSUME NEW p \in Proc,
             Register(p) \/ SaveConfig(p) \/ Authenticate(p) \/ SaveLastRun(p) \/ Kill(p)
      PROVE  OneEnrollment' /\ Duties'
  BY <1>4 DEF Register, SaveConfig, Authenticate, SaveLastRun, Kill
<1>5. CASE (\E f \in File : Flush(f)) \/ PowerFails \/ UNCHANGED vars
  BY <1>5 DEF Flush, PowerFails, vars, procVars
<1>6. QED BY <1>1, <1>2, <1>3, <1>4, <1>5 DEF Next

LEMMA StepOneKey ==
  ASSUME Inv, [Next]_vars
  PROVE  OneKey'
<1> USE DEF Inv, Inv1, Shapes, OneEnrollment, Duties, OneKey, GoTo, File
<1>1. ASSUME NEW p \in Proc, StartEnroll(p) PROVE OneKey'
  BY <1>1 DEF StartEnroll, fileVars
<1>2. ASSUME NEW p \in Proc, StartCycle(p) PROVE OneKey'
  BY <1>2 DEF StartCycle, fileVars
<1>3. ASSUME NEW p \in Proc, LoadKey(p) PROVE OneKey'
  BY <1>3, StoreAssumption DEF LoadKey, KeyInHand, fileVars
<1>4. ASSUME NEW p \in Proc, CreateKey(p) PROVE OneKey'
  BY <1>4, StoreAssumption DEF CreateKey, Rename, KeyInHand, fileVars
<1>5. ASSUME NEW p \in Proc, Register(p) PROVE OneKey'
  BY <1>5 DEF Register, fileVars
<1>6. ASSUME NEW p \in Proc, SaveConfig(p) PROVE OneKey'
  BY <1>6 DEF SaveConfig, WriteAtomic, Rename, fileVars
<1>7. ASSUME NEW p \in Proc, SaveLastRun(p) PROVE OneKey'
  BY <1>7 DEF SaveLastRun, WriteAtomic, Rename, fileVars
<1>8. ASSUME NEW p \in Proc, Authenticate(p) \/ Kill(p) PROVE OneKey'
  BY <1>8 DEF Authenticate, Kill, fileVars
<1>9. CASE (\E f \in File : Flush(f)) \/ UNCHANGED vars
  BY <1>9 DEF Flush, vars, fileVars, procVars
<1>10. CASE PowerFails
  BY <1>10 DEF PowerFails
<1>11. QED BY <1>1, <1>2, <1>3, <1>4, <1>5, <1>6, <1>7, <1>8, <1>9, <1>10 DEF Next

\* Whatever is killed or fails and whatever runs beside it, a machine that is
\* enrolled holds the key it was registered with, as long as the power stays on
\* (LoadOrCreateKey).
THEOREM Kept == Spec => []EnrolledKeyIsKept
<1>1. Init => OneEnrollment /\ Duties /\ OneKey
  BY StoreAssumption DEF Init, OneEnrollment, Duties, OneKey, File
<1>2. Inv /\ [Next]_vars => Inv'
  BY StepInv1, StepEnrollment, StepOneKey DEF Inv
<1>3. Inv => EnrolledKeyIsKept
  BY DEF Inv, OneKey, EnrolledKeyIsKept
<1>4. Init => Inv
  BY <1>1, InitInv1 DEF Inv
<1>5. QED BY <1>2, <1>3, <1>4, PTL DEF Spec

=============================================================================
