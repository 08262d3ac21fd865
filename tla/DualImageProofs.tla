--------------------------- MODULE DualImageProofs ---------------------------
(***************************************************************************)
(* Proofs about DualImage: type correctness, that one image and the image  *)
(* that runs stay complete, that the whole implements TwoImages, and, in   *)
(* the second half, that the settings survive; for any number of sysupgrade*)
(* processes, revisions, power cuts and starts.                            *)
(***************************************************************************)
EXTENDS DualImage, TLAPS

-----------------------------------------------------------------------------
(* The strengthening. Until set_zone moves it, root_zone names the image   *)
(* that runs; a process runs only on a modem that does; and one that is    *)
(* about to write, or writes, has the other image unless root_zone moved.  *)

RootRuns == phase # "off" /\ ~switched => root_zone = running

OffIsFresh == phase = "off" => ~switched /\ \A r \in Runs : ~Active(r)

WritesSpare ==
    \A r \in Runs : /\ run[r].pc \in {"begin", "writing"} => run[r].part # running \/ switched
                    /\ run[r].pc = "writing" /\ run[r].part = running => ranOver

(* The archive is in memory while it is unpacked.                          *)
TarThere == phase = "untar" => CONF_TAR # Missing

DualInv == TypeOK /\ TarThere /\ RootRuns /\ OffIsFresh /\ WritesSpare /\ NoBrick

-----------------------------------------------------------------------------
(* Types.                                                                  *)

(* The three ways a process changes: its place, its end, a new record.     *)
LEMMA RunKept ==
    ASSUME TypeOK, NEW r \in Runs
    PROVE  /\ \A pc \in RunPCs : [run EXCEPT ![r].pc = pc] \in [Runs -> RunType]
           /\ [run EXCEPT ![r] = Idle] \in [Runs -> RunType]
           /\ \A new \in RunType : [run EXCEPT ![r] = new] \in [Runs -> RunType]
           /\ run[r] \in RunType
<1>1. run \in [Runs -> RunType]
  BY DEF TypeOK
<1>2. run[r] \in RunType
  BY <1>1
<1>3. Idle \in RunType
  BY DEF Idle, NewRun, RunType, RunPCs, Kinds, Zones
<1>4. ASSUME NEW pc \in RunPCs
      PROVE  [run EXCEPT ![r].pc = pc] \in [Runs -> RunType]
  <2>1. [run[r] EXCEPT !.pc = pc] \in RunType
    BY <1>2 DEF RunType
  <2> QED BY <1>1, <2>1
<1>5. ASSUME NEW new \in RunType
      PROVE  [run EXCEPT ![r] = new] \in [Runs -> RunType]
  BY <1>1
<1> QED BY <1>2, <1>3, <1>4, <1>5

LEMMA IdleType == [r \in Runs |-> Idle] \in [Runs -> RunType]
<1>1. Idle \in RunType
  BY DEF Idle, NewRun, RunType, RunPCs, Kinds, Zones
<1> QED BY <1>1

LEMMA TypeInit == Init => TypeOK
<1> SUFFICES ASSUME Init PROVE TypeOK
  OBVIOUS
<1>1. /\ slot \in [Zones -> [rev : Revs \cup {NoRev}, whole : BOOLEAN]]
      /\ root_zone \in Zones /\ Stable \in [Zones -> BOOLEAN]
  BY DEF Init, Zones
<1>2. Try \in [Zones -> 0..TryLimit] /\ downs \in 0..MaxDowns /\ starts \in 0..MaxStarts
  BY DualAssumption DEF Init
<1>3. /\ customized \in BOOLEAN /\ files \in Settings /\ tgz \in Settings \cup {Missing}
      /\ CONF_TAR \in Settings \cup {Missing} /\ phase \in Phases /\ running \in Zones \cup {None}
      /\ (running = None) = (phase = "off") /\ doneZone \in Zones
  BY DEF Init, Settings, Phases, Zones
<1>4. run \in [Runs -> RunType]
  BY IdleType DEF Init
<1>5. /\ switched \in BOOLEAN /\ ranOver \in BOOLEAN /\ overlapped \in BOOLEAN
      /\ torn \in BOOLEAN /\ owner \in {"user", "vendor"}
  BY DEF Init
<1> QED BY <1>1, <1>2, <1>3, <1>4, <1>5 DEF TypeOK

LEMMA TypeBoot ==
    ASSUME TypeOK, TarThere, Boot \/ Configure
    PROVE  TypeOK'
<1> USE DualAssumption DEF env, data, memory, history, bounds, Zones, Other, TypeOK
<1>1. CASE BootLoader
  <2>1. CASE Try[root_zone] < TryLimit
    <3>1. Try' \in [Zones -> 0..TryLimit]
      BY <1>1, <2>1 DEF BootLoader
    <3>2. /\ running' \in Zones \cup {None} /\ phase' \in Phases
          /\ (running' = None) = (phase' = "off") /\ root_zone' \in Zones
      BY <1>1, <2>1 DEF BootLoader, Phases
    <3> QED BY <1>1, <3>1, <3>2 DEF BootLoader
  <2>2. CASE ~(Try[root_zone] < TryLimit)
    BY <1>1, <2>2 DEF BootLoader
  <2> QED BY <2>1, <2>2
<1>2. CASE RestoreConfig
  BY <1>2 DEF RestoreConfig, Phases
<1>3. CASE UntarConfig
  BY <1>3 DEF UntarConfig, Phases, TarThere
<1>4. CASE ApplyVendors
  <2>1. customized' \in BOOLEAN /\ phase' \in Phases /\ phase # "off" /\ phase' # "off"
    BY <1>4 DEF ApplyVendors, Phases
  <2> QED BY <1>4, <2>1 DEF ApplyVendors
<1>5. CASE CommitVendors
  BY <1>5 DEF CommitVendors, Phases, Settings
<1>6. CASE RcLocal
  BY <1>6 DEF RcLocal, Phases
<1>7. CASE Done
  <2>1. CASE phase = "done"
    <3>1. Stable' \in [Zones -> BOOLEAN] /\ phase' \in Phases /\ phase' # "off"
      BY <1>7, <2>1 DEF Done, Phases, Confirmed
    <3> QED BY <1>7, <2>1, <3>1 DEF Done, Confirmed
  <2>2. CASE phase = "doneTry"
    <3>1. Try' \in [Zones -> 0..TryLimit]
      BY <1>7, <2>2 DEF Done
    <3>2. phase' \in Phases /\ phase' # "off"
      BY <1>7, <2>2 DEF Done, Phases
    <3> QED BY <1>7, <2>2, <3>1, <3>2 DEF Done
  <2> QED BY <1>7, <2>1, <2>2 DEF Done
<1>8. CASE AgentClearsTry
  BY <1>8 DEF AgentClearsTry
<1>9. CASE Configure
  BY <1>9 DEF Configure, Settings
<1> QED BY <1>1, <1>2, <1>3, <1>4, <1>5, <1>6, <1>7, <1>8, <1>9 DEF Boot

LEMMA TypeDown ==
    ASSUME TypeOK, GoDown, downs' \in 0..MaxDowns, starts' = starts
    PROVE  TypeOK'
<1> USE DEF env, data, Zones, TypeOK
<1>1. run' \in [Runs -> RunType]
  BY IdleType DEF GoDown
<1>2. /\ phase' \in Phases /\ running' \in Zones \cup {None}
      /\ (running' = None) = (phase' = "off") /\ doneZone' \in Zones
      /\ CONF_TAR' \in Settings \cup {Missing} /\ switched' \in BOOLEAN
  BY DEF GoDown, Phases
<1>3. torn' \in BOOLEAN
  BY DEF GoDown
<1> QED BY <1>1, <1>2, <1>3 DEF GoDown

(* A new process.                                                          *)
LEMMA TypeBegins ==
    ASSUME TypeOK, NEW r \in Runs, NEW new \in RunType, Begins(r, new),
           UNCHANGED <<slot, env, data, memory, downs, switched, ranOver, torn>>
    PROVE  TypeOK'
<1> USE DEF env, data, memory, TypeOK
<1>1. run' \in [Runs -> RunType]
  BY RunKept DEF Begins
<1>2. starts' \in 0..MaxStarts
  BY DualAssumption DEF Begins
<1>3. overlapped' \in BOOLEAN /\ owner' \in {"user", "vendor"}
  BY DEF Begins
<1> QED BY <1>1, <1>2, <1>3

LEMMA NewRunType ==
    ASSUME NEW pc \in RunPCs, NEW kind \in Kinds, NEW keep \in BOOLEAN,
           NEW rev \in Revs \cup {NoRev}, NEW full \in BOOLEAN, NEW part \in Zones
    PROVE  /\ NewRun(pc, kind, keep, rev, full, part) \in RunType
           /\ NewRun(pc, kind, keep, rev, full, part).pc = pc
BY DEF NewRun, RunType

(* A process that begins is at none of the steps that write an image.      *)
LEMMA NewProcess ==
    ASSUME NEW r \in Runs, StartUpgrade(r) \/ StartAssign(r) \/ StartReset(r)
    PROVE  \E new \in RunType : /\ Begins(r, new)
                                /\ new.pc \notin {"idle", "begin", "writing"}
<1>0. /\ {"upgrade", "flash"} \subseteq Kinds /\ "assign" \in Kinds /\ "reset" \in Kinds
      /\ {"zone", "save", "ramfs"} \subseteq RunPCs
      /\ "setRoot" \in RunPCs /\ "resetEnv" \in RunPCs
      /\ 0 \in Zones /\ NoRev \in Revs \cup {NoRev} /\ TRUE \in BOOLEAN /\ FALSE \in BOOLEAN
  BY DEF Kinds, RunPCs, Zones
<1>1. CASE StartUpgrade(r)
  <2>1. PICK kind \in {"upgrade", "flash"}, keep \in BOOLEAN, full \in BOOLEAN, rev \in Revs :
          Begins(r, NewRun(FirstStep(kind, keep), kind, keep, rev, full, 0))
    BY <1>1 DEF StartUpgrade
  <2>2. FirstStep(kind, keep) \in {"zone", "save", "ramfs"}
    BY DEF FirstStep
  <2>3. /\ NewRun(FirstStep(kind, keep), kind, keep, rev, full, 0) \in RunType
        /\ NewRun(FirstStep(kind, keep), kind, keep, rev, full, 0).pc = FirstStep(kind, keep)
    BY <1>0, <2>2, NewRunType
  <2> QED BY <2>1, <2>2, <2>3
<1>2. CASE StartAssign(r)
  <2>1. PICK keep \in BOOLEAN, z \in Zones :
          Begins(r, NewRun("setRoot", "assign", keep, NoRev, TRUE, z))
    BY <1>2 DEF StartAssign, VersionZones, Zones
  <2>2. /\ NewRun("setRoot", "assign", keep, NoRev, TRUE, z) \in RunType
        /\ NewRun("setRoot", "assign", keep, NoRev, TRUE, z).pc = "setRoot"
    BY <1>0 DEF NewRun, RunType
  <2> QED BY <2>1, <2>2
<1>3. CASE StartReset(r)
  <2>1. /\ NewRun("resetEnv", "reset", FALSE, NoRev, TRUE, 0) \in RunType
        /\ NewRun("resetEnv", "reset", FALSE, NoRev, TRUE, 0).pc = "resetEnv"
    BY <1>0 DEF NewRun, RunType
  <2> QED BY <1>3, <2>1 DEF StartReset
<1> QED BY <1>1, <1>2, <1>3

LEMMA TypeStart ==
    ASSUME TypeOK, NEW r \in Runs, StartUpgrade(r) \/ StartAssign(r) \/ StartReset(r)
    PROVE  TypeOK'
<1>1. UNCHANGED <<slot, env, data, memory, downs, switched, ranOver, torn>>
  BY DEF StartUpgrade, StartAssign, StartReset
<1> QED BY <1>1, NewProcess, TypeBegins

(* The steps of a process that has begun.                                  *)
StepsOn(r) == \/ SaveConffiles(r) \/ RunRamfs(r) \/ ReadZone(r) \/ BeginWrite(r)
              \/ EndWrite(r) \/ FailWrite(r) \/ SetZone(r) \/ EraseData(r)
              \/ CopyConfig(r) \/ Uncustomize(r) \/ Reset(r)

LEMMA RunStep ==
    ASSUME TypeOK, NEW r \in Runs, StepsOn(r)
    PROVE  run' \in [Runs -> RunType]
<1>1. CASE ReadZone(r)
  <2>1. run[r] \in RunType /\ SpareZone \in Zones
    BY RunKept DEF SpareZone, Other, Zones, TypeOK
  <2>2. [run[r] EXCEPT !.pc = "begin", !.part = SpareZone] \in RunType
    BY <2>1 DEF RunType, RunPCs
  <2>3. run \in [Runs -> RunType]
    BY DEF TypeOK
  <2>4. run' = [run EXCEPT ![r] = [run[r] EXCEPT !.pc = "begin", !.part = SpareZone]]
    BY <1>1, <2>3 DEF ReadZone
  <2> QED BY <2>2, <2>3, <2>4
<1>2. CASE BeginWrite(r)
  <2>1. ASSUME NEW s \in Runs
        PROVE  run'[s] \in RunType
    <3>1. run[r] \in RunType /\ run[s] \in RunType
      BY RunKept
    <3> QED BY <1>2, <3>1 DEF BeginWrite, RunType, RunPCs
  <2> QED BY <1>2, <2>1 DEF BeginWrite
<1>3. ASSUME \/ \E pc \in RunPCs : Go(r, pc)
             \/ Quit(r) \/ Leave(r) \/ Written(r)
      PROVE  run' \in [Runs -> RunType]
  <2>1. NewRun("reboot", "upgrade", TRUE, NoRev, TRUE, 0) \in RunType
    BY DEF NewRun, RunType, RunPCs, Kinds, Zones
  <2>2. NewRun("setRoot", "upgrade", run[r].keep, NoRev, TRUE, run[r].part) \in RunType
    <3>1. run[r].keep \in BOOLEAN /\ run[r].part \in Zones
      BY RunKept DEF RunType
    <3> QED BY <3>1 DEF NewRun, RunType, RunPCs, Kinds
  <2>3. ASSUME NEW new \in RunType, run' = [run EXCEPT ![r] = new]
        PROVE  run' \in [Runs -> RunType]
    BY <2>3, RunKept
  <2>4. CASE Leave(r)  BY <2>1, <2>3, <2>4 DEF Leave
  <2>5. CASE Written(r)  BY <2>2, <2>3, <2>5 DEF Written
  <2>6. CASE Quit(r) \/ \E pc \in RunPCs : Go(r, pc)  BY <2>6, RunKept DEF Go, Quit
  <2> QED BY <1>3, <2>4, <2>5, <2>6
<1>4. CASE ~(ReadZone(r) \/ BeginWrite(r))
  <2>1. \/ \E pc \in RunPCs : Go(r, pc)
        \/ Quit(r) \/ Leave(r) \/ Written(r)
    BY <1>4 DEF StepsOn, SaveConffiles, RunRamfs, EndWrite, FailWrite, SetZone, EraseData,
                CopyConfig, Uncustomize, Reset, RunPCs
  <2> QED BY <1>3, <2>1
<1> QED BY <1>1, <1>2, <1>4

LEMMA TypeStep ==
    ASSUME TypeOK, NEW r \in Runs, StepsOn(r)
    PROVE  TypeOK'
<1>1. run' \in [Runs -> RunType] /\ run[r] \in RunType
  BY RunStep, RunKept
<1>2. run[r].part \in Zones /\ run[r].rev \in Revs \cup {NoRev}
  BY <1>1 DEF RunType
<1> USE DualAssumption, <1>1, <1>2 DEF env, data, memory, history, bounds, TypeOK
<1>3. CASE SaveConffiles(r)
  BY <1>3 DEF SaveConffiles
<1>4. CASE RunRamfs(r)
  BY <1>4 DEF RunRamfs
<1>5. CASE ReadZone(r)
  BY <1>5 DEF ReadZone
<1>6. CASE BeginWrite(r)
  <2>1. slot' \in [Zones -> [rev : Revs \cup {NoRev}, whole : BOOLEAN]]
    <3>1. PICK rev \in {NoRev, run[r].rev} :
            slot' = [slot EXCEPT ![run[r].part] = [rev |-> rev, whole |-> FALSE]]
      BY <1>6 DEF BeginWrite
    <3>2. [rev |-> rev, whole |-> FALSE] \in [rev : Revs \cup {NoRev}, whole : BOOLEAN]
      OBVIOUS
    <3> QED BY <3>1, <3>2
  <2>2. ranOver' \in BOOLEAN
    BY <1>6 DEF BeginWrite
  <2> QED BY <1>6, <2>1, <2>2 DEF BeginWrite
<1>7. CASE EndWrite(r)
  <2>1. slot' \in [Zones -> [rev : Revs \cup {NoRev}, whole : BOOLEAN]]
    <3>1. (run[r].full /\ ~run[r].spoilt) \in BOOLEAN
      OBVIOUS
    <3> QED BY <1>7, <3>1 DEF EndWrite
  <2> QED BY <1>7, <2>1 DEF EndWrite
<1>8. CASE FailWrite(r)
  BY <1>8 DEF FailWrite
<1>9. CASE SetZone(r)
  <2>1. Stable' \in [Zones -> BOOLEAN]
    BY <1>9 DEF SetZone
  <2>2. Try' \in [Zones -> 0..TryLimit]
    BY <1>9 DEF SetZone
  <2>3. root_zone' \in Zones /\ switched' \in BOOLEAN
    BY <1>9 DEF SetZone
  <2> QED BY <1>9, <2>1, <2>2, <2>3 DEF SetZone
<1>10. CASE EraseData(r)
  BY <1>10 DEF EraseData, Settings
<1>11. CASE CopyConfig(r)
  BY <1>11 DEF CopyConfig
<1>12. CASE Uncustomize(r)
  BY <1>12 DEF Uncustomize, ClearCustomized
<1>13. CASE Reset(r)
  <2>1. customized' \in BOOLEAN
    BY <1>13 DEF Reset
  <2>2. files' \in Settings /\ tgz' \in Settings \cup {Missing}
    BY <1>13 DEF Reset, Settings
  <2> QED BY <1>13, <2>1, <2>2 DEF Reset
<1> QED BY <1>3, <1>4, <1>5, <1>6, <1>7, <1>8, <1>9, <1>10, <1>11, <1>12, <1>13 DEF StepsOn

-----------------------------------------------------------------------------
(* One step of the modem, by what it does to the variables the invariant   *)
(* reads.                                                                  *)

(* Steps that leave the images, the zones and the processes alone.         *)
LEMMA QuietStep ==
    ASSUME DualInv, TypeOK', TarThere',
           UNCHANGED <<slot, root_zone, running, switched, ranOver, run>>,
           (phase' = "off") = (phase = "off")
    PROVE  DualInv'
BY DEF DualInv, RootRuns, OffIsFresh, WritesSpare, NoBrick, Active

LEMMA BootKeeps ==
    ASSUME DualInv, Boot \/ Configure
    PROVE  DualInv'
<1>1. TypeOK /\ TarThere /\ TypeOK'
  BY TypeBoot DEF DualInv
<1>2. CASE BootLoader
  <2>1. TarThere'
    BY <1>2 DEF BootLoader, TarThere
  <2>2. phase = "off" /\ running = None /\ ~switched /\ \A r \in Runs : ~Active(r)
    BY <1>1, <1>2 DEF BootLoader, DualInv, OffIsFresh, TypeOK
  <2>3. UNCHANGED <<slot, run, switched, ranOver>>
    BY <1>2 DEF BootLoader, history
  <2>4. RootRuns' /\ OffIsFresh'
    BY <1>2, <2>2, <2>3 DEF BootLoader, RootRuns, OffIsFresh, Active
  <2>5. WritesSpare'
    BY <2>2, <2>3 DEF WritesSpare, Active
  <2>6. NoBrick'
    <3>1. running' = None \/ (running' = root_zone /\ slot[root_zone].whole)
      BY <1>2, <2>2 DEF BootLoader
    <3> QED BY <1>1, <2>2, <2>3, <3>1 DEF DualInv, NoBrick, TypeOK
  <2> QED BY <1>1, <2>1, <2>4, <2>5, <2>6 DEF DualInv
<1>3. CASE ~BootLoader
  <2>1. TarThere'
    BY <1>1, <1>3 DEF Boot, TarThere, RestoreConfig, UntarConfig, ApplyVendors, CommitVendors,
                      RcLocal, Done, AgentClearsTry, Configure, memory
  <2>2. UNCHANGED <<slot, root_zone, running, switched, ranOver, run>>
    BY <1>3 DEF Boot, RestoreConfig, UntarConfig, ApplyVendors, CommitVendors, RcLocal, Done,
                AgentClearsTry, Configure, memory, env, history
  <2>3. (phase' = "off") = (phase = "off")
    BY <1>3 DEF Boot, RestoreConfig, UntarConfig, ApplyVendors, CommitVendors, RcLocal, Done,
                AgentClearsTry, Configure, memory
  <2> QED BY <1>1, <2>1, <2>2, <2>3, QuietStep
<1> QED BY <1>2, <1>3

LEMMA GoDownKeeps ==
    ASSUME DualInv, GoDown, TypeOK'
    PROVE  DualInv'
<1>1. TarThere' /\ RootRuns'
  BY DEF GoDown, TarThere, RootRuns
<1>2. OffIsFresh' /\ WritesSpare'
  BY DEF GoDown, OffIsFresh, WritesSpare, Active, Idle, NewRun
<1>3. NoBrick'
  BY DEF GoDown, DualInv, NoBrick
<1> QED BY <1>1, <1>2, <1>3 DEF DualInv

(* A process that begins, on a modem that is up.                           *)
LEMMA BeginsKeeps ==
    ASSUME DualInv, TypeOK', NEW r \in Runs, NEW new \in RunType, Begins(r, new),
           new.pc \notin {"idle", "begin", "writing"},
           UNCHANGED <<slot, env, data, memory, downs, switched, ranOver, torn>>
    PROVE  DualInv'
<1>1. UNCHANGED <<slot, root_zone, phase, running, CONF_TAR, switched, ranOver>>
  BY DEF env, memory
<1>2. phase # "off"
  BY DEF Begins, Serving
<1>3. run' = [run EXCEPT ![r] = new] /\ run \in [Runs -> RunType]
  BY DEF Begins, DualInv, TypeOK
<1>4. WritesSpare'
  BY <1>1, <1>3 DEF DualInv, WritesSpare
<1>5. TarThere' /\ RootRuns' /\ OffIsFresh' /\ NoBrick'
  BY <1>1, <1>2 DEF DualInv, TarThere, RootRuns, OffIsFresh, NoBrick
<1> QED BY <1>4, <1>5 DEF DualInv

LEMMA StartKeeps ==
    ASSUME DualInv, NEW r \in Runs, StartUpgrade(r) \/ StartAssign(r) \/ StartReset(r)
    PROVE  DualInv'
<1>1. TypeOK /\ TypeOK'
  BY TypeStart DEF DualInv
<1>2. PICK new \in RunType : /\ Begins(r, new)
                            /\ new.pc \notin {"idle", "begin", "writing"}
  BY NewProcess
<1>3. UNCHANGED <<slot, env, data, memory, downs, switched, ranOver, torn>>
  BY DEF StartUpgrade, StartAssign, StartReset
<1> QED BY <1>1, <1>2, <1>3, BeginsKeeps

LEMMA StepKeeps ==
    ASSUME DualInv, NEW r \in Runs, StepsOn(r)
    PROVE  DualInv'
<1>1. TypeOK /\ TypeOK' /\ run \in [Runs -> RunType] /\ run' \in [Runs -> RunType]
  BY TypeStep, RunStep DEF DualInv, TypeOK
<1>2. phase # "off" /\ running # None
  BY <1>1 DEF StepsOn, DualInv, OffIsFresh, Active, TypeOK, SaveConffiles, RunRamfs, ReadZone,
              BeginWrite, EndWrite, FailWrite, SetZone, EraseData, CopyConfig, Uncustomize, Reset
<1>3. phase' = phase /\ running' = running
  BY DEF StepsOn, memory, SaveConffiles, RunRamfs, ReadZone,
         BeginWrite, EndWrite, FailWrite, SetZone, EraseData, CopyConfig, Uncustomize, Reset
<1>4. TarThere' /\ OffIsFresh'
  <2>1. CASE SaveConffiles(r)
    BY <1>1, <1>2, <1>3, <2>1 DEF SaveConffiles, TarThere, OffIsFresh, Settings, Missing, TypeOK
  <2>2. CASE ~SaveConffiles(r)
    <3>1. CONF_TAR' = CONF_TAR
      BY <2>2 DEF StepsOn, memory, RunRamfs, ReadZone,
                  BeginWrite, EndWrite, FailWrite, SetZone, EraseData, CopyConfig, Uncustomize, Reset
    <3> QED BY <1>2, <1>3, <3>1 DEF DualInv, TarThere, OffIsFresh
  <2> QED BY <2>1, <2>2
<1>5. CASE ReadZone(r)
  <2>1. UNCHANGED <<slot, root_zone, switched, ranOver>>
    BY <1>5 DEF ReadZone, env, history
  <2>2. run'[r].pc = "begin" /\ run'[r].part = Other(root_zone)
    BY <1>1, <1>5 DEF ReadZone, SpareZone, RunType
  <2>3. \A s \in Runs : s # r => run'[s] = run[s]
    BY <1>1, <1>5 DEF ReadZone
  <2>4. Other(root_zone) # root_zone
    BY <1>1 DEF Other, TypeOK, Zones
  <2>5. WritesSpare'
    BY <1>2, <1>3, <2>1, <2>2, <2>3, <2>4 DEF DualInv, RootRuns, WritesSpare
  <2> QED BY <1>1, <1>3, <1>4, <2>1, <2>5 DEF DualInv, RootRuns, NoBrick
<1>6. CASE BeginWrite(r)
  <2>1. UNCHANGED <<root_zone, switched>>
    BY <1>6 DEF BeginWrite, env
  <2>2. run[r].pc = "begin" /\ run[r].part \in Zones
    BY <1>1, <1>6 DEF BeginWrite, RunType
  <2>3. \A s \in Runs : run'[s].part = run[s].part /\ (s # r => run'[s].pc = run[s].pc)
    BY <1>1, <1>6 DEF BeginWrite, RunType
  <2>4. ranOver' = (ranOver \/ (switched /\ run[r].part = running))
    BY <1>6 DEF BeginWrite
  <2>5. WritesSpare'
    BY <1>3, <2>1, <2>2, <2>3, <2>4 DEF DualInv, WritesSpare
  <2>6. \A z \in Zones : z # run[r].part => slot'[z] = slot[z]
    BY <1>1, <1>6 DEF BeginWrite, TypeOK
  <2>7. NoBrick'
    BY <1>1, <1>2, <1>3, <2>2, <2>4, <2>6 DEF DualInv, WritesSpare, NoBrick, TypeOK
  <2> QED BY <1>1, <1>3, <1>4, <2>1, <2>5, <2>7 DEF DualInv, RootRuns
<1>7. CASE EndWrite(r)
  <2>1. UNCHANGED <<root_zone, switched, ranOver>>
    BY <1>7 DEF EndWrite, env, history
  <2>2. run[r].pc = "writing" /\ run[r].part \in Zones
    BY <1>1, <1>7 DEF EndWrite, RunType
  <2>3. run'[r].pc \notin {"begin", "writing"} /\ \A s \in Runs : s # r => run'[s] = run[s]
    BY <1>1, <1>7 DEF EndWrite, Written, Quit, Idle, NewRun, RunType
  <2>4. WritesSpare'
    BY <1>3, <2>1, <2>3 DEF DualInv, WritesSpare
  <2>5. \A z \in Zones : z # run[r].part => slot'[z] = slot[z]
    BY <1>1, <1>7 DEF EndWrite, TypeOK
  <2>6. NoBrick'
    BY <1>1, <1>2, <1>3, <2>1, <2>2, <2>5 DEF DualInv, WritesSpare, NoBrick, TypeOK
  <2> QED BY <1>1, <1>3, <1>4, <2>1, <2>4, <2>6 DEF DualInv, RootRuns
<1>8. CASE ~(ReadZone(r) \/ BeginWrite(r) \/ EndWrite(r))
  <2>1. slot' = slot /\ ranOver' = ranOver
    BY <1>8 DEF StepsOn, history, SaveConffiles, RunRamfs, FailWrite, SetZone, EraseData,
                CopyConfig, Uncustomize, Reset
  <2>2. (switched => switched') /\ (~switched' => root_zone' = root_zone)
    BY <1>8 DEF StepsOn, history, env, SaveConffiles, RunRamfs, FailWrite, SetZone, EraseData,
                CopyConfig, Uncustomize, Reset
  <2>3. (\E pc \in RunPCs \ {"begin", "writing"} : Go(r, pc)) \/ Quit(r) \/ Leave(r)
    BY <1>8 DEF StepsOn, SaveConffiles, RunRamfs, FailWrite, SetZone, EraseData,
                CopyConfig, Uncustomize, Reset, RunPCs
  <2>4. run'[r].pc \notin {"begin", "writing"} /\ \A s \in Runs : s # r => run'[s] = run[s]
    BY <1>1, <2>3 DEF Go, Quit, Leave, Idle, NewRun, RunType
  <2>5. WritesSpare'
    BY <1>3, <2>1, <2>2, <2>4 DEF DualInv, WritesSpare
  <2>6. RootRuns' /\ NoBrick'
    BY <1>3, <2>1, <2>2 DEF DualInv, RootRuns, NoBrick
  <2> QED BY <1>1, <1>4, <2>5, <2>6 DEF DualInv
<1> QED BY <1>5, <1>6, <1>7, <1>8

-----------------------------------------------------------------------------
(* The theorems.                                                           *)

LEMMA DualInit == Init => DualInv
<1> SUFFICES ASSUME Init PROVE DualInv
  OBVIOUS
<1>1. TypeOK
  BY TypeInit
<1>2. TarThere /\ RootRuns /\ OffIsFresh /\ WritesSpare
  BY DEF Init, TarThere, RootRuns, OffIsFresh, WritesSpare, Active, Idle, NewRun
<1>3. NoBrick
  BY DEF Init, NoBrick, Zones
<1> QED BY <1>1, <1>2, <1>3 DEF DualInv

(* What a step of the modem can be.                                        *)
LEMMA Steps ==
    ASSUME DualInv, Next
    PROVE  \/ Boot \/ Configure
           \/ GoDown /\ TypeOK'
           \/ \E r \in Runs : StartUpgrade(r) \/ StartAssign(r) \/ StartReset(r)
           \/ \E r \in Runs : StepsOn(r)
<1>1. CASE Down
  <2>1. downs' \in 0..MaxDowns
    BY <1>1, DualAssumption DEF Down, DualInv, TypeOK
  <2> QED BY <1>1, <2>1, TypeDown DEF Down, DualInv
<1>2. ASSUME NEW r \in Runs, Reboot(r)
      PROVE  GoDown /\ TypeOK'
  BY <1>2, TypeDown DEF Reboot, bounds, DualInv, TypeOK
<1>3. ASSUME NEW r \in Runs, Sysupgrade(r)
      PROVE  \/ StartUpgrade(r) \/ StartAssign(r) \/ StartReset(r)
             \/ StepsOn(r) \/ Reboot(r)
  BY <1>3 DEF Sysupgrade, StepsOn
<1> QED BY <1>1, <1>2, <1>3 DEF Next

LEMMA DualStep == DualInv /\ [Next]_vars => DualInv'
<1> SUFFICES ASSUME DualInv, [Next]_vars PROVE DualInv'
  OBVIOUS
<1>1. CASE Next
  BY <1>1, Steps, BootKeeps, GoDownKeeps, StartKeeps, StepKeeps
<1>2. CASE UNCHANGED vars
  <2>1. UNCHANGED <<slot, root_zone, Stable, Try, customized, files, tgz, phase, running,
                    CONF_TAR, doneZone, run, downs, starts, history>>
    BY <1>2 DEF vars, env, data, memory, bounds
  <2>2. TypeOK'
    BY <2>1 DEF DualInv, TypeOK, history
  <2>3. TarThere'
    BY <2>1 DEF DualInv, TarThere
  <2> QED BY <2>1, <2>2, <2>3, QuietStep DEF history
<1> QED BY <1>1, <1>2

(* What the modem keeps, with all it rests on.                             *)
THEOREM DualInvariant == Spec => []DualInv
<1> QED BY DualInit, DualStep, PTL DEF Spec

(* Every variable keeps its kind; a modem that runs, runs from a zone.     *)
THEOREM TypeCorrect == Spec => []TypeOK
<1>1. DualInv => TypeOK
  BY DEF DualInv
<1> QED BY <1>1, DualInvariant, PTL

(* One image and the image that runs are complete, unless an upgrade wrote *)
(* over the image that ran after root_zone had been moved away from it.    *)
THEOREM NoBrickHolds == Spec => []NoBrick
<1>1. DualInv => NoBrick
  BY DEF DualInv
<1> QED BY <1>1, DualInvariant, PTL

(* `done' flags no image but the one that runs, unless root_zone moved.    *)
THEOREM ConfirmsWhatRunsHolds == Spec => ConfirmsWhatRuns
<1>1. ASSUME DualInv, [Next]_vars
      PROVE  [\A z \in Zones : ~Stable[z] /\ Stable'[z] => z = running \/ switched]_vars
  <2>1. CASE Stable' = Stable
    BY <2>1
  <2>2. CASE Stable' # Stable
    <3>1. Next
      BY <1>1, <2>2 DEF vars, env
    <3>2. Done \/ \E r \in Runs : SetZone(r)
      BY <2>2, <3>1 DEF Next, Boot, BootLoader, RestoreConfig, UntarConfig, ApplyVendors,
           CommitVendors, RcLocal, AgentClearsTry, Configure, Down, GoDown, Sysupgrade,
           StartUpgrade, StartAssign, StartReset, SaveConffiles, RunRamfs, ReadZone, BeginWrite,
           EndWrite, FailWrite, EraseData, CopyConfig, Uncustomize, Reset, Reboot, env
    <3>3. Stable \in [Zones -> BOOLEAN]
      BY <1>1 DEF DualInv, TypeOK
    <3>4. CASE Done
      <4>1. phase = "done" /\ Stable' = [Stable EXCEPT ![root_zone] = TRUE]
        BY <2>2, <3>4 DEF Done, Confirmed
      <4>2. root_zone = running \/ switched
        BY <1>1, <4>1 DEF DualInv, RootRuns
      <4> QED BY <3>3, <4>1, <4>2
    <3>5. ASSUME NEW r \in Runs, SetZone(r)
          PROVE  \A z \in Zones : ~Stable[z] => ~Stable'[z]
      <4>1. Stable' = [Stable EXCEPT ![run[r].part] = FALSE]
        BY <2>2, <3>5 DEF SetZone
      <4> QED BY <3>3, <4>1
    <3> QED BY <3>2, <3>4, <3>5
  <2> QED BY <2>1, <2>2
<1> QED BY <1>1, DualInvariant, PTL DEF Spec, ConfirmsWhatRuns

-----------------------------------------------------------------------------
(* The refinement: every step is one of TwoImages, or changes nothing that *)
(* TwoImages sees.                                                         *)

LEMMA ImagesInit == Init => Images!Init
<1> SUFFICES ASSUME Init PROVE Images!Init
  OBVIOUS
<1>1. Whole \subseteq Zones /\ 0 \in Whole
  BY DEF Init, Whole, Zones
<1> QED BY <1>1 DEF Init, Images!Init

LEMMA ImagesQuiet ==
    ASSUME UNCHANGED <<slot, running, switched, ranOver>>
    PROVE  UNCHANGED Images!vars
BY DEF Images!vars, Whole

LEMMA ImagesWrite ==
    ASSUME DualInv, NEW r \in Runs, BeginWrite(r) \/ EndWrite(r)
    PROVE  [Images!Next]_(Images!vars)
<1> DEFINE z == run[r].part
<1>1. /\ TypeOK /\ run[r] \in RunType /\ z \in Zones
      /\ slot \in [Zones -> [rev : Revs \cup {NoRev}, whole : BOOLEAN]]
  BY RunKept DEF DualInv, TypeOK, RunType
<1>2. Active(r) /\ phase # "off" /\ running # None /\ UNCHANGED <<running, switched>>
  BY <1>1 DEF BeginWrite, EndWrite, DualInv, OffIsFresh, Active, TypeOK, memory, history
<1>3. z # running \/ switched
  BY DEF BeginWrite, EndWrite, DualInv, WritesSpare
<1>4. Images!Spare(z)
  BY <1>2, <1>3 DEF Images!Spare
<1>5. \A y \in Zones : y # z => slot'[y] = slot[y]
  BY <1>1 DEF BeginWrite, EndWrite
<1>6. CASE BeginWrite(r)
  <2>1. ~slot'[z].whole /\ ranOver' = (ranOver \/ z = running)
    <3>1. PICK rev : slot' = [slot EXCEPT ![z] = [rev |-> rev, whole |-> FALSE]]
      BY <1>6 DEF BeginWrite
    <3>2. slot'[z] = [rev |-> rev, whole |-> FALSE]
      BY <1>1, <3>1
    <3>3. ranOver' = (ranOver \/ (switched /\ z = running))
      BY <1>6 DEF BeginWrite
    <3>4. ranOver' = (ranOver \/ z = running)
      BY <1>3, <3>3
    <3> QED BY <3>2, <3>4
  <2>2. Whole' = Whole \ {z}
    BY <1>5, <2>1 DEF Whole
  <2> QED BY <1>1, <1>2, <1>4, <2>1, <2>2 DEF Images!Next, Images!Break
<1>7. CASE EndWrite(r)
  <2>1. ranOver' = ranOver /\ (z = running => ranOver)
    BY <1>7 DEF EndWrite, history, DualInv, WritesSpare
  <2>2. CASE slot'[z].whole
    <3>1. Whole' = Whole \cup {z}
      BY <1>1, <1>5, <2>2 DEF Whole
    <3> QED BY <1>1, <1>2, <1>4, <2>1, <3>1 DEF Images!Next, Images!Complete
  <2>3. CASE ~slot'[z].whole
    <3>1. Whole' = Whole \ {z}
      BY <1>1, <1>5, <2>3 DEF Whole
    <3>2. ranOver' = (ranOver \/ z = running)
      BY <2>1, <1>1 DEF TypeOK
    <3> QED BY <1>1, <1>2, <1>4, <3>1, <3>2 DEF Images!Next, Images!Break
  <2> QED BY <2>2, <2>3
<1> QED BY <1>6, <1>7

LEMMA ImagesStep == DualInv /\ [Next]_vars => [Images!Next]_(Images!vars)
<1> SUFFICES ASSUME DualInv, [Next]_vars PROVE [Images!Next]_(Images!vars)
  OBVIOUS
<1>1. CASE UNCHANGED vars
  BY <1>1, ImagesQuiet DEF vars, memory, history
<1>2. CASE Boot \/ Configure
  <2>1. CASE BootLoader /\ running' # running
    <3>1. running = None /\ running' \in Whole /\ ~switched
      BY <2>1 DEF BootLoader, DualInv, TypeOK, OffIsFresh, Whole
    <3>2. UNCHANGED <<slot, switched, ranOver>>
      BY <2>1 DEF BootLoader, history
    <3>3. switched' = FALSE /\ Whole' = Whole
      BY <3>1, <3>2 DEF DualInv, TypeOK, Whole
    <3> QED BY <3>1, <3>2, <3>3 DEF Images!Next, Images!Start
  <2>2. CASE ~(BootLoader /\ running' # running)
    <3>1. UNCHANGED <<slot, running, switched, ranOver>>
      BY <1>2, <2>2 DEF Boot, BootLoader, RestoreConfig, UntarConfig, ApplyVendors,
           CommitVendors, RcLocal, Done, AgentClearsTry, Configure, memory, history
    <3> QED BY <3>1, ImagesQuiet
  <2> QED BY <2>1, <2>2
<1>3. CASE GoDown
  <2>1. Whole' = Whole
    BY <1>3 DEF GoDown, Whole
  <2> QED BY <1>3, <2>1 DEF GoDown, Images!Next, Images!Stop
<1>4. ASSUME NEW r \in Runs, StartUpgrade(r) \/ StartAssign(r) \/ StartReset(r)
      PROVE  [Images!Next]_(Images!vars)
  <2>1. UNCHANGED <<slot, running, switched, ranOver>>
    BY <1>4 DEF StartUpgrade, StartAssign, StartReset, memory
  <2> QED BY <2>1, ImagesQuiet
<1>5. ASSUME NEW r \in Runs, StepsOn(r)
      PROVE  [Images!Next]_(Images!vars)
  <2>1. CASE BeginWrite(r) \/ EndWrite(r)
    BY <2>1, ImagesWrite
  <2>2. CASE SetZone(r) /\ switched' # switched
    <3>1. switched' = TRUE /\ UNCHANGED <<slot, running, ranOver>> /\ run[r].pc = "setRoot"
      BY <2>2 DEF SetZone, memory, history
    <3>2. running # None /\ Whole' = Whole
      BY <3>1 DEF DualInv, OffIsFresh, Active, TypeOK, Whole
    <3> QED BY <3>1, <3>2 DEF Images!Next, Images!Move
  <2>3. CASE ~(BeginWrite(r) \/ EndWrite(r)) /\ ~(SetZone(r) /\ switched' # switched)
    <3>1. UNCHANGED <<slot, running, switched, ranOver>>
      BY <1>5, <2>3 DEF StepsOn, memory, history, SaveConffiles, RunRamfs, ReadZone, FailWrite,
                        SetZone, EraseData, CopyConfig, Uncustomize, Reset
    <3> QED BY <3>1, ImagesQuiet
  <2> QED BY <2>1, <2>2, <2>3
<1> QED BY <1>1, <1>2, <1>3, <1>4, <1>5, Steps

(* What TwoImages says of itself holds of the modem.                       *)
THEOREM StartableHolds == Spec => []Images!Startable
<1>1. DualInv => Images!Startable
  <2> SUFFICES ASSUME DualInv PROVE Images!Startable
    OBVIOUS
  <2>2. NoBrick /\ running \in Zones \cup {None}
    BY DEF DualInv, TypeOK
  <2>3. CASE ranOver
    BY <2>3 DEF Images!Startable
  <2>4. CASE ~ranOver
    <3>1. Whole # {} /\ (running # None => running \in Whole)
      BY <2>2, <2>4 DEF NoBrick, Whole
    <3> QED BY <3>1 DEF Images!Startable
  <2> QED BY <2>3, <2>4
<1> QED BY <1>1, DualInvariant, PTL

(* The modem implements TwoImages.                                         *)
THEOREM Refinement == Spec => KeepsTwoImages
<1> QED BY ImagesInit, ImagesStep, DualInvariant, PTL DEF Spec, KeepsTwoImages, Images!Spec

-----------------------------------------------------------------------------
(* Where the settings of the modem are. They move from their partition to  *)
(* memory, are erased, written back as an archive and unpacked by the next *)
(* start: the invariant names the good copy at each of these places.       *)

(* The exceptions of the two properties.                                   *)
Undisturbed == ~torn /\ ~overlapped

(* Settings the modem may go on with.                                      *)
Good(s) == s \notin {"blank", Missing} /\ (owner = "user" => s = "user")

(* What the next start finds: an archive, settings, or nothing and the     *)
(* vendor's scripts still to run.                                          *)
Stored == IF tgz # Missing THEN Good(tgz)
          ELSE Good(files) \/ (~customized /\ owner = "vendor")

(* The places at which a process that keeps the settings has them in       *)
(* memory: an upgrade saves first, an assignment after set_zone.           *)
Saved(r) ==
    /\ run[r].keep
    /\ \/ run[r].pc \in {"ramfs", "erase", "copy"}
       \/ /\ run[r].kind = "upgrade"
          /\ run[r].pc \in {"zone", "begin", "writing", "setRoot", "setStable", "setTry"}

(* Which processes come to which place.                                    *)
KindOf(r) ==
    /\ Active(r) => phase \in Serving
    /\ run[r].pc \in {"zone", "begin", "writing"} => run[r].kind \in {"upgrade", "flash"}
    /\ run[r].pc \in {"save", "ramfs", "erase", "copy", "custom", "setRoot", "setStable",
                      "setTry"}
         => run[r].kind \in {"upgrade", "assign"}
    /\ run[r].pc \in {"save", "copy"} => run[r].keep
    /\ run[r].pc \in {"custom", "resetEnv", "resetErase"} => ~run[r].keep

(* While the modem starts.                                                 *)
BootSettings ==
    /\ phase \in {"off", "restore", "vendor"} => Stored
    /\ phase = "untar" => Good(CONF_TAR)
    /\ phase = "commit" => owner = "vendor" /\ customized
    /\ phase \in {"untar", "vendor", "commit"} => tgz = Missing
    /\ ~customized => owner = "vendor"

(* While the modem serves and no process runs.                             *)
AtRest == tgz = Missing /\ Good(files) /\ customized

(* While a process runs.                                                   *)
RunSettings(r) ==
    /\ run[r].pc # "reboot" => tgz = Missing
    /\ run[r].pc \notin {"copy", "custom", "reboot"} => Good(files)
    /\ run[r].pc \notin {"resetErase", "reboot"} => customized
    /\ run[r].pc = "resetErase" => ~customized
    /\ run[r].pc = "reboot" => Stored
    /\ ~run[r].keep => owner = "vendor"
    /\ Saved(r) => Good(CONF_TAR)

(* Two sysupgrade processes do not overlap.                                *)
OneProcess == \A r, s \in Runs : Active(r) /\ Active(s) => r = s
NoProcess  == \A r \in Runs : ~Active(r)

SettingsInv ==
    /\ \A r \in Runs : KindOf(r)
    /\ Undisturbed => /\ OneProcess /\ BootSettings
                      /\ phase \in Serving /\ NoProcess => AtRest
                      /\ \A r \in Runs : Active(r) => RunSettings(r)

-----------------------------------------------------------------------------
(* A modem that has been used has the settings of its vendor.              *)
LEMMA SettingsInit == Init => SettingsInv
<1> SUFFICES ASSUME Init PROVE SettingsInv
  OBVIOUS
<1>1. \A r \in Runs : run[r].pc = "idle" /\ ~Active(r) /\ KindOf(r)
  BY DEF Init, Idle, NewRun, Active, KindOf
<1>2. BootSettings /\ phase \notin Serving
  BY DEF Init, BootSettings, Stored, Good, Missing, Serving
<1> QED BY <1>1, <1>2 DEF SettingsInv, OneProcess

-----------------------------------------------------------------------------
(* The boot scripts run before any process does, and Configure while one   *)
(* may.                                                                    *)
LEMMA SettingsBoot ==
    ASSUME DualInv, SettingsInv, Boot
    PROVE  SettingsInv'
<1>1. UNCHANGED <<run, torn, overlapped, owner>>
  BY DEF Boot, BootLoader, RestoreConfig, UntarConfig, ApplyVendors, CommitVendors, RcLocal,
         Done, AgentClearsTry, memory, history
<1>2. \A r \in Runs : Active(r)' = Active(r) /\ (KindOf(r) /\ (Active(r) => phase' \in Serving) => KindOf(r)')
  BY <1>1 DEF Active, KindOf
<1>3. CASE phase \notin Serving
  <2>1. \A r \in Runs : ~Active(r) /\ ~Active(r)' /\ KindOf(r)'
    BY <1>2, <1>3 DEF SettingsInv, KindOf
  <2>2. ASSUME Undisturbed
        PROVE  BootSettings' /\ (phase' \in Serving => AtRest')
    <3>1. BootSettings /\ TarThere /\ files \in Settings /\ tgz \in Settings \cup {Missing}
      BY <2>2 DEF SettingsInv, DualInv, TypeOK
    <3> USE <3>1 DEF BootSettings, Stored, Good, Serving
    <3>2. CASE BootLoader
      BY <1>1, <3>2 DEF BootLoader, data
    <3>3. CASE RestoreConfig
      BY <1>1, <3>3 DEF RestoreConfig, env
    <3>4. CASE UntarConfig
      BY <1>1, <3>4 DEF UntarConfig, env, Missing
    <3>5. CASE ApplyVendors
      BY <1>1, <3>5 DEF ApplyVendors, data, AtRest
    <3>6. CASE CommitVendors
      BY <1>1, <3>6 DEF CommitVendors, env, AtRest, Missing
    <3>7. CASE RcLocal \/ Done \/ AgentClearsTry
      BY <1>3, <3>7 DEF RcLocal, Done, AgentClearsTry
    <3> QED BY <3>2, <3>3, <3>4, <3>5, <3>6, <3>7 DEF Boot
  <2>3. Undisturbed' = Undisturbed
    BY <1>1 DEF Undisturbed
  <2> QED BY <2>1, <2>2, <2>3 DEF SettingsInv, OneProcess
<1>4. CASE phase \in Serving
  <2>1. phase' \in Serving /\ UNCHANGED <<files, tgz, customized, CONF_TAR>>
    BY <1>4 DEF Boot, BootLoader, RestoreConfig, UntarConfig, ApplyVendors, CommitVendors,
                RcLocal, Done, AgentClearsTry, env, data, memory, Serving
  <2>2. phase \notin {"off", "restore", "vendor", "untar", "commit"}
        /\ phase' \notin {"off", "restore", "vendor", "untar", "commit"}
    BY <1>4, <2>1 DEF Serving
  <2>3. \A r \in Runs : KindOf(r)' /\ (RunSettings(r) => RunSettings(r)')
    BY <1>1, <1>2, <2>1 DEF SettingsInv, RunSettings, Saved, Good, Stored
  <2>4. (BootSettings => BootSettings') /\ (AtRest => AtRest') /\ Undisturbed' = Undisturbed
    BY <1>1, <2>1, <2>2 DEF BootSettings, AtRest, Good, Undisturbed
  <2> QED BY <1>2, <1>4, <2>3, <2>4 DEF SettingsInv, OneProcess, NoProcess
<1> QED BY <1>3, <1>4

(* Saving settings: the modem has its user's from then on.                 *)
LEMMA SettingsConfigure ==
    ASSUME SettingsInv, Configure
    PROVE  SettingsInv'
<1>1. /\ phase \in Serving /\ files' = "user"
      /\ UNCHANGED <<run, phase, tgz, customized, CONF_TAR, torn, overlapped>>
      /\ owner' = IF NoProcess THEN "user" ELSE owner
  BY DEF Configure, env, memory, NoProcess
<1>2. \A r \in Runs : Active(r)' = Active(r) /\ KindOf(r)'
  BY <1>1 DEF Active, KindOf, SettingsInv
<1>3. Undisturbed' = Undisturbed /\ NoProcess' = NoProcess /\ OneProcess' = OneProcess
  BY <1>1, <1>2 DEF Undisturbed, NoProcess, OneProcess
<1>4. phase \notin {"off", "restore", "vendor", "untar", "commit"}
  BY <1>1 DEF Serving
<1>5. CASE NoProcess
  <2>1. Undisturbed => AtRest' /\ BootSettings'
    BY <1>1, <1>4, <1>5 DEF SettingsInv, AtRest, Good, Missing, BootSettings
  <2> QED BY <1>2, <1>3, <1>5, <2>1 DEF SettingsInv, NoProcess
<1>6. CASE ~NoProcess
  <2>1. owner' = owner
    BY <1>1, <1>6
  <2>2. BootSettings => BootSettings'
    BY <1>1, <1>4, <2>1 DEF BootSettings
  <2>3. \A r \in Runs : RunSettings(r) => RunSettings(r)'
    BY <1>1, <2>1 DEF RunSettings, Saved, Good, Stored, Missing
  <2> QED BY <1>2, <1>3, <1>6, <2>2, <2>3 DEF SettingsInv
<1> QED BY <1>5, <1>6

-----------------------------------------------------------------------------
(* A modem that goes down outside the windows finds its settings again.    *)
LEMMA SettingsDown ==
    ASSUME DualInv, SettingsInv, GoDown
    PROVE  SettingsInv'
<1>1. /\ phase' = "off" /\ UNCHANGED <<files, tgz, customized, overlapped, owner>>
      /\ torn' = (torn \/ phase \in Windows \/ \E r \in Runs : run[r].pc \in Windows)
  BY DEF GoDown, env, data
<1>2. \A r \in Runs : run'[r].pc = "idle" /\ ~Active(r)' /\ KindOf(r)'
  BY DEF GoDown, Idle, NewRun, Active, KindOf
<1>3. ASSUME Undisturbed'
      PROVE  BootSettings'
  <2>1. Undisturbed /\ phase \notin Windows /\ \A r \in Runs : run[r].pc \notin Windows
    BY <1>1, <1>3 DEF Undisturbed
  <2>2. BootSettings /\ (phase \in Serving /\ NoProcess => AtRest)
        /\ \A r \in Runs : Active(r) => RunSettings(r)
    BY <2>1 DEF SettingsInv
  <2>3. Stored
    <3>1. CASE phase \notin Serving
      <4>1. phase \in {"off", "restore", "vendor"}
        BY <2>1, <3>1 DEF DualInv, TypeOK, Phases, Serving, Windows
      <4> QED BY <2>2, <4>1 DEF BootSettings
    <3>2. CASE phase \in Serving /\ NoProcess
      BY <2>2, <3>2 DEF AtRest, Stored
    <3>3. ASSUME NEW r \in Runs, Active(r)
          PROVE  Stored
      BY <2>1, <2>2, <3>3 DEF RunSettings, Stored, Windows
    <3> QED BY <3>1, <3>2, <3>3 DEF NoProcess
  <2> QED BY <1>1, <2>2, <2>3 DEF BootSettings, Stored, Good
<1>4. phase' \notin Serving
  BY <1>1 DEF Serving
<1> QED BY <1>2, <1>3, <1>4 DEF SettingsInv, OneProcess

-----------------------------------------------------------------------------
(* A process that begins.                                                  *)
LEMMA SettingsBegins ==
    ASSUME DualInv, SettingsInv, NEW r \in Runs, NEW new \in RunType, Begins(r, new),
           UNCHANGED <<slot, env, data, memory, downs, switched, ranOver, torn>>,
           \/ new.kind = "upgrade" /\ new.pc = IF new.keep THEN "save" ELSE "ramfs"
           \/ new.kind = "flash" /\ new.pc = "zone" /\ new.keep
           \/ new.kind = "assign" /\ new.pc = "setRoot"
           \/ new.kind = "reset" /\ new.pc = "resetEnv" /\ ~new.keep
    PROVE  SettingsInv'
<1>1. /\ phase \in Serving /\ run' = [run EXCEPT ![r] = new] /\ run \in [Runs -> RunType]
      /\ ~overlapped' => ~overlapped /\ NoProcess
      /\ owner' = IF new.keep THEN owner ELSE "vendor"
      /\ UNCHANGED <<phase, files, tgz, customized, CONF_TAR, torn>>
  BY DEF Begins, DualInv, TypeOK, env, data, memory, NoProcess
<1>2. run'[r] = new /\ \A s \in Runs \ {r} : run'[s] = run[s]
  BY <1>1
<1>3. \A s \in Runs : KindOf(s)'
  BY <1>1, <1>2 DEF SettingsInv, KindOf, Active
<1>4. ASSUME Undisturbed'
      PROVE  /\ OneProcess' /\ BootSettings'
             /\ \A s \in Runs : Active(s)' => RunSettings(s)'
             /\ Active(r)'
  <2>1. Undisturbed /\ NoProcess
    BY <1>1, <1>4 DEF Undisturbed
  <2>2. AtRest /\ BootSettings
    BY <1>1, <2>1 DEF SettingsInv
  <2>3. phase \notin {"off", "restore", "vendor", "untar", "commit"}
    BY <1>1 DEF Serving
  <2>4. BootSettings'
    BY <1>1, <2>2, <2>3 DEF BootSettings
  <2>5. Good(files)' /\ tgz' = Missing /\ customized'
    BY <1>1, <2>2 DEF AtRest, Good
  <2>6. RunSettings(r)' /\ Active(r)'
    <3>1. /\ new.pc \in {"save", "ramfs", "zone", "setRoot", "resetEnv"}
          /\ new.pc = "ramfs" => ~new.keep
          /\ new.pc = "zone" => new.kind = "flash"
          /\ new.pc = "setRoot" => new.kind = "assign"
      OBVIOUS
    <3>2. ~Saved(r)'
      BY <1>2, <3>1 DEF Saved
    <3>3. ~new.keep => owner' = "vendor"
      BY <1>1
    <3> QED BY <1>2, <2>5, <3>1, <3>2, <3>3 DEF RunSettings, Active
  <2>7. \A s \in Runs \ {r} : ~Active(s)'
    BY <1>2, <2>1 DEF NoProcess, Active
  <2> QED BY <2>4, <2>6, <2>7 DEF OneProcess
<1> QED BY <1>3, <1>4 DEF SettingsInv, NoProcess

(* The four ways to begin.                                                 *)
LEMMA SettingsStart ==
    ASSUME DualInv, SettingsInv, NEW r \in Runs,
           StartUpgrade(r) \/ StartAssign(r) \/ StartReset(r)
    PROVE  SettingsInv'
<1>0. /\ {"upgrade", "flash", "assign", "reset"} \subseteq Kinds
      /\ {"zone", "save", "ramfs", "setRoot", "resetEnv"} \subseteq RunPCs
      /\ 0 \in Zones /\ NoRev \in Revs \cup {NoRev}
  BY DEF Kinds, RunPCs, Zones
<1>1. UNCHANGED <<slot, env, data, memory, downs, switched, ranOver, torn>>
  BY DEF StartUpgrade, StartAssign, StartReset
<1>2. CASE StartUpgrade(r)
  <2>1. PICK kind \in {"upgrade", "flash"}, keep \in BOOLEAN, full \in BOOLEAN, rev \in Revs :
          /\ kind = "flash" => keep
          /\ Begins(r, NewRun(FirstStep(kind, keep), kind, keep, rev, full, 0))
    BY <1>2 DEF StartUpgrade
  <2> DEFINE new == NewRun(FirstStep(kind, keep), kind, keep, rev, full, 0)
  <2>2. FirstStep(kind, keep) = IF kind = "flash" THEN "zone" ELSE IF keep THEN "save" ELSE "ramfs"
    BY DEF FirstStep
  <2>3. /\ new \in RunType /\ new.kind = kind /\ new.keep = keep
        /\ new.pc = FirstStep(kind, keep)
    BY <1>0, <2>2 DEF NewRun, RunType
  <2> HIDE DEF new
  <2>4. \/ new.kind = "upgrade" /\ new.pc = IF new.keep THEN "save" ELSE "ramfs"
        \/ new.kind = "flash" /\ new.pc = "zone" /\ new.keep
    BY <2>1, <2>2, <2>3
  <2>5. Begins(r, new)
    BY <2>1 DEF new
  <2> QED BY <1>1, <2>3, <2>4, <2>5, SettingsBegins
<1>3. CASE StartAssign(r)
  <2>1. PICK keep \in BOOLEAN, z \in Zones :
          Begins(r, NewRun("setRoot", "assign", keep, NoRev, TRUE, z))
    BY <1>3 DEF StartAssign, VersionZones, Zones
  <2> DEFINE new == NewRun("setRoot", "assign", keep, NoRev, TRUE, z)
  <2>2. new \in RunType /\ new.kind = "assign" /\ new.pc = "setRoot"
    BY <1>0 DEF NewRun, RunType
  <2>3. Begins(r, new)
    BY <2>1
  <2> HIDE DEF new
  <2> QED BY <1>1, <2>2, <2>3, SettingsBegins
<1>4. CASE StartReset(r)
  <2> DEFINE new == NewRun("resetEnv", "reset", FALSE, NoRev, TRUE, 0)
  <2>1. new \in RunType /\ new.kind = "reset" /\ new.pc = "resetEnv" /\ ~new.keep
    BY <1>0 DEF NewRun, RunType
  <2>2. Begins(r, new)
    BY <1>4 DEF StartReset
  <2> HIDE DEF new
  <2> QED BY <1>1, <2>1, <2>2, SettingsBegins
<1> QED BY <1>2, <1>3, <1>4

-----------------------------------------------------------------------------
(* A process that goes on. Nothing but its own record changes, up to what  *)
(* two writers do to each other, and it is the only one.                   *)
LEMMA OthersKept ==
    ASSUME DualInv, NEW r \in Runs, StepsOn(r)
    PROVE  /\ run[r] \in RunType /\ run'[r] \in RunType
           /\ \A s \in Runs \ {r} : /\ run'[s].pc = run[s].pc /\ run'[s].kind = run[s].kind
                                    /\ run'[s].keep = run[s].keep
           /\ UNCHANGED <<phase, torn, overlapped, owner>>
           /\ Active(r)
<1>1. TypeOK /\ run \in [Runs -> RunType] /\ run' \in [Runs -> RunType]
  BY RunStep DEF DualInv, TypeOK
<1>2. UNCHANGED <<phase, torn, overlapped, owner>>
  BY DEF StepsOn, memory, history, SaveConffiles, RunRamfs, ReadZone, BeginWrite, EndWrite,
         FailWrite, SetZone, EraseData, CopyConfig, Uncustomize, Reset
<1>3. Active(r)
  BY DEF StepsOn, Active, SaveConffiles, RunRamfs, ReadZone, BeginWrite, EndWrite,
         FailWrite, SetZone, EraseData, CopyConfig, Uncustomize, Reset
<1>4. ASSUME NEW s \in Runs \ {r}
      PROVE  /\ run'[s].pc = run[s].pc /\ run'[s].kind = run[s].kind
             /\ run'[s].keep = run[s].keep
  <2>1. CASE BeginWrite(r)
    BY <1>1, <2>1 DEF BeginWrite, RunType
  <2>2. CASE ~BeginWrite(r)
    BY <1>1, <2>2 DEF StepsOn, Go, Quit, Leave, Written, SaveConffiles, RunRamfs, ReadZone,
                      EndWrite, FailWrite, SetZone, EraseData, CopyConfig, Uncustomize, Reset
  <2> QED BY <2>1, <2>2
<1> QED BY <1>1, <1>2, <1>3, <1>4

(* A step that keeps what a process was asked to do.                       *)
Same(r) == run'[r].kind = run[r].kind /\ run'[r].keep = run[r].keep

(* The record of a process that goes on, waits for the reboot or ends.     *)
LEMMA RecordStep ==
    ASSUME NEW r \in Runs, run \in [Runs -> RunType]
    PROVE  /\ \A pc : Go(r, pc) => run'[r].pc = pc /\ Same(r)
           /\ Leave(r) => run'[r].pc = "reboot" /\ run'[r].kind = "upgrade" /\ run'[r].keep
           /\ Quit(r) => run'[r].pc = "idle"
           /\ Written(r) => /\ run'[r].pc = "setRoot" /\ run'[r].kind = "upgrade"
                            /\ run'[r].keep = run[r].keep
<1>1. run[r] \in RunType
  OBVIOUS
<1>2. ASSUME NEW pc, Go(r, pc)
      PROVE  run'[r].pc = pc /\ Same(r)
  <2>1. run'[r] = [run[r] EXCEPT !.pc = pc]
    BY <1>2 DEF Go
  <2> QED BY <1>1, <2>1 DEF RunType, Same
<1>3. ASSUME Leave(r)
      PROVE  run'[r].pc = "reboot" /\ run'[r].kind = "upgrade" /\ run'[r].keep
  BY <1>3 DEF Leave, NewRun
<1>4. ASSUME Quit(r)
      PROVE  run'[r].pc = "idle"
  BY <1>4 DEF Quit, Idle, NewRun
<1>5. ASSUME Written(r)
      PROVE  /\ run'[r].pc = "setRoot" /\ run'[r].kind = "upgrade"
             /\ run'[r].keep = run[r].keep
  BY <1>5 DEF Written, NewRun
<1> QED BY <1>2, <1>3, <1>4, <1>5

(* Each step of a process, case by case.                                   *)
LEMMA StepSettings ==
    ASSUME DualInv, SettingsInv, NEW r \in Runs, StepsOn(r)
    PROVE  /\ KindOf(r)'
           /\ Undisturbed => /\ Active(r)' => RunSettings(r)'
                             /\ ~Active(r)' => AtRest'
                             /\ ~customized' => owner' = "vendor"
<1>1. /\ run \in [Runs -> RunType] /\ run[r] \in RunType
      /\ UNCHANGED <<phase, torn, overlapped, owner>> /\ Active(r)
  BY OthersKept DEF DualInv, TypeOK
<1>2. /\ KindOf(r) /\ phase \in Serving
      /\ Undisturbed => RunSettings(r) /\ (~customized => owner = "vendor")
  BY <1>1 DEF SettingsInv, KindOf, BootSettings
<1>3. files \in Settings /\ tgz \in Settings \cup {Missing} /\ run[r].pc # "idle"
  BY <1>1 DEF DualInv, TypeOK, Active
<1> DEFINE Goal == /\ KindOf(r)'
                   /\ Undisturbed => /\ Active(r)' => RunSettings(r)'
                                     /\ ~Active(r)' => AtRest'
                                     /\ ~customized' => owner' = "vendor"
<1> SUFFICES Goal
  OBVIOUS
(* The process ends without having touched the settings.                   *)
<1>quit. ASSUME Quit(r), UNCHANGED <<files, tgz, customized>>,
             run[r].pc \in {"ramfs", "writing"}
      PROVE  Goal
  <2>1. run'[r].pc = "idle"
    BY <1>1, <1>quit, RecordStep
  <2> QED BY <1>1, <1>2, <1>quit, <2>1 DEF KindOf, RunSettings, Active, AtRest, Good
<1> DEFINE Places == {"ramfs", "zone", "begin", "writing", "setRoot", "setStable", "setTry"}
(* The step neither saves nor erases; an assignment has nothing in memory  *)
(* before it saved.                                                        *)
<1>stay. ASSUME NEW pc \in Places \cup {"erase"}, run[r].pc \in Places,
             run'[r].pc = pc, Same(r), UNCHANGED <<files, tgz, customized, CONF_TAR>>,
             pc \in {"zone", "begin", "writing"} => run[r].kind \in {"upgrade", "flash"},
             pc \notin {"zone", "begin", "writing"} => run[r].kind \in {"upgrade", "assign"},
             run[r].kind = "upgrade" \/ run[r].pc = "ramfs" \/ ~run[r].keep
               \/ pc \notin {"ramfs", "erase"}
      PROVE  Goal
  <2>1. KindOf(r)'
    BY <1>1, <1>2, <1>stay DEF KindOf, Same, Active
  <2>2. ASSUME Undisturbed
        PROVE  RunSettings(r)' /\ Active(r)' /\ (~customized' => owner' = "vendor")
    <3>1. Saved(r)' => Good(CONF_TAR)'
      <4>1. Saved(r)' => Saved(r)
        BY <1>1, <1>2, <1>stay DEF Saved, Same, KindOf
      <4> QED BY <1>1, <1>2, <1>stay, <2>2, <4>1 DEF RunSettings, Good
    <3> QED BY <1>1, <1>2, <1>stay, <2>2, <3>1 DEF RunSettings, Good, Same, Active
  <2> QED BY <2>1, <2>2
(* Nothing is left to do but the reboot.                                   *)
<1>leave. ASSUME Leave(r), KindOf(r),
             Undisturbed => Stored' /\ (~customized' => owner = "vendor")
      PROVE  Goal
  <2>1. run'[r].pc = "reboot" /\ run'[r].kind = "upgrade" /\ run'[r].keep
    BY <1>1, <1>leave, RecordStep
  <2> QED BY <1>1, <1>2, <1>leave, <2>1 DEF KindOf, RunSettings, Active, Saved
<1>5. CASE SaveConffiles(r)
  <2>1. /\ run[r].pc = "save" /\ run'[r].pc = "ramfs" /\ Same(r) /\ CONF_TAR' = files
        /\ UNCHANGED <<files, tgz, customized>>
    BY <1>1, <1>5, RecordStep DEF SaveConffiles, data, env
  <2> QED BY <1>1, <1>2, <2>1 DEF KindOf, RunSettings, Active, Saved, Good, Same
<1>6. CASE RunRamfs(r)
  <2>1. run[r].pc = "ramfs" /\ UNCHANGED <<files, tgz, customized, CONF_TAR>>
    BY <1>6 DEF RunRamfs, data, env, memory
  <2>2. CASE Quit(r)
    BY <1>quit, <2>1, <2>2
  <2>3. CASE Go(r, IF run[r].kind = "upgrade" THEN "zone" ELSE "erase")
    <3>1. run'[r].pc = (IF run[r].kind = "upgrade" THEN "zone" ELSE "erase") /\ Same(r)
      BY <1>1, <2>3, RecordStep
    <3>2. run[r].kind \in {"upgrade", "assign"}
      BY <1>2, <2>1 DEF KindOf
    <3> QED BY <1>stay, <2>1, <3>1, <3>2
  <2> QED BY <1>6, <2>2, <2>3 DEF RunRamfs
<1>7. CASE ReadZone(r)
  <2>1. /\ run[r].pc = "zone" /\ run'[r].pc = "begin" /\ Same(r)
        /\ UNCHANGED <<files, tgz, customized, CONF_TAR>>
    BY <1>1, <1>7 DEF ReadZone, RunType, Same, data, env, memory
  <2> QED BY <1>2, <1>stay, <2>1 DEF KindOf
<1>8. CASE BeginWrite(r)
  <2>1. /\ run[r].pc = "begin" /\ run'[r].pc = "writing" /\ Same(r)
        /\ UNCHANGED <<files, tgz, customized, CONF_TAR>>
    BY <1>1, <1>8 DEF BeginWrite, RunType, Same, data, env, memory
  <2> QED BY <1>2, <1>stay, <2>1 DEF KindOf
<1>9. CASE EndWrite(r)
  <2>1. /\ run[r].pc = "writing" /\ UNCHANGED <<files, tgz, customized, CONF_TAR>>
        /\ run[r].kind \in {"upgrade", "flash"}
    BY <1>2, <1>9 DEF EndWrite, KindOf, data, env, memory
  <2>2. CASE run[r].kind = "flash"
    BY <1>9, <1>quit, <2>1, <2>2 DEF EndWrite
  <2>3. CASE run[r].kind = "upgrade"
    <3>1. run'[r].pc = "setRoot" /\ Same(r)
      BY <1>1, <1>9, <2>3, RecordStep DEF EndWrite, Same
    <3> QED BY <1>stay, <2>1, <2>3, <3>1
  <2> QED BY <2>1, <2>2, <2>3
<1>10. CASE FailWrite(r)
  <2>1. run[r].pc = "writing" /\ UNCHANGED <<files, tgz, customized, CONF_TAR>>
    BY <1>10 DEF FailWrite, data, env, memory
  <2>2. CASE Quit(r)
    BY <1>quit, <2>1, <2>2
  <2>3. CASE Leave(r)
    BY <1>1, <1>2, <1>leave, <2>1, <2>3 DEF RunSettings, Stored, Good
  <2> QED BY <1>10, <2>2, <2>3 DEF FailWrite
<1>11. CASE SetZone(r)
  <2>1. UNCHANGED <<files, tgz, customized, CONF_TAR>>
    BY <1>11 DEF SetZone, data, env, memory
  <2>2. CASE run[r].pc = "setRoot"
    <3>1. run'[r].pc = "setStable" /\ Same(r)
      BY <1>1, <1>11, <2>2, RecordStep DEF SetZone
    <3> QED BY <1>2, <1>stay, <2>1, <2>2, <3>1 DEF KindOf
  <2>3. CASE run[r].pc = "setStable"
    <3>1. run'[r].pc = "setTry" /\ Same(r)
      BY <1>1, <1>11, <2>3, RecordStep DEF SetZone
    <3> QED BY <1>2, <1>stay, <2>1, <2>3, <3>1 DEF KindOf
  <2>4. CASE run[r].pc = "setTry"
    <3>1. run[r].kind \in {"upgrade", "assign"}
      BY <1>2, <2>4 DEF KindOf
    <3>2. CASE run[r].kind = "assign" /\ run[r].keep
      <4>1. run'[r].pc = "save" /\ Same(r)
        BY <1>1, <1>11, <2>4, <3>2, RecordStep DEF SetZone
      <4> QED BY <1>1, <1>2, <2>1, <2>4, <3>2, <4>1 DEF KindOf, RunSettings, Active, Saved, Good, Same
    <3>3. CASE run[r].kind = "upgrade"
      <4>1. run'[r].pc = "erase" /\ Same(r)
        BY <1>1, <1>11, <2>4, <3>3, RecordStep DEF SetZone
      <4> QED BY <1>stay, <2>1, <2>4, <3>3, <4>1
    <3>4. CASE run[r].kind = "assign" /\ ~run[r].keep
      <4>1. run'[r].pc = "ramfs" /\ Same(r)
        BY <1>1, <1>11, <2>4, <3>4, RecordStep DEF SetZone
      <4> QED BY <1>stay, <2>1, <2>4, <3>4, <4>1
    <3> QED BY <3>1, <3>2, <3>3, <3>4
  <2> QED BY <1>11, <2>2, <2>3, <2>4 DEF SetZone
<1>12. CASE EraseData(r)
  <2>1. run[r].pc = "erase" /\ UNCHANGED <<customized, CONF_TAR>>
    BY <1>12 DEF EraseData, env, memory
  <2>2. CASE Leave(r) /\ UNCHANGED data
    BY <1>1, <1>2, <1>leave, <2>1, <2>2 DEF RunSettings, Stored, Good, data
  <2>3. CASE tgz' = Missing /\ Go(r, IF run[r].keep THEN "copy" ELSE "custom")
    <3>1. run'[r].pc = (IF run[r].keep THEN "copy" ELSE "custom") /\ Same(r)
      BY <1>1, <2>3, RecordStep
    <3>2. run[r].kind \in {"upgrade", "assign"} /\ run[r].keep \in BOOLEAN
      BY <1>1, <1>2, <2>1 DEF KindOf, RunType
    <3>3. KindOf(r)'
      BY <1>1, <1>2, <3>1, <3>2 DEF KindOf, Same
    <3>4. Active(r)' /\ (Saved(r)' => Saved(r)) /\ run'[r].pc \in {"copy", "custom"}
      BY <2>1, <3>1 DEF Active, Saved, Same
    <3>5. ASSUME Undisturbed
          PROVE  RunSettings(r)' /\ (~customized' => owner' = "vendor")
      BY <1>1, <1>2, <2>1, <2>3, <3>1, <3>4, <3>5 DEF RunSettings, Same, Good
    <3> QED BY <3>3, <3>4, <3>5
  <2> QED BY <1>12, <2>2, <2>3 DEF EraseData
<1>13. CASE CopyConfig(r)
  <2>1. /\ run[r].pc = "copy" /\ Leave(r) /\ tgz' = CONF_TAR
        /\ UNCHANGED <<files, customized>>
    BY <1>13 DEF CopyConfig, env
  <2>2. Undisturbed => Good(CONF_TAR)
    BY <1>2, <2>1 DEF KindOf, RunSettings, Saved
  <2> QED BY <1>1, <1>2, <1>leave, <2>1, <2>2 DEF Stored, Good
<1>14. CASE Uncustomize(r)
  <2>1. run[r].pc = "custom" /\ Leave(r) /\ ~customized' /\ UNCHANGED <<files, tgz>>
    BY <1>14 DEF Uncustomize, ClearCustomized, data
  <2>2. Undisturbed => owner = "vendor" /\ tgz = Missing
    BY <1>2, <2>1 DEF KindOf, RunSettings
  <2> QED BY <1>1, <1>2, <1>leave, <2>1, <2>2 DEF Stored
<1>15. CASE Reset(r)
  <2>1. CASE run[r].pc = "resetEnv"
    <3>1. /\ run'[r].pc = "resetErase" /\ Same(r) /\ ~customized'
          /\ UNCHANGED <<files, tgz, CONF_TAR>>
      BY <1>1, <1>15, <2>1, RecordStep DEF Reset, data, memory
    <3>2. ~run[r].keep /\ (Undisturbed => owner = "vendor")
      BY <1>2, <2>1 DEF KindOf, RunSettings
    <3> QED BY <1>1, <1>2, <2>1, <3>1, <3>2 DEF KindOf, RunSettings, Active, Saved, Good, Same
  <2>2. CASE run[r].pc = "resetErase"
    <3>1. Leave(r) /\ tgz' = Missing /\ UNCHANGED customized
      BY <1>15, <2>2 DEF Reset, env
    <3>2. Undisturbed => owner = "vendor" /\ ~customized
      BY <1>2, <2>2 DEF KindOf, RunSettings
    <3> QED BY <1>1, <1>2, <1>leave, <3>1, <3>2 DEF Stored
  <2> QED BY <1>15, <2>1, <2>2 DEF Reset
<1> QED BY <1>5, <1>6, <1>7, <1>8, <1>9, <1>10, <1>11, <1>12, <1>13, <1>14, <1>15 DEF StepsOn

(* The others do nothing meanwhile, unless two processes overlap.          *)
LEMMA SettingsStepsOn ==
    ASSUME DualInv, SettingsInv, NEW r \in Runs, StepsOn(r)
    PROVE  SettingsInv'
<1>1. /\ UNCHANGED <<phase, torn, overlapped, owner>> /\ Active(r)
      /\ \A s \in Runs \ {r} : /\ run'[s].pc = run[s].pc /\ run'[s].kind = run[s].kind
                                /\ run'[s].keep = run[s].keep
  BY OthersKept
<1>2. phase \in Serving /\ \A s \in Runs : KindOf(s)
  BY <1>1 DEF SettingsInv, KindOf
<1>3. \A s \in Runs : KindOf(s)'
  <2>1. \A s \in Runs \ {r} : KindOf(s)'
    BY <1>1, <1>2 DEF KindOf, Active
  <2> QED BY <2>1, StepSettings
<1>4. ASSUME Undisturbed'
      PROVE  /\ OneProcess' /\ BootSettings'
             /\ phase' \in Serving /\ NoProcess' => AtRest'
             /\ \A s \in Runs : Active(s)' => RunSettings(s)'
  <2>1. Undisturbed
    BY <1>1, <1>4 DEF Undisturbed
  <2>2. \A s \in Runs \ {r} : ~Active(s) /\ ~Active(s)'
    BY <1>1, <2>1 DEF SettingsInv, OneProcess, Active
  <2>3. BootSettings'
    BY <1>1, <1>2, <2>1, StepSettings DEF BootSettings, Serving
  <2> QED BY <2>1, <2>2, <2>3, StepSettings DEF OneProcess, NoProcess
<1> QED BY <1>3, <1>4 DEF SettingsInv

-----------------------------------------------------------------------------
(* The theorems.                                                           *)

LEMMA SettingsStep == DualInv /\ SettingsInv /\ [Next]_vars => SettingsInv'
<1> SUFFICES ASSUME DualInv, SettingsInv, [Next]_vars PROVE SettingsInv'
  OBVIOUS
<1>1. CASE Next
  BY <1>1, Steps, SettingsBoot, SettingsConfigure, SettingsDown, SettingsStart,
     SettingsStepsOn
<1>2. CASE UNCHANGED vars
  <2>1. UNCHANGED <<files, tgz, customized, phase, CONF_TAR, run, torn, overlapped, owner>>
    BY <1>2 DEF vars, env, data, memory, history
  <2>2. /\ \A r \in Runs : /\ KindOf(r)' = KindOf(r) /\ Active(r)' = Active(r)
                            /\ RunSettings(r)' = RunSettings(r)
        /\ Undisturbed' = Undisturbed /\ BootSettings' = BootSettings /\ AtRest' = AtRest
    BY <2>1 DEF KindOf, Active, RunSettings, Undisturbed, BootSettings, AtRest, Saved, Good,
                Stored
  <2> QED BY <2>1, <2>2 DEF SettingsInv, OneProcess, NoProcess
<1> QED BY <1>1, <1>2

(* Where the settings of the modem are, on every step of the way.          *)
THEOREM SettingsInvariant == Spec => []SettingsInv
<1> QED BY SettingsInit, SettingsStep, DualInvariant, PTL DEF Spec

(* A modem that serves has settings, unless it went down in one of the     *)
(* windows or two sysupgrade processes overlapped.                         *)
THEOREM NeverBareHolds == Spec => []NeverBare
<1>1. SettingsInv => NeverBare
  BY DEF SettingsInv, NeverBare, Undisturbed, NoProcess, AtRest, Good
<1> QED BY <1>1, SettingsInvariant, PTL

(* They are those of the user, if the user set any and did not ask for     *)
(* them to be erased, with the same exceptions.                            *)
THEOREM SettingsSurviveHolds == Spec => []SettingsSurvive
<1>1. SettingsInv => SettingsSurvive
  BY DEF SettingsInv, SettingsSurvive, Undisturbed, NoProcess, AtRest, Good
<1> QED BY <1>1, SettingsInvariant, PTL
=============================================================================
