------------------------------ MODULE DualImage ------------------------------
(***************************************************************************)
(* The modem's two firmware images and its settings: sysupgrade with       *)
(* lib/upgrade, the reset button, and what the boot scripts do with the    *)
(* flash. Nothing here is atomic: an image, each variable of the boot      *)
(* environment and the settings are written one after the other, and the   *)
(* power can go between any two. sysupgrade takes no lock: the agent, the  *)
(* web pages and a shell may each run one (`Runs').                        *)
(***************************************************************************)
EXTENDS Integers

CONSTANTS
    Runs,        \* sysupgrade processes
    Revs,        \* revisions of firmware images
    NoRev,       \* no revision: an erased header, or no -V on the command line
    None,        \* no zone: the modem is off
    TryLimit,    \* starts the boot loader gives an image
    MaxDowns,    \* bound on power cuts and reboots of the agent
    MaxStarts    \* bound on sysupgrade calls

ASSUME DualAssumption ==
    /\ NoRev \notin Revs
    /\ None \notin {0, 1}
    /\ TryLimit \in Nat \ {0} /\ MaxDowns \in Nat /\ MaxStarts \in Nat

VARIABLES
    \* on the flash
    slot,         \* zone -> [rev, whole]: partitions firmware and firmware2
    root_zone, Stable, Try,   \* the boot environment; Image<n>Stable, Image<n>Try
    customized,
    files, tgz,   \* rootfs_data: the settings, and sysupgrade.tgz beside them
    \* in memory
    phase,        \* how far the modem has started
    running,      \* the zone it runs from, or None
    CONF_TAR,     \* /tmp/sysupgrade.tgz
    doneZone,     \* root_zone as `done' read it
    run,          \* the sysupgrade processes
    \* bounds and history
    downs, starts,
    switched,     \* set_zone ran since the modem started
    ranOver,      \* the image that ran was written over
    torn,         \* the modem went down in one of the Windows
    overlapped,   \* two sysupgrade processes ran at once
    owner         \* whose settings the modem should have

env      == <<root_zone, Stable, Try, customized>>
data     == <<files, tgz>>
memory   == <<phase, running, CONF_TAR, doneZone>>
history  == <<switched, ranOver, torn, overlapped, owner>>
bounds   == <<downs, starts>>
vars     == <<slot, env, data, memory, run, bounds, history>>

-----------------------------------------------------------------------------
Zones    == {0, 1}
Other(z) == 1 - z
Settings == {"user", "vendor", "blank"}
Missing  == "missing"

Kinds == {"upgrade", "flash", "assign", "reset"}
NewRun(pc, kind, keep, rev, full, part) ==
    [pc |-> pc, kind |-> kind, keep |-> keep, rev |-> rev, full |-> full, part |-> part,
     spoilt |-> FALSE]
Idle == NewRun("idle", "upgrade", TRUE, NoRev, TRUE, 0)

RunPCs == {"idle", "save", "ramfs", "zone", "begin", "writing", "setRoot", "setStable",
           "setTry", "erase", "copy", "custom", "reboot", "resetEnv", "resetErase"}
Phases == {"off", "restore", "untar", "vendor", "commit", "rclocal", "done", "doneTry", "up"}
Serving == {"rclocal", "done", "doneTry", "up"}

(* Where the settings are in memory only, or erased and not yet replaced,  *)
(* or do not match customized.                                             *)
Windows == {"untar", "commit", "copy", "custom"}

Active(r) == run[r].pc # "idle"
Go(r, pc) == run' = [run EXCEPT ![r].pc = pc]
Quit(r)   == run' = [run EXCEPT ![r] = Idle]
Leave(r)  == run' = [run EXCEPT ![r] = NewRun("reboot", "upgrade", TRUE, NoRev, TRUE, 0)]

(* A modem that has been used: it was set up by its vendor, and the spare  *)
(* partition holds the image it came with or none.                         *)
Init ==
    /\ slot \in [Zones -> [rev : Revs \cup {NoRev}, whole : BOOLEAN]]
    /\ root_zone = 0 /\ slot[0].whole /\ slot[0].rev \in Revs
    /\ slot[1].whole = (slot[1].rev \in Revs)
    /\ Stable = [z \in Zones |-> slot[z].whole] /\ Try = [z \in Zones |-> 0]
    /\ customized = TRUE /\ files = "vendor" /\ tgz = Missing
    /\ phase = "off" /\ running = None /\ CONF_TAR = Missing /\ doneZone = 0
    /\ run = [r \in Runs |-> Idle]
    /\ downs = 0 /\ starts = 0
    /\ switched = FALSE /\ ranOver = FALSE /\ torn = FALSE /\ overlapped = FALSE
    /\ owner = "vendor"

-----------------------------------------------------------------------------
(* Starting and stopping.                                                  *)

(* The boot loader. It counts a start against the image of root_zone, and  *)
(* turns to the other image when one has used up its starts.               *)
BootLoader ==
    /\ phase = "off"
    /\ IF Try[root_zone] < TryLimit
       THEN /\ Try' = [Try EXCEPT ![root_zone] = @ + 1]
            /\ UNCHANGED root_zone
            /\ IF slot[root_zone].whole
               THEN running' = root_zone /\ phase' = "restore"
               ELSE UNCHANGED <<running, phase>>
       ELSE /\ root_zone' = Other(root_zone)
            /\ Try' = [Try EXCEPT ![root_zone'] = 0]
            /\ UNCHANGED <<running, phase>>
    /\ UNCHANGED <<slot, Stable, customized, data, CONF_TAR, doneZone, run, bounds, history>>

(* restore_config: the archive is moved to memory, then unpacked.          *)
RestoreConfig_NoMove ==
    /\ phase = "restore" /\ phase' = "untar" /\ tgz' = Missing
    /\ UNCHANGED <<slot, env, files, running, CONF_TAR, doneZone, run, bounds, history>>
RestoreConfig ==
    /\ phase = "restore"
    /\ IF tgz # Missing
       THEN CONF_TAR' = tgz /\ tgz' = Missing /\ phase' = "untar"
       ELSE phase' = "vendor" /\ UNCHANGED <<CONF_TAR, tgz>>
    /\ UNCHANGED <<slot, env, files, running, doneZone, run, bounds, history>>

UntarConfig ==
    /\ phase = "untar" /\ phase' = "vendor"
    /\ files' = CONF_TAR /\ CONF_TAR' = Missing
    /\ UNCHANGED <<slot, env, tgz, running, doneZone, run, bounds, history>>

(* uci_apply_vendors: customized is set before the scripts have run.       *)
ApplyVendors_Twice ==
    /\ phase = "vendor" /\ phase' = "commit"
    /\ customized' = TRUE
    /\ UNCHANGED <<slot, root_zone, Stable, Try, data, running, CONF_TAR, doneZone, run,
                   bounds, history>>
ApplyVendors ==
    /\ phase = "vendor"
    /\ IF customized
       THEN phase' = "rclocal" /\ UNCHANGED customized
       ELSE phase' = "commit" /\ customized' = TRUE
    /\ UNCHANGED <<slot, root_zone, Stable, Try, data, running, CONF_TAR, doneZone, run,
                   bounds, history>>

CommitVendors ==
    /\ phase = "commit" /\ phase' = "rclocal"
    /\ files' = "vendor"
    /\ UNCHANGED <<slot, env, tgz, running, CONF_TAR, doneZone, run, bounds, history>>

(* rc.local returns when the agent gives up; until then `done' waits.      *)
RcLocal ==
    /\ phase = "rclocal" /\ phase' = "done"
    /\ UNCHANGED <<slot, env, data, running, CONF_TAR, doneZone, run, bounds, history>>

(* `done' flags an image stable and clears its count of starts: the image  *)
(* root_zone names by then.                                                *)
Confirmed_Spare == Other(running)
Confirmed == root_zone

Done ==
    \/ /\ phase = "done" /\ phase' = "doneTry"
       /\ doneZone' = Confirmed
       /\ Stable' = [Stable EXCEPT ![Confirmed] = TRUE]
       /\ UNCHANGED <<slot, root_zone, Try, customized, data, running, CONF_TAR, run, bounds,
                      history>>
    \/ /\ phase = "doneTry" /\ phase' = "up"
       /\ Try' = [Try EXCEPT ![doneZone] = 0]
       /\ doneZone' = 0
       /\ UNCHANGED <<slot, root_zone, Stable, customized, data, running, CONF_TAR, run, bounds,
                      history>>

(* BootChecker of the agent, on the first boots after the settings were    *)
(* erased.                                                                 *)
AgentClearsTry ==
    /\ phase = "rclocal"
    /\ Try' = [z \in Zones |-> 0]
    /\ UNCHANGED <<slot, root_zone, Stable, customized, data, memory, run, bounds, history>>

(* Somebody saves settings. While a sysupgrade runs, nothing is promised   *)
(* about them.                                                             *)
Configure ==
    /\ phase \in Serving
    /\ files' = "user"
    /\ owner' = IF \E r \in Runs : Active(r) THEN owner ELSE "user"
    /\ UNCHANGED <<slot, env, tgz, memory, run, bounds, switched, ranOver, torn, overlapped>>

(* Everything in memory is gone.                                           *)
GoDown ==
    /\ phase' = "off" /\ running' = None /\ CONF_TAR' = Missing /\ doneZone' = 0
    /\ run' = [r \in Runs |-> Idle]
    /\ switched' = FALSE
    /\ torn' = (torn \/ phase \in Windows \/ \E r \in Runs : run[r].pc \in Windows)
    /\ UNCHANGED <<slot, env, data, ranOver, overlapped, owner>>

(* A power cut, or a reboot the agent asks for.                            *)
Down == /\ phase # "off"
        /\ downs < MaxDowns /\ downs' = downs + 1
        /\ GoDown
        /\ UNCHANGED starts

-----------------------------------------------------------------------------
(* sysupgrade.                                                             *)

Begins(r, new) ==
    /\ phase \in Serving /\ run[r].pc = "idle"
    /\ starts < MaxStarts /\ starts' = starts + 1
    /\ run' = [run EXCEPT ![r] = new]
    /\ overlapped' = (overlapped \/ \E s \in Runs : Active(s))
    /\ owner' = IF new.keep THEN owner ELSE "vendor"

(* An image that passed platform_check_image, which looks at its first     *)
(* bytes only. -w writes it and leaves the rest for later.                 *)
FirstStep(kind, keep) ==
    IF kind = "flash" THEN "zone" ELSE IF keep THEN "save" ELSE "ramfs"

StartUpgrade(r) ==
    /\ \E kind \in {"upgrade", "flash"}, keep, full \in BOOLEAN, rev \in Revs :
         /\ kind = "flash" => keep
         /\ Begins(r, NewRun(FirstStep(kind, keep), kind, keep, rev, full, 0))
    /\ UNCHANGED <<slot, env, data, memory, downs, switched, ranOver, torn>>

(* set_zone "$VerID". With a version: the image with this revision, if one *)
(* has it and the other not. Without: PART_NAME as platform.sh sets it.    *)
VersionZones(v) ==
    IF v = NoRev THEN {0}
    ELSE {z \in Zones : slot[z].rev = v /\ slot[Other(z)].rev # v}

StartAssign(r) ==
    /\ \E keep \in BOOLEAN, v \in Revs \cup {NoRev} : \E z \in VersionZones(v) :
         Begins(r, NewRun("setRoot", "assign", keep, NoRev, TRUE, z))
    /\ UNCHANGED <<slot, env, data, memory, downs, switched, ranOver, torn>>

(* do_save_conffiles.                                                      *)
SaveConffiles(r) ==
    /\ run[r].pc = "save" /\ Go(r, "ramfs")
    /\ CONF_TAR' = files
    /\ UNCHANGED <<slot, env, data, phase, running, doneZone, bounds, history>>

(* run_ramfs, which may fail to switch over.                               *)
RunRamfs(r) ==
    /\ run[r].pc = "ramfs"
    /\ \/ Go(r, IF run[r].kind = "upgrade" THEN "zone" ELSE "erase")
       \/ Quit(r)
    /\ UNCHANGED <<slot, env, data, memory, bounds, history>>

(* default_do_upgrade: the image root_zone does not name.                  *)
SpareZone_Root == root_zone
SpareZone_Preset == 0
SpareZone == Other(root_zone)

ReadZone(r) ==
    /\ run[r].pc = "zone"
    /\ run' = [run EXCEPT ![r].pc = "begin", ![r].part = SpareZone]
    /\ UNCHANGED <<slot, env, data, memory, bounds, history>>

(* mtd write: the old image is gone at once. Two writers spoil each        *)
(* other's image.                                                          *)
Writers(z) == {r \in Runs : run[r].pc = "writing" /\ run[r].part = z}

BeginWrite(r) ==
    /\ run[r].pc = "begin"
    /\ \E rev \in {NoRev, run[r].rev} :
         slot' = [slot EXCEPT ![run[r].part] = [rev |-> rev, whole |-> FALSE]]
    /\ run' = [s \in Runs |->
                 IF s = r
                 THEN [run[r] EXCEPT !.pc = "writing", !.spoilt = Writers(run[r].part) # {}]
                 ELSE [run[s] EXCEPT !.spoilt = @ \/ s \in Writers(run[r].part)]]
    /\ ranOver' = (ranOver \/ (switched /\ run[r].part = running))
    /\ UNCHANGED <<env, data, memory, bounds, switched, torn, overlapped, owner>>

(* The image is in the flash, and not asked about again.                   *)
Written(r) ==
    run' = [run EXCEPT ![r] = NewRun("setRoot", "upgrade", run[r].keep, NoRev, TRUE, run[r].part)]

(* The pipe ends well when mtd does, also when it was fed half an image.   *)
EndWrite(r) ==
    /\ run[r].pc = "writing"
    /\ slot' = [slot EXCEPT ![run[r].part] =
                  [rev |-> run[r].rev, whole |-> run[r].full /\ ~run[r].spoilt]]
    /\ IF run[r].kind = "flash" THEN Quit(r) ELSE Written(r)
    /\ UNCHANGED <<env, data, memory, bounds, history>>

(* mtd fails: the rest is skipped, but not the reboot.                     *)
FailWrite(r) ==
    /\ run[r].pc = "writing"
    /\ IF run[r].kind = "flash" THEN Quit(r) ELSE Leave(r)
    /\ UNCHANGED <<slot, env, data, memory, bounds, history>>

SetZone(r) ==
    \/ /\ run[r].pc = "setRoot" /\ Go(r, "setStable")
       /\ root_zone' = run[r].part
       /\ switched' = TRUE
       /\ UNCHANGED <<slot, Stable, Try, customized, data, memory, bounds, ranOver, torn,
                      overlapped, owner>>
    \/ /\ run[r].pc = "setStable" /\ Go(r, "setTry")
       /\ Stable' = [Stable EXCEPT ![run[r].part] = FALSE]
       /\ UNCHANGED <<slot, root_zone, Try, customized, data, memory, bounds, history>>
    \/ /\ run[r].pc = "setTry"
       /\ Go(r, CASE run[r].kind = "upgrade" -> "erase"
                  [] run[r].kind = "assign" /\ run[r].keep -> "save"
                  [] OTHER -> "ramfs")
       /\ Try' = [Try EXCEPT ![run[r].part] = 0]
       /\ UNCHANGED <<slot, root_zone, Stable, customized, data, memory, bounds, history>>

(* The settings: erased, and for -n customized is cleared after that;      *)
(* otherwise the archive is written into the erased partition.             *)
EraseData(r) ==
    /\ run[r].pc = "erase"
    /\ \/ /\ files' = "blank" /\ tgz' = Missing
          /\ Go(r, IF run[r].keep THEN "copy" ELSE "custom")
       \/ /\ Leave(r)                         \* mtd fails
          /\ UNCHANGED data
    /\ UNCHANGED <<slot, env, memory, bounds, history>>

CopyConfig(r) ==
    /\ run[r].pc = "copy" /\ Leave(r)
    /\ tgz' = CONF_TAR
    /\ UNCHANGED <<slot, env, files, memory, bounds, history>>

ClearCustomized_Not == customized
ClearCustomized == FALSE

Uncustomize(r) ==
    /\ run[r].pc = "custom" /\ Leave(r)
    /\ customized' = ClearCustomized
    /\ UNCHANGED <<slot, root_zone, Stable, Try, data, memory, bounds, history>>

(* The reset button and the reset of the web pages: the other way round.   *)
StartReset(r) ==
    /\ Begins(r, NewRun("resetEnv", "reset", FALSE, NoRev, TRUE, 0))
    /\ UNCHANGED <<slot, env, data, memory, downs, switched, ranOver, torn>>

Reset(r) ==
    \/ /\ run[r].pc = "resetEnv" /\ Go(r, "resetErase")
       /\ customized' = FALSE
       /\ UNCHANGED <<slot, root_zone, Stable, Try, data, memory, bounds, history>>
    \/ /\ run[r].pc = "resetErase" /\ Leave(r)
       /\ files' = "blank" /\ tgz' = Missing
       /\ UNCHANGED <<slot, env, memory, bounds, history>>

Reboot(r) == run[r].pc = "reboot" /\ GoDown /\ UNCHANGED bounds

-----------------------------------------------------------------------------
Boot == \/ BootLoader \/ RestoreConfig \/ UntarConfig \/ ApplyVendors \/ CommitVendors
        \/ RcLocal \/ Done \/ AgentClearsTry

Sysupgrade(r) == \/ StartUpgrade(r) \/ StartAssign(r) \/ SaveConffiles(r) \/ RunRamfs(r)
                 \/ ReadZone(r) \/ BeginWrite(r) \/ EndWrite(r) \/ FailWrite(r)
                 \/ SetZone(r) \/ EraseData(r) \/ CopyConfig(r) \/ Uncustomize(r)
                 \/ StartReset(r) \/ Reset(r) \/ Reboot(r)

Next == Boot \/ Configure \/ Down \/ \E r \in Runs : Sysupgrade(r)

Spec == Init /\ [][Next]_vars

-----------------------------------------------------------------------------
(* Properties.                                                             *)

RunType == [pc : RunPCs, kind : Kinds, keep : BOOLEAN, rev : Revs \cup {NoRev},
            full : BOOLEAN, part : Zones, spoilt : BOOLEAN]

(* Every variable holds a value of its kind, and the modem runs from a     *)
(* zone exactly when it is not off.                                        *)
TypeOK ==
    /\ slot \in [Zones -> [rev : Revs \cup {NoRev}, whole : BOOLEAN]]
    /\ root_zone \in Zones /\ Stable \in [Zones -> BOOLEAN] /\ Try \in [Zones -> 0..TryLimit]
    /\ customized \in BOOLEAN
    /\ files \in Settings /\ tgz \in Settings \cup {Missing}
    /\ CONF_TAR \in Settings \cup {Missing}
    /\ phase \in Phases /\ running \in Zones \cup {None}
    /\ (running = None) = (phase = "off")
    /\ doneZone \in Zones
    /\ run \in [Runs -> RunType]
    /\ downs \in 0..MaxDowns /\ starts \in 0..MaxStarts
    /\ switched \in BOOLEAN /\ ranOver \in BOOLEAN /\ overlapped \in BOOLEAN
    /\ torn \in BOOLEAN
    /\ owner \in {"user", "vendor"}

(* Whatever is upgraded and whenever the power goes, one image is complete *)
(* and the image that runs is, unless an upgrade wrote over the image that *)
(* ran, which takes a root_zone already moved by an earlier set_zone of    *)
(* the same boot: an assignment that could not switch to the ramdisk, or a *)
(* second sysupgrade.                                                      *)
NoBrick ==
    \/ ranOver
    \/ /\ \E z \in Zones : slot[z].whole
       /\ running # None => slot[running].whole

(* `done' confirms the image that runs, unless set_zone has moved          *)
(* root_zone while rc.local ran: then it flags as stable an image that has *)
(* not been started yet.                                                   *)
ConfirmsWhatRuns ==
    [][\A z \in Zones : ~Stable[z] /\ Stable'[z] => z = running \/ switched]_vars

(* A modem that serves has the settings of its user or of its vendor,      *)
(* unless it went down with the only copy in memory, with the partition    *)
(* erased and nothing written to it yet, or with customized not yet        *)
(* matching it; or two sysupgrade processes got in each other's way.       *)
NeverBare ==
    phase \in Serving /\ ~torn /\ ~overlapped /\ (\A r \in Runs : ~Active(r))
        => files # "blank"

(* The settings of the user survive every upgrade, assignment and power    *)
(* cut that did not ask for them to be erased, with the same exceptions.   *)
SettingsSurvive ==
    /\ phase \in Serving /\ ~torn /\ ~overlapped /\ (\A r \in Runs : ~Active(r))
    /\ owner = "user"
    => files = "user"

-----------------------------------------------------------------------------
(* The two images as TwoImages sees them.                                  *)
Whole == {z \in Zones : slot[z].whole}
Images == INSTANCE TwoImages WITH whole <- Whole, runs <- running, moved <- switched,
                                  overrun <- ranOver

(* sysupgrade, the boot scripts and the boot loader together keep what     *)
(* TwoImages promises.                                                     *)
KeepsTwoImages == Images!Spec
=============================================================================
