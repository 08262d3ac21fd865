# A verification project for firmware-mod-kit with the master modem agent

The repository holds two programs of its own and a lot of imported code.

* **The agent** (`project_master_modem/`, copied into the image at
  `fmk/rootfs/etc/project_master_modem`): Lua programs that boot a modem, bring
  up its uplink, install two packages and then keep the modem's settings in step
  with a record on an Odoo server.
* **The kit** (`extract-firmware.sh`, `build-firmware.sh` and their helpers):
  shell scripts and small C programs that take a vendor's firmware image apart
  and put a new one together, with the agent in its root file system.

Between them lies the modem's own upgrade (`fmk/rootfs/sbin/sysupgrade`,
`lib/upgrade`): the agent calls it, and it flashes what the kit has built.

This directory models seven components in TLA+, checks the models with TLC on
small instances, and proves every safety property the runs check with TLAPS for
every instance. One of them, the flash of the modem, is shown to implement an
abstract specification.

Contents: [Inventory](#inventory) · [OdooBridge](#odoobridge) ·
[MasterInit](#masterinit) · [DualImage](#dualimage-and-twoimages) ·
[FirmwareKit](#firmwarekit) · [UnsquashfsAll](#unsquashfsall) ·
[Crcalc](#crcalc) · [WebPages](#webpages) · [Runs](#runs) ·
[Fairness](#fairness) · [What is proved](#what-is-proved) ·
[What disagrees with the code's own words](#what-disagrees-with-the-codes-own-words) ·
[Not modelled](#not-modelled) · [Plan](#plan) · [How to run](#how-to-run)

## Inventory

| Component | State it keeps | Operations | Hard because | Module |
|---|---|---|---|---|
| **Odoo bridge** `odoo_bridge.lua`, `name/site/ssid/wireless/vlan/sysupgrade.lua` | cycle position, backoff, `reboot_required`, `Prev_Read_Accepted`, `Monitor`, the uci cursors' copies; on the device: uci settings, running radio, LED | `Odoo_Write`, `Odoo_Read`, `Bridge_Parse`, `Bridge_Execute`, getters and setters | several commits per reply with a power switch between any two; cursors that cache; an operator, a LuCI user and the network acting at any time; errors swallowed by `BRIDGE_CHECK` | `OdooBridge` |
| **Boot script** `init.lua`, `util.lua`, `clear_log.sh` | four retry counters; on flash: `res/bootcount`, crontab, boot environment, the package flag, the LAN address; DHCP clients | `EnableDhcpPass`, `BootChecker`, `CronSetup`, `StartUdhcpc`, `AddIpToBridge`, `PIALB`, the launch block | `luci.sys.reboot` returns at once and the script runs on; power cuts between flash writes; an uplink that comes and goes | `MasterInit` |
| **Dual-image upgrade** `sbin/sysupgrade`, `lib/upgrade/*.sh`, `init.d/done`, `lib/preinit/90_restore_config`, `lib/functions.sh`, the reset button | boot environment (`root_zone`, try and stable flags, `customized`), two images, the overlay and the archive beside it | `default_do_upgrade`, `do_assign`, `set_zone`, `restore_config`, `uci_apply_vendors`, `done` | flash writes in sequence, each of which may be the last before a power cut; no lock between two `sysupgrade` | `DualImage`, `TwoImages` |
| **Firmware extraction** `extract-firmware.sh` | `fmk/`: `logs/config.log`, `image_parts`, `rootfs` | one pass over an image | heuristics for the footer; can be stopped anywhere; tools that fail part-way | `FirmwareKit` |
| **Firmware build** `build-firmware.sh` | `new-filesystem.*`, `new-firmware.bin` | one pass over `fmk/` | reads what an interrupted extraction left; sizes must add up; files of an earlier build | `FirmwareKit` |
| **Unpackers** `unsquashfs_all.sh` | the directory and the tools in the background | one `unsquashfs` after another under a time limit | a tool that is not waited for writes on, under the next one's result | `UnsquashfsAll` |
| **Checksum repair** `src/crcalc` | the image in memory and on disk | `patch_trx`, `patch_uimage`, `patch_dlob` in the order of the binwalk log | lengths taken from the headers it repairs; headers inside headers; partial success | `Crcalc` |
| **Web page tools** `webcomp-tools/webdecomp.c` | the file `www`, the index in `httpd`, the extracted pages | extract, restore | a key that is guessed from sizes; restoring rewrites in place | `WebPages` |
| Package tools `ipkg_*.sh` | `rootfs`, package lists | install, remove | removal by a list that may be stale | - |
| Reporting getters `devices.lua` … `time.lua` | none | read `/proc`, `ifconfig`, uci | - | - |
| Imported code `src/lzma`, `squashfs-*`, `binwalk-2.1.1`, … , OpenWrt root file system | - | - | third party | - |

How they interact:

* `rc.local` runs `init.lua` once per boot. `PIALB` in it runs `odoo_bridge.lua`
  with `dofile` under `pcall`: a return of true or a "not enough memory" error
  makes the launch block reboot, any other error makes it call `PIALB` again,
  five times at most over the life of the script.
* The bridge calls the getters for its report and the setters for a reply; both
  go through one uci cursor per `.lua` file, except that `vlan.lua` sets through
  the `uci` program, behind its own cursor. It reloads the radio with `wifi`,
  runs `sysupgrade -n`, and ends in a reboot.
* The server's record and the modem's settings are the two sides to be brought
  into agreement. Nothing is pushed: the bridge writes a report, then reads the
  desired state.
* `init.d/done` runs after `rc.local` has returned, that is after the agent has
  given up; `BootChecker` clears the try counters that `done` would otherwise
  clear. Both write the boot environment that `sysupgrade` writes.
* `extract-firmware.sh` and `build-firmware.sh` share only the files of the
  working directory. `config.log` is *evaluated* by the second. The first calls
  `unsquashfs_all.sh`, which names the tool the second makes the file system
  with; the second calls `crcalc` on the image it has put together.
* `build-firmware.sh` puts the agent into the image; `sysupgrade` on the modem
  (asked for through `x_upgrade`) flashes it.

What makes each of the modelled components correct:

* **Bridge**: a reply is carried out in full or the device restarts and does it
  again; the radio runs with what is stored; reports are true; the modem comes
  to the desired state and rests there; an outage never blocks it for ever and
  no reboot for want of a server comes early.
* **Boot script**: the bridge is only started with its packages; the one-time
  set-up is done, whatever boot was interrupted; no old lease and no herd of
  DHCP clients; without an uplink it reboots, with one it launches.
* **Dual image**: whenever the power goes, one image is complete, and so is the
  one that runs; the settings survive what did not ask for them to be erased;
  only an image that runs is confirmed.
* **Kit**: an image that is saved is never larger than the original, keeps
  header and footer in place, holds exactly the file system this build made; a
  stopped extraction is never built from; build is the inverse of extract.
* **Unpackers**: the tool reported is one that wrote all of the directory, and
  no earlier one could have; a failure leaves nothing behind.
* **Checksums**: a header reported as repaired is valid in the file; nothing
  else is touched.
* **Web pages**: after any sequence of extractions, edits and restores the web
  server shows the pages as last restored.

The hazards these properties are aimed at are listed line by line in
`PROJECT.json` (`hazards`), with those no property covers and why.

## OdooBridge

`OdooBridge.tla` is the cycle of `Odoo_Connector`, with every function it calls.

| Model | Code |
|---|---|
| `pc` | `write`, `read`: the two `repeat` blocks (383-403, 413-436). `exec`, `upgrade`, `finish`: `Bridge_Execute` (147-293). `elevated`: `Odoo_Connector` returns true. `oom`, `failed`: an error reaches `PIALB`. `hung`: `read("*a")` on a command that does not end |
| `Odoo_Write`, `Odoo_WriteFails`, `Odoo_WriteRaises` | the request went through; returned false; raised inside `BRIDGE_CHECK`, whose error text counts as a completed write |
| `Backoff`, `EnterRead` | the shared end of a failed and of a successful request |
| `Odoo_Read(kind)`, `Bridge_Parse` | decoding is part of the same step. `kind` is what can come back: accepted, refused, without a modem in it, not decodable |
| `ApplySetting` | one iteration of the loop over `execution_order` for a setting: compare with the getter, set, commit, note what is due |
| `NoteRequest`, `ExecuteRemoteTerminal` | the iterations for `x_upgrade`, `x_reboot`, `x_terminal` |
| `LoopEnds`, `UpgradeFails`, `UpgradeReboots`, `Finish` | the tail of `Bridge_Execute`: upgrade first, then reboot or reload of the radio |
| `Boot`, `Reboot`, `Relaunch`, `PowerCut` | the ways the agent starts again, and what each forgets |
| `UserEdit`, `ServerEdit`, `Outage` | LuCI user, operator, network |

Settings are abstract keys in four kinds (plain, radio text, radio flag, VLAN);
values are members of `Texts`, Booleans for flags, `Nil` for an option that is not
set. The two conversions that matter are kept: the channel is `"0"` on flash and
`"auto"` to the server (`Stored`, `ReadBack`), and a flag is stored as off unless
it is `true`. What each cursor has cached is kept per setting (`cache`).

Properties: `RadioFollowsFlash`, `PictureIsTrue`, `ReplyIsCarriedOut`,
`BackoffIsEarned` (invariants), `OutputHeardBeforeNext` (action property),
`Settles` and `OutageEndsInReboot` (liveness), and `IInv`, the inductive
invariant of the proofs. `MCBridge.tla` has one setting of each kind, in the
order of `execution_order`, and seven states for the operator to ask for.

Abstractions: the reporting getters are one read of all settings; the log is
left out except as the place where memory runs out; `sleep` is the step itself.
The commit of a cursor succeeds (a full overlay is outside the model).

## MasterInit

`MasterInit.tla` is `init.lua` with `util.lua`, from power-on to the bridge.

| Model | Code |
|---|---|
| `EnableDhcpPass` … `BootReboot` | DHCP PASS BLOCK with `BootChecker`. `IncrementBootCounter`, `WriteCount` and the two halves of `CronSetup` are separate steps because `io.open(path, "w")` truncates before it writes |
| `KillUdhcpc`, `ClearStaticIp` | UDHCPC CLEAR BLOCK, STATIC IP CLEAR BLOCK |
| `UdhcpcLoop`, `PingAfterUdhcpc`, `UdhcpcBackoff`, `AddIpToBridge` | UDHCPC START BLOCK, with its two counters |
| `PIALB`, `InstallPackages`, `WriteFlag`, `PialbFails`, `RebootModem`, `LaunchRaises` | package installation and the launch block |
| `BridgeReboots`, `BridgeFails` | what `dofile` of the bridge can come back with |
| `GoesDown` | the shutdown reaches the script some time after `luci.sys.reboot` returned: until then `rebooting` is true and every other step goes on |
| `PowerCut`, `Uplink` | power and cable |

`flashVars` survive `FreshScript`, everything else does not. `cutInSetup` and
`flaps` are history variables that the preconditions of `SetUpBeforeLaunch` and
the bound of `FewClients` read.

Abstractions: the contents of `script.log`; `opkg` installs any superset of what
is there; after the script has ended nothing of the agent runs (`CHECK_DEADLOCK
FALSE`: it really stops).

## DualImage and TwoImages

`DualImage.tla` is `sysupgrade` with `lib/upgrade`, the reset button, and what
the boot scripts do with the flash.

| Model | Code |
|---|---|
| `BootLoader` | the boot loader's choice between two zones (external: modelled from what `set_zone`, `done` and `BootChecker` write for it) |
| `RestoreConfig`, `UntarConfig` | `restore_config` of `90_restore_config`: the archive is moved to memory, then unpacked |
| `ApplyVendors`, `CommitVendors` | `uci_apply_vendors` of `lib/functions.sh`: `customized` is set first |
| `RcLocal`, `Done`, `AgentClearsTry` | `init.d/done`, in its two writes, after `rc.local` has returned; `BootChecker` of the agent |
| `StartUpgrade`, `StartAssign`, `VersionZones` | the command line: `sysupgrade` and `-n`, `-w`, `-a` with and without `-V` |
| `SaveConffiles`, `RunRamfs`, `ReadZone`, `BeginWrite`, `EndWrite`, `FailWrite` | `do_save_conffiles`, `run_ramfs`, `default_do_upgrade`; `mtd write` erases first, and a second writer spoils what the first has written |
| `SetZone` | the three `fw_setenv` of `set_zone` |
| `EraseData`, `CopyConfig`, `Uncustomize`, `Reboot` | the tail of `default_do_upgrade` and `do_upgrade` |
| `StartReset`, `Reset` | `10-button`: `customized` first, then the overlay |
| `Down`, `Configure` | the power, and whoever saves settings meanwhile |

`Runs` is the set of `sysupgrade` processes there may be at once: the code takes
no lock. `slot[z].whole` says whether a zone holds a complete image; a download
that broke off is written as if it were one (`full`). `switched`, `ranOver`,
`torn`, `overlapped` and `owner` are history, and name the exceptions the
properties have to make: `ranOver` is an image written over while it runs, `torn`
a modem that went down in one of the `Windows` in which the code keeps the only
copy of the settings in memory, or has erased and not yet written. These windows
are in the code; the properties say that they are the only ones.

`TwoImages.tla` is what the flash promises, in five actions: a zone may be broken
or completed while the modem runs from the other, or once `root_zone` was moved.
`KeepsTwoImages` is its specification under the refinement mapping of `DualImage`
(`whole <- Whole`, `runs <- running`, `moved <- switched`, `overrun <- ranOver`).

Properties: `NoBrick`, `NeverBare`, `SettingsSurvive` (invariants),
`ConfirmsWhatRuns` (action property), `KeepsTwoImages` (refinement).

Abstractions: settings are the user's, the vendor's or blank; images are a
revision and whether they are complete; `Try` and `Stable` follow the code, but
the boot loader looks at `Try` only.

## FirmwareKit

`FirmwareKit.tla` is both scripts over one working directory.

| Model | Code |
|---|---|
| `ExtractStart` … `LogMkfs` | `extract-firmware.sh` in order, with its exits. `LogSizes`, `LogType`, `LogMkfs` are separate because the unpacking lies between them and the script can be stopped there |
| `Star`, `Shown`, `InTail`, `InFooter`, `FOOTER_SIZE` | `hexdump -C \| tail -11 \| sed -n '/^*/,$p'` and the arithmetic on it: a line equal to the one before it is not shown, a run shows as one star, the footer is what follows the first star among the last ten entries |
| `BuildStart` … `BuildEnd` | `build-firmware.sh` in order, with its exits |
| `Mkfs`, `Onto` | the tool makes a file system, nothing, or (other than `mksquashfs`, which removes its output) part of one; `mksquashfs` appends to a file that is there |
| `Interrupt`, `UserRemovesDir` | a script is stopped; the directory is removed between two scripts |

An image is a sequence of *lines*, the sixteen bytes on a line of `hexdump`, with
the log binwalk writes for it. Lines are only compared. `image` is the image of
the last extraction; `made` and `complete` are history.

Properties: `LayoutKept`, `NeverLarger`, `OnlyThisBuild`,
`InterruptedIsNotBuilt`, `RoundTrip`, and `KitInv`, the inductive invariant.
`RoundTrip` has a precondition, `Recognisable`: filler of at least two lines and
a footer of at most nine entries. Outside it the script misses the footer and
the filler of the next build covers it (a hazard without a property: nothing
says how long a footer may be). Inside it the footer may still be taken for more
than it is, when the file system ends in repeated lines: then the build either
refuses or gives the original back, and that is part of what is checked.

Abstractions: images of a whole number of lines; one script at a time;
`crcalc` (see `Crcalc`) and the TP-Link and Buffalo post-processing, which rewrite the image
after the footer is appended, are left out, so `LayoutKept` and `RoundTrip` speak
of the image as it is handed to them.

## UnsquashfsAll

`UnsquashfsAll.tla` is the main loop of `unsquashfs_all.sh` with the processes it
leaves in the background.

| Model | Code |
|---|---|
| `Start`, `WaitForComplete` | a tool is started in the background; `wait_for_complete` asks `pgrep` for it. `Pgrep` is empty: `pgrep` without `-f` compares its argument, here a path, with process names |
| `Ls`, `Look` | the listing of the directory, and the size of `bin/sh` |
| `Remove`, `NextTool` | the directory is removed and the loop goes on, or ends |
| `MakeDir`, `WriteFile`, `Ends` | an `unsquashfs` process (external): it refuses an image, writes files of size zero, or writes them in full; each file is created before it is filled |

`late` is history: a tool was still running when a result was looked at. The
properties `RightTool`, `FirstOnTime` and `NothingLeft` hold without it being
set; that the code does not keep them otherwise is the finding `unsq_first`.

## Crcalc

`Crcalc.tla` is `crcalc.c` and `patch.c`: the headers of a binwalk log, at most
`MAX_HEAD_SIZE` of them, patched one after the other in one buffer, and the
buffer written over the file.

| Model | Code |
|---|---|
| `Field`, `OwnField`, `Data` | the layouts of the three kinds of headers, one cell for each field |
| `PatchTrx`, `PatchUimage`, `PatchDlob`, `Sane`, `Ok` | the three functions of `patch.c` with their length tests; `patch_trx` zeroes its field before the test; a CRC of zero is reported as a failure |
| `PatchHeader` | one iteration of the loop of `main` |
| `FileWrite` | `file_write`: the file may not open, may be written in part, or in full; it is not written when no header was updated |

`Checksum` is a parameter: the proofs use nothing of it but that it is a
function of the cells. `Beyond` is what may be found behind the buffer, where
`patch_uimage` reads when the length leaves out its header. `UpdatedIsValid` is
stated for a header whose data lies in the file and in which no later header of
the log is patched: a log in another order than inside out spoils the outer
checksum silently (`crcalc.c:50`).

## WebPages

`WebPages.tla` is `webdecomp.c` over any number of runs, for both formats of the
index.

| Model | Code |
|---|---|
| `Sums`, `Laid` | what `next_entry` and the loop of `restore` add up entry by entry: offsets, and the bytes of `www` |
| `VendorIndex`, `Init` | what the build of a router's `httpd` puts into the index (external) |
| `SizeOf`, `OffsetOf`, `PageAt` | `next_entry`, in the new format with the key subtracted |
| `DetectKey`, `Surplus`, `Signed` | `detect_key`: the sizes are added up in an `int`, the division is unsigned and of 64 bits |
| `Extract` | `extract`: entries with `..` in their name are skipped, and so are those behind the end of `www` |
| `RestoreBegin`, `RestoreEntry`, `RestoreEnd` | `restore`: `www` is emptied before the directory is looked for, each page is appended, padding and the new index come last |
| `BreakOff` | the program is interrupted |
| `Edit` | pages are edited or removed between two runs |

Sizes count modulo `W`, where the code has 32 bits. `broken` and `keyLost` are
history: a restore was broken off or could not write a page; a restore used a
key that is not `httpd`'s. Once it has, no other run is explored (`Followed`), and
no extraction that makes a page longer than `MaxPage`.

The properties name what the code cannot do: a page with `..` in its name is not
restored, and in the new format moves all that follow it (`Lost`); a key so large
that the sizes with it overflow `int total_size` is not found, whatever the pages
(`EvenKeyFound` leaves it out; the run has such a key, 13, besides one that is
found). `WebInv` is the inductive invariant of the proofs.

## Runs

All configurations are in this directory; `PROJECT.json` names a mutant of the
code for every property of a passing run, and TLC finds each property violated
by its mutant. The numbers are distinct states.

| Run | Configuration | States | Shows |
|---|---|---|---|
| `bridge_safety` | `MCBridge_safety.cfg` | 670 000 | all invariants and `OutputHeardBeforeNext`, any two disturbances anywhere in the cycle |
| `bridge_live` | `MCBridge_live.cfg` | 260 000 | `Settles`, `OutageEndsInReboot` under `FairSpec` |
| `master_boot` | `MasterInit_boot.cfg` | 1 270 000 | all invariants, any four disturbances over any number of boots; `OfflineReboots`, `OnlineLaunches` under `FairSpec` |
| `dual_safety` | `MCDual_safety.cfg` | 2 610 000 | all invariants, `ConfirmsWhatRuns` and the refinement, two `sysupgrade` processes and a power cut anywhere |
| `kit_safety` | `MCFirmware_safety.cfg` | 26 000 | all invariants over twelve images and six new file systems, any sequence of extractions, builds, interruptions and removals |
| `unsq_safety` | `UnsquashfsAll_safety.cfg` | 135 000 | `RightTool`, `FirstOnTime`, `NothingLeft`, three tools of any skill and at any pace |
| `crc_safety` | `MCCrcalc_safety.cfg` | 840 | `FieldsOnly`, `UpdatedIsValid` over fourteen logs and four images each |
| `web_safety` | `MCWeb_safety.cfg` | 3 210 000 | `ServedIsWanted`, `FreshIsServed`, `EvenKeyFound`, any sequence of runs and edits |
| `bridge_unsuccessful_read`, `master_gives_up`, `unsq_first`, `web_divisible` | | | violations, see below |

Bounds, and why they are enough:

* `MaxDisturbances` (2 for the bridge, 4 for the boot script) bounds what
  the *environment* does; the agent's own steps are not bounded. Two are what
  the bridge's hazards need: one event that puts it into an unusual state and
  one that strikes there (an edit behind a cursor and a power cut in the
  execution that follows; a raised write between two commands). The boot script
  needs one more for an uplink that goes and comes back, and one for the failed
  `opkg`. A hung command can be cut without a disturbance, so hanging costs
  nothing.
* One setting of each kind, two of the radio texts: the loop treats settings of a
  kind alike, the order is that of the code, and the proofs hold for any set.
* `MaxCount = 2`: the boot counter is only compared with 2. It stays at its bound.
* `DualImage`: two processes, two calls in all (`MaxStarts`): what one
  `sysupgrade` can do to another or to the next one after a restart. Two
  revisions, so that `-V` can name one that only one zone has. `TryLimit = 1`: the
  boot loader turns to the other image as soon as it can. One power cut or
  reboot (`MaxDowns`) besides the reboots the calls end in; the theorems hold for
  any number of each, for `NoBrick`, `ConfirmsWhatRuns` and the refinement.
  The processes differ in nothing and revisions are only compared: symmetric.
* Images of at most sixteen lines in `FirmwareKit`: one for each way the footer
  can be found, missed or over-estimated, the longest footer that is found and
  the shortest that is not, a log with two file systems, an unsupported type and
  none. New file systems are smaller, equal and larger than what there is room
  for. The state space is finite without a bound on the number of scripts.
* `UnsquashfsAll`: three tools, so that one can be late across another's whole
  turn and into a third's. Two files: the one that is looked at, and another.
* `Crcalc`: twelve cells are room for a header in a header and data behind both;
  `MAX_HEAD_SIZE` is 3 and one log is longer. The checksum of the instance weighs
  each cell by its place; the proofs hold for any.
* `WebPages`: two pages of at most two bytes, keys 0, 3 and 13; `W = 32` is larger
  than any sum of lengths in the instance, differences still wrap below zero, and
  two sizes with the key 13 overflow an `int` of that width.

## Fairness

* `OdooBridge`: `WF_vars(Agent)`. One interpreter runs the agent; when it can
  take a step it eventually does. Nothing is assumed of the environment, and not
  which of several outcomes a step has: an outage that never ends is a run of
  `FairSpec`, and so is an upgrade that fails each time. Faults that could recur
  for ever cost disturbances, so `Settles` says what happens after the last one.
* `MasterInit`: `WF_vars(Script)` for the same reason; `WF_vars(GoesDown)`: a
  shutdown that was asked for comes to an end; `WF_vars(~online /\ BridgeReboots)`:
  without a server the bridge ends in a reboot, which is `OutageEndsInReboot`
  of `OdooBridge`. A running bridge with a server need never end.
* The other modules state no liveness: their scripts and programs run once, can be
  stopped anywhere and are not started again by anything.

`HangingCommands` is empty in `bridge_live`: a remote command that never ends
really does stop the agent for good, and the code has no defence.

## What is proved

TLAPS checks the seven `*Proofs.tla` modules, and `Induction.tla`, to the last leaf.
Every invariant and action property of a passing run is the statement of a theorem, and
so is the refinement. The theorems hold for
every value of the constants: any number of settings, processes, tools,
disturbances, any images, file systems and checksums, where TLC has the
instances above.

**OdooBridge**, from `KeyAssumption`, `OrderAssumption` (every setting is in
`execution_order`, none twice), `ValueAssumption` and `ConfigAssumption`:

* `Invariance`: `Spec => []IInv`. The invariants speak of moments between
  executions, and are not inductive: in the middle of the loop some settings are
  committed and others not, the radio is behind the flash, a cursor may be
  behind it too. `IInv` says what holds there: settings before `step` read back as
  asked (`CarriedOutSoFar`), the radio lags only while a reload is noted
  (`ReloadIsDue`), a cursor lags only for a VLAN already visited
  (`CursorsAreFresh`), and the backoff is a function of the failures
  (`BackoffCounts`). `MonitorIsHeard` is about the output of a remote command: from a
  completed write until the loop comes to `x_terminal` the server has it. That an upgrade may come between the note and the reload,
  and that a reboot may replace the reload, are cases of the step lemmas.
* `TypeCorrect`, `RadioSafety`, `PictureSafety`, `ReplySafety`, `BackoffSafety`:
  the invariants of `bridge_safety`, each a consequence.
* `OutputSafety`: the action property `OutputHeardBeforeNext`. Only
  `ExecuteRemoteTerminal` puts output in the place of other output
  (`OnlyTerminalSpeaks`), and `x_terminal` occurs once in `execution_order`, so
  `MonitorIsHeard` still holds when it does.
* Lemmas about the data the steps rest on: `StoredType`, `ReadBackStored` (a
  setting that compares equal needs no setter), `SettingsUpdate`.

**MasterInit**, from `MasterAssumption`:

* `MasterInvariant`: `Spec => []MasterInv`. What a block relies on is often the
  work of an earlier boot, so the invariant says what the files on the flash say
  of each other. `SetUpInv`: unless the power went inside `BootChecker`, a count of
  one or more stands for a set-up that is complete, at every place of the script
  and after every restart; a count that cannot be read cannot occur. Only this
  makes `SetUpBeforeLaunch` inductive, because a boot with a count of two skips
  the set-up. `PackagesInv`: the flag, or the place behind it, means both
  packages. `ClientsInv`: a client more than one was left by a change of the
  uplink, which is counted before the client is.
* `TypeCorrect`, `BridgeHasPackagesHolds`, `SetUpBeforeLaunchHolds`,
  `NoStaleLeaseHolds`, `FewClientsHolds`: all its safety invariants.

**DualImage**, from `DualAssumption`:

* `DualInvariant`: `Spec => []DualInv`. `NoBrick` speaks of zones, the code writes
  to the zone `root_zone` does not name, read some steps earlier. So `RootRuns`:
  until `set_zone` runs, `root_zone` names the zone the modem runs from;
  `WritesSpare`: who is about to write has another zone than the one that runs, or
  `root_zone` was moved; `OffIsFresh`: a restart forgets all this.
* `TypeCorrect`, `NoBrickHolds`, `ConfirmsWhatRunsHolds` (an action property).
* `Refinement`: `Spec => KeepsTwoImages`, from `ImagesInit` and `ImagesStep`, which
  maps each action to one of `TwoImages` or to a stutter; `StartableHolds` carries
  the abstract promise over.
* `SettingsInvariant`: `Spec => []SettingsInv`. On their way
  through an upgrade the settings are in the partition, in memory only, in an
  archive, or nowhere because the vendor's scripts will make them: the invariant
  names the good copy for each place of a process (`RunSettings`) and of the boot
  scripts (`BootSettings`), as long as no two processes overlapped and no power cut
  hit a window; `KindOf`, which process can be at which place, holds without these
  exceptions. `NeverBareHolds` and `SettingsSurviveHolds` follow, so the windows
  named in `Windows` are all there are.

**FirmwareKit**, from `LineAssumption`, `ImageAssumption` (binwalk reports file
systems inside the image, not at offset 0), `NewFsAssumption` and `MissingAssumption` (a
file that is not there is no file):

* `KitInvariant`: `Spec => []KitInv`. What is saved is assembled in five steps
  from files written by another script: the invariant has to say that
  `config.log` is empty or describes the image and its parts (`Described`), that
  it does not outlive the directory, that it names `mkfs` only after a complete
  extraction, how far `new-firmware.bin` has come at each step (`BuildInv`), and what
  it is made of there: header, this build's file system, filler, footer (`MadeInv`).
* `TypeCorrect`, `NeverLargerHolds`, `LayoutKeptHolds`, `InterruptedIsNotBuiltHolds`,
  `OnlyThisBuildHolds`.
* `RoundTripHolds`. With `MadeInv` it is a fact about `hexdump | tail | sed`, and not
  an obvious one, since the file system may repeat lines of its own: in a
  recognisable image what the script takes for the footer begins where the filler
  ends or earlier, and what lies between is filler (`FillerReachesFooter`, by the
  least line from which all is filler). So the filler the build puts there is the
  filler that was there, line by line (`SavedLine`).
* Lemmas: `FooterSize` (a footer is never longer than its image, whatever the
  lines), `Piece`, `FrontOfConcat`, `BackOfConcat`, `Joined`.

**UnsquashfsAll**, from `UnsquashfsAssumption`:

* `UnsqInvariant`: as long as no tool was late, only the tool at hand runs, the
  directory holds only what it wrote, and no tool before it could have extracted
  the image.
* `TypeCorrect`, `RightToolHolds`, `FirstOnTimeHolds`, `NothingLeftHolds`.

**Crcalc**, from `CrcalcAssumption` (the log was made from the image, and a TRX
header does not state less than its own first fields):

* `CrcInvariant`: a header reported as updated stays valid in the buffer until a
  later one is patched inside what its checksums cover; all else in the buffer
  is as it was read; the file is the buffer once it is written.
* `TypeCorrect`, `FieldsOnlyHolds`, `UpdatedIsValidHolds`, and `OnlyUpdatesWriteHolds`
  (an image none of whose headers fits is not touched), which no run checks.

**WebPages**, from `WebAssumption`: the pages together are shorter than what an
offset can address (`N * MaxPage < W`: 2^32 bytes against the flash of a router), and
a page that is missing is no page.

* What `Sums` and `Laid` are, by induction over the entries (`ByEntries`): the functions
  exist (`SumsAre`, `LaidAre`), sums are bounded and grow, do not depend on later
  entries (`SumsAgree`), and gain one key for each entry (`SumsShift`); a page lies
  where the lengths before it add up to, whatever follows it (`PageInLaid`,
  `PageInWww`).
* `WebInvariant`: `Spec => []WebInv`. Between runs `www` and the index describe the same
  pages (`LaidOut`), which are the wanted ones, with the vendor's pages that are not
  restored or without them; during a restore `www`, `total` and the index in memory
  agree about the entries before `n` (`RestoreInv`), and `total` stays behind `www`'s
  due length when a page could not be written, which is what keeps an offset within
  its 32 bits.
* `TypeCorrect`, `ServedIsWantedHolds`, `FreshIsServedHolds`, `EvenKeyFoundHolds`:
  all invariants of `web_safety`, for any number of entries, pages and keys.
* `OddKeyLostHolds`, which no run checks: from content of an odd length *no* key is
  found when there is more than one entry, because the byte of padding leaves a
  surplus of one less than a multiple. The finding `web_divisible` is one case of it.

**Induction**: the library's induction theorems take an operator as a parameter, and
the provers do not instantiate those. `LessThanWellFounded` takes the one instance that
is a set, and `Least` (a nonempty set of naturals has a least element) and `Induct`
(induction for a set) follow from it. `FirmwareKitProofs` uses the first,
`WebPagesProofs` the second.

Only model-checked: the liveness properties `Settles`, `OutageEndsInReboot`,
`OfflineReboots` and `OnlineLaunches`, since fairness and `ENABLED` are out of the
prover's reach. The four violations are TLC's alone, as a counterexample should be.

## What disagrees with the code's own words

Each is a run that must find a violation; `PROJECT.json` (`findings`) has the lines.

* A reply that does not decode is executed as one whose every field is nil:
  flags are switched off, an upgrade and a reboot are noted
  (`bridge_unsuccessful_read`).
* After five failures of `PIALB` the script returns before the reboot meant for
  that case (`master_gives_up`).
* `unsquashfs_all.sh` wants the *first* tool that supports the image, and passes
  over one that has written nothing after a second, because `pgrep` never finds
  it (`unsq_first`).
* The byte `restore` pads an odd `www` with makes the surplus of the sizes, which
  "should always be evenly divisble", indivisible for the next run: the key
  becomes zero (`web_divisible`).

## Not modelled

* Reporting getters: no state. Their setters are not called by the bridge.
* The contents of `script.log`, and `clear_log.sh`: nothing in the repository says
  which lines must survive the trimming. Planned as `ScriptLog`.
* The copy of the agent under `fmk/rootfs`: the same files.
* Of `sysupgrade`: `-b`, `-r` and `-f` (archives the user names) and `-m`, which
  leaves out the reboot. The boot loader itself is not in the repository.
* The TP-Link and Buffalo post-processing of `build-firmware.sh`, which rewrites or
  encrypts the finished image.
* `uncramfs_all.sh`, `uncpio.sh`: the loop of `unsquashfs_all.sh` without processes
  in the background, and one call of `cpio`.
* Of `webdecomp`: the search for the index in the ELF file, byte order, and keys
  given with `-k`.
* Package tools `ipkg_*.sh`: planned as `Ipkg`.
* Multi-squashfs variants of the two scripts; stand-alone image converters:
  variants, or single passes over one file.
* `cleanup.sh`, `check_for_upgrade.sh`, `deprecated/`: no state of their own.
* Imported code (`src/src/binwalk-2.1.1`, `lzma`, `squashfs-*`, `cramfs-2.x`, `jffs2`,
  `others`, …) and the OpenWrt root file system: third party, the environment of
  the rest. It is nearly all of the tree, so the share of all lines that is
  modelled stays small although the programs of the repository's own are.

## Plan

Done: the modules above, with their runs and proofs. To come, in order of
importance:

1. **Modem**: `MasterInit` and `OdooBridge` composed through `dofile`. Each uses of
   the other only what the Fairness section says; the composition would discharge
   `WF_vars(~online /\ BridgeReboots)`.
2. **ScriptLog** (`WriteLog` against two `clear_log.sh` at once) and **Ipkg**
   (install and remove as inverses), with proofs.
3. Abstract specifications, with their refinements, for `OdooBridge` (a reply is
   carried out or repeated) and for the kit (build after extract).

## How to run

    tlasany OdooBridge.tla
    tlc -workers 2 -config MCBridge_safety.cfg MCBridge
    tlc -workers 2 -config MasterInit_boot.cfg MasterInit
    tlc -workers 2 -config MCDual_safety.cfg MCDual
    tlc -workers 2 -config MCFirmware_safety.cfg MCFirmware
    tlc -workers 2 -config UnsquashfsAll_safety.cfg UnsquashfsAll
    tlc -workers 2 -config MCCrcalc_safety.cfg MCCrcalc
    tlc -workers 2 -config MCWeb_safety.cfg MCWeb
    tlapm DualImageProofs.tla        (and the other *Proofs.tla)

`PROJECT.json` lists the runs with their configurations, the mutants, the source
lines each definition models (`map`), the hazards and the theorems.
