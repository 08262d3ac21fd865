----------------------------- MODULE MasterInit -----------------------------
(***************************************************************************)
(* The agent from power-on to the bridge: init.lua with the functions of   *)
(* util.lua it calls. rc.local runs it once per boot. Its blocks run one   *)
(* after the other, each under MASTER_CHECK, which logs an error of the    *)
(* block and goes on with the next.                                        *)
(*                                                                         *)
(* Two things make this code hard. luci.sys.reboot() returns at once, so   *)
(* the script keeps going until the shutdown reaches it (`rebooting').     *)
(* And the power can go at any point, between any two writes to the flash. *)
(***************************************************************************)
EXTENDS Integers, FiniteSets

CONSTANTS
    Protos,          \* protocols the LAN may be configured with
    MaxDisturbances, \* bound on what the environment does to the agent
    MaxCount,        \* bound on the boot counter
    Missing,         \* a file that is not there
    Entry,           \* the crontab line CronSetup writes
    Truncated        \* a file opened with "w" and not written yet

ASSUME MasterAssumption ==
    /\ Protos \subseteq {"dhcp", "static"}
    /\ MaxDisturbances \in Nat
    /\ MaxCount \in Nat /\ MaxCount >= 2
    /\ Missing # Truncated /\ {Missing, Truncated} \cap (0..MaxCount) = {}

VARIABLES
    pc,              \* the block, and the place in it
    rebooting,       \* a reboot was asked for and has not happened yet
    \* locals of the blocks
    cable_fallback_counter, udhcpc_fallback_counter,
    pialb_fallback, PIALB_retry_counter,
    \* on the flash
    bootcount,       \* content of res/bootcount
    crontab,         \* content of /etc/crontabs/root
    imageTry,        \* Image1Try, Image2Try of the boot environment are 0
    passDhcp,        \* EnableDhcpPass was committed
    flagFile,        \* /etc/flag_packages_installed exists
    packages,        \* what opkg has installed
    lanip,           \* network.lan.ipaddr and netmask
    \* the running system
    clients,         \* udhcpc processes
    proto,           \* network.lan.proto
    online, cable,   \* the uplink answers; eth1_0 is up
    disturbances,
    \* history
    cutInSetup,      \* the power went in the middle of BootChecker
    flaps            \* how often the uplink came or went

flashVars == <<bootcount, crontab, imageTry, passDhcp, flagFile, packages, lanip>>
counters  == <<cable_fallback_counter, udhcpc_fallback_counter,
               pialb_fallback, PIALB_retry_counter>>
envVars   == <<proto, online, cable, disturbances, cutInSetup, flaps>>
vars      == <<pc, rebooting, counters, flashVars, clients, envVars>>

-----------------------------------------------------------------------------

Needed == {"luasocket", "json4lua"}

CableStart == 5
CableStep  == 2
CableLimit == 40
UdhcpcLimit == 4
PialbLimit  == 5
RetryLimit  == 5

InBootCheck == {"increment", "write", "check", "cron", "cronWrite", "env", "bootReboot"}
Launched == {"pialb", "install", "flag", "bridge"}
Ended    == {"exited", "done"}
PCs == {"dhcpPass", "clients", "clearIp", "udhcpc", "ping", "backoff", "addIp"}
         \cup InBootCheck \cup Launched \cup Ended

Disturb == disturbances < MaxDisturbances /\ disturbances' = disturbances + 1

(* The locals of a script that starts.                                     *)
FreshScript ==
    /\ pc' = "dhcpPass" /\ rebooting' = FALSE
    /\ cable_fallback_counter' = CableStart /\ udhcpc_fallback_counter' = 0
    /\ pialb_fallback' = 0 /\ PIALB_retry_counter' = 0
    /\ clients' = 0

(* A modem as it leaves the factory: res/bootcount holds "0" (or is not    *)
(* there), the crontab has no entry, the packages are not installed.       *)
Init ==
    /\ pc = "dhcpPass" /\ rebooting = FALSE
    /\ cable_fallback_counter = CableStart /\ udhcpc_fallback_counter = 0
    /\ pialb_fallback = 0 /\ PIALB_retry_counter = 0
    /\ bootcount \in {0, Missing} /\ crontab = Missing /\ imageTry = FALSE
    /\ passDhcp = FALSE /\ flagFile = FALSE /\ packages = {}
    /\ lanip = "configured" /\ clients = 0
    /\ proto \in Protos /\ online \in BOOLEAN /\ cable = online
    /\ disturbances = 0 /\ cutInSetup = FALSE /\ flaps = 0

-----------------------------------------------------------------------------
(* DHCP PASS BLOCK: EnableDhcpPass, then BootChecker.                      *)

EnableDhcpPass ==
    /\ pc = "dhcpPass"
    /\ passDhcp' = TRUE
    /\ pc' = "increment"
    /\ UNCHANGED <<rebooting, counters, bootcount, crontab, imageTry, flagFile, packages,
                   lanip, clients, envVars>>

(* IncrementBootCounter opens the file with "w", which empties it, and     *)
(* writes the new count. `tonumber("") + 1' raises: the block is over.     *)
IncrementBootCounter ==
    /\ pc = "increment"
    /\ IF bootcount = Truncated
       THEN pc' = "clients" /\ UNCHANGED bootcount
       ELSE /\ pc' = "write"
            /\ bootcount' = IF bootcount = Missing THEN Truncated ELSE bootcount
    /\ UNCHANGED <<rebooting, counters, crontab, imageTry, passDhcp, flagFile, packages,
                   lanip, clients, envVars>>

(* The second open truncates; the count itself is in the script's memory.  *)
NewCount_Same == IF bootcount = Truncated THEN 0 ELSE bootcount
NewCount == CASE bootcount = Truncated -> 0
              [] bootcount = MaxCount  -> MaxCount
              [] OTHER -> bootcount + 1

WriteCount ==
    /\ pc = "write"
    /\ bootcount' = NewCount
    /\ pc' = "check"
    /\ UNCHANGED <<rebooting, counters, crontab, imageTry, passDhcp, flagFile, packages,
                   lanip, clients, envVars>>

BootChecker_Once ==
    /\ pc = "check"
    /\ pc' = IF bootcount < 1 THEN "cron" ELSE "clients"
    /\ UNCHANGED <<rebooting, counters, flashVars, clients, envVars>>

BootChecker ==
    /\ pc = "check"
    /\ pc' = IF bootcount < 2 THEN "cron" ELSE "clients"
    /\ UNCHANGED <<rebooting, counters, flashVars, clients, envVars>>

CronSetup ==
    \/ /\ pc = "cron" /\ pc' = "cronWrite"
       /\ crontab' = Truncated
       /\ UNCHANGED <<rebooting, counters, bootcount, imageTry, passDhcp, flagFile, packages,
                      lanip, clients, envVars>>
    \/ /\ pc = "cronWrite" /\ pc' = "env"
       /\ crontab' = Entry
       /\ UNCHANGED <<rebooting, counters, bootcount, imageTry, passDhcp, flagFile, packages,
                      lanip, clients, envVars>>

ClearImageTry ==
    /\ pc = "env" /\ pc' = "bootReboot"
    /\ imageTry' = TRUE
    /\ UNCHANGED <<rebooting, counters, bootcount, crontab, passDhcp, flagFile, packages,
                   lanip, clients, envVars>>

(* The reboot of the first boots: the script goes on to the next block.    *)
BootReboot ==
    /\ pc = "bootReboot" /\ pc' = "clients"
    /\ rebooting' = TRUE
    /\ UNCHANGED <<counters, flashVars, clients, envVars>>

-----------------------------------------------------------------------------
(* UDHCPC CLEAR BLOCK and STATIC IP CLEAR BLOCK.                           *)

KillUdhcpc ==
    /\ pc = "clients" /\ pc' = "clearIp"
    /\ clients' = 0
    /\ UNCHANGED <<rebooting, counters, flashVars, envVars>>

ClearIpOnBridge_Never == lanip
ClearIpOnBridge == IF proto = "dhcp" THEN "none" ELSE lanip

ClearStaticIp ==
    /\ pc = "clearIp" /\ pc' = "udhcpc"
    /\ lanip' = ClearIpOnBridge
    /\ UNCHANGED <<rebooting, counters, bootcount, crontab, imageTry, passDhcp, flagFile,
                   packages, clients, envVars>>

-----------------------------------------------------------------------------
(* UDHCPC START BLOCK.                                                     *)

(* A ping is answered over a working uplink, once the LAN has an address:  *)
(* a modem on DHCP may not have one before its first udhcpc.               *)
HasInternet(answer) ==
    IF answer THEN online
    ELSE ~online \/ (pc = "udhcpc" /\ proto = "dhcp" /\ clients = 0)

UdhcpcLoop ==
    /\ pc = "udhcpc"
    /\ \/ /\ HasInternet(TRUE)
          /\ pc' = "addIp"
          /\ UNCHANGED <<rebooting, clients, cable_fallback_counter>>
       \/ /\ HasInternet(FALSE) /\ cable
          /\ clients' = clients + 1            \* StartUdhcpc
          /\ pc' = "ping"
          /\ UNCHANGED <<rebooting, cable_fallback_counter>>
       \/ /\ HasInternet(FALSE) /\ ~cable
          /\ rebooting' = (rebooting \/ cable_fallback_counter >= CableLimit)
          /\ cable_fallback_counter' = IF cable_fallback_counter >= CableLimit
                                       THEN cable_fallback_counter
                                       ELSE cable_fallback_counter + CableStep
          /\ pc' = "backoff"
          /\ UNCHANGED clients
    /\ UNCHANGED <<udhcpc_fallback_counter, pialb_fallback, PIALB_retry_counter,
                   flashVars, envVars>>

(* killall udhcpc.                                                         *)
ClientsKilled_None == clients
ClientsKilled == 0

PingAfterUdhcpc ==
    /\ pc = "ping" /\ pc' = "backoff"
    /\ \/ /\ HasInternet(TRUE)
          /\ UNCHANGED <<clients, udhcpc_fallback_counter>>
       \/ /\ HasInternet(FALSE)
          /\ clients' = ClientsKilled
          /\ udhcpc_fallback_counter' = IF udhcpc_fallback_counter >= UdhcpcLimit
                                        THEN UdhcpcLimit ELSE udhcpc_fallback_counter + 1
    /\ UNCHANGED <<rebooting, cable_fallback_counter, pialb_fallback, PIALB_retry_counter,
                   flashVars, envVars>>

UdhcpcBackoff_Never ==
    /\ pc = "backoff" /\ pc' = "udhcpc"
    /\ UNCHANGED <<rebooting, counters, flashVars, clients, envVars>>

UdhcpcBackoff ==
    /\ pc = "backoff" /\ pc' = "udhcpc"
    /\ rebooting' = (rebooting \/ udhcpc_fallback_counter >= UdhcpcLimit)
    /\ UNCHANGED <<counters, flashVars, clients, envVars>>

AddIpToBridge ==
    /\ pc = "addIp" /\ pc' = "pialb"
    /\ lanip' = IF proto = "dhcp" THEN "leased" ELSE lanip
    /\ UNCHANGED <<rebooting, counters, bootcount, crontab, imageTry, passDhcp, flagFile,
                   packages, clients, envVars>>

-----------------------------------------------------------------------------
(* PACKAGE INSTALLATION AND LAUNCH BLOCK.                                  *)

(* PIALB returned false: another try, or the end of the script.            *)
PialbFails_OneMore ==
    /\ pialb_fallback' = pialb_fallback + 1
    /\ pc' = IF pialb_fallback = PialbLimit THEN "exited" ELSE "pialb"

PialbFails ==
    /\ pialb_fallback' = pialb_fallback + 1
    /\ pc' = IF pialb_fallback' = PialbLimit THEN "exited" ELSE "pialb"

(* PIALB returned true: the reboot, and the end of the script.             *)
RebootModem == pc' = "done" /\ rebooting' = TRUE

PIALB ==
    /\ pc = "pialb"
    /\ \/ /\ HasInternet(TRUE)
          /\ pc' = IF flagFile THEN "bridge" ELSE "install"
          /\ PIALB_retry_counter' = 0
          /\ UNCHANGED pialb_fallback
       \/ /\ HasInternet(FALSE)
          /\ PialbFails
          /\ UNCHANGED PIALB_retry_counter
    /\ UNCHANGED <<rebooting, cable_fallback_counter, udhcpc_fallback_counter, flashVars,
                   clients, envVars>>

(* One round of the package loop. Each missing package is fetched, with or *)
(* without success; the round counts as installed only what it found.      *)
FoundAll_Any == packages # {}
FoundAll == packages = Needed

InstallPackages ==
    /\ pc = "install"
    /\ packages' \in {p \in SUBSET Needed : packages \subseteq p}
    /\ IF packages' = Needed THEN UNCHANGED disturbances ELSE Disturb
    /\ IF FoundAll
       THEN pc' = "flag" /\ UNCHANGED <<rebooting, PIALB_retry_counter>>
       ELSE /\ PIALB_retry_counter' = PIALB_retry_counter + 1
            /\ IF PIALB_retry_counter' = RetryLimit
               THEN RebootModem
               ELSE UNCHANGED <<pc, rebooting>>
    /\ UNCHANGED <<cable_fallback_counter, udhcpc_fallback_counter, pialb_fallback, bootcount,
                   crontab, imageTry, passDhcp, flagFile, lanip, clients, proto, online,
                   cable, cutInSetup, flaps>>

WriteFlag ==
    /\ pc = "flag" /\ pc' = "bridge"
    /\ flagFile' = TRUE
    /\ UNCHANGED <<rebooting, counters, bootcount, crontab, imageTry, passDhcp, packages,
                   lanip, clients, envVars>>

(* dofile of odoo_bridge.lua comes back: with true or out of memory (PIALB *)
(* returns true), or with another error (PIALB returns false).             *)
BridgeReboots ==
    /\ pc = "bridge"
    /\ RebootModem
    /\ UNCHANGED <<counters, flashVars, clients, envVars>>

BridgeFails ==
    /\ pc = "bridge" /\ Disturb
    /\ PialbFails
    /\ UNCHANGED <<rebooting, cable_fallback_counter, udhcpc_fallback_counter,
                   PIALB_retry_counter, flashVars, clients, proto, online, cable,
                   cutInSetup, flaps>>

(* PIALB itself runs out of memory, outside the pcall around the bridge:   *)
(* MASTER_CHECK ends the launch block, and the script with it.             *)
LaunchRaises ==
    /\ pc \in {"pialb", "install", "flag"} /\ Disturb
    /\ pc' = "exited"
    /\ UNCHANGED <<rebooting, counters, flashVars, clients, proto, online, cable,
                   cutInSetup, flaps>>

-----------------------------------------------------------------------------
(* The device and its surroundings.                                        *)

GoesDown ==
    /\ rebooting
    /\ FreshScript
    /\ UNCHANGED <<flashVars, envVars>>

(* The power goes. A file that was open for writing is left empty.         *)
PowerCut ==
    /\ Disturb
    /\ FreshScript
    /\ bootcount' \in IF pc = "write" THEN {bootcount, Truncated} ELSE {bootcount}
    /\ cutInSetup' = (cutInSetup \/ pc \in InBootCheck)
    /\ UNCHANGED <<crontab, imageTry, passDhcp, flagFile, packages, lanip, proto, online,
                   cable, flaps>>

Uplink ==
    /\ Disturb
    /\ \E o, c \in BOOLEAN : /\ o => c
                             /\ <<o, c>> # <<online, cable>>
                             /\ online' = o /\ cable' = c
    /\ flaps' = flaps + 1
    /\ UNCHANGED <<pc, rebooting, counters, flashVars, clients, proto, cutInSetup>>

-----------------------------------------------------------------------------
BootBlock   == \/ EnableDhcpPass \/ IncrementBootCounter \/ WriteCount \/ BootChecker
               \/ CronSetup \/ ClearImageTry \/ BootReboot
UplinkBlock == \/ KillUdhcpc \/ ClearStaticIp \/ UdhcpcLoop \/ PingAfterUdhcpc
               \/ UdhcpcBackoff \/ AddIpToBridge
LaunchBlock == PIALB \/ InstallPackages \/ WriteFlag
Script      == BootBlock \/ UplinkBlock \/ LaunchBlock

Next == \/ Script \/ BridgeReboots \/ BridgeFails \/ LaunchRaises
        \/ GoesDown \/ PowerCut \/ Uplink

Spec == Init /\ [][Next]_vars

(* The interpreter runs, a shutdown comes to its end, and a bridge without *)
(* a server reboots the modem (OutageEndsInReboot of OdooBridge).          *)
FairSpec == /\ Spec
            /\ WF_vars(Script)
            /\ WF_vars(GoesDown)
            /\ WF_vars(~online /\ BridgeReboots)

-----------------------------------------------------------------------------
(* Properties.                                                             *)

(* Every variable holds a value of its kind.                               *)
TypeOK ==
    /\ pc \in PCs /\ rebooting \in BOOLEAN
    /\ cable_fallback_counter \in CableStart..(CableLimit + 1)
    /\ udhcpc_fallback_counter \in 0..UdhcpcLimit
    /\ pialb_fallback \in 0..PialbLimit
    /\ PIALB_retry_counter \in 0..RetryLimit
    /\ bootcount \in (0..MaxCount) \cup {Missing, Truncated}
    /\ crontab \in {Missing, Truncated, Entry}
    /\ imageTry \in BOOLEAN /\ passDhcp \in BOOLEAN /\ flagFile \in BOOLEAN
    /\ online \in BOOLEAN /\ cable \in BOOLEAN /\ cutInSetup \in BOOLEAN
    /\ packages \subseteq Needed
    /\ lanip \in {"configured", "none", "leased"}
    /\ clients \in Nat /\ flaps \in 0..MaxDisturbances
    /\ proto \in Protos
    /\ disturbances \in 0..MaxDisturbances

(* The bridge needs socket.http and json: it is started only when both     *)
(* packages are there, on this boot or on any after the flag was written.  *)
BridgeHasPackages == flagFile \/ pc = "bridge" => packages = Needed

(* Unless the power went in the middle of it, the set-up of the first boot *)
(* is complete before the launch block: the log is trimmed by cron, and    *)
(* the boot loader does not count this boot against the image.             *)
SetUpBeforeLaunch ==
    pc \in Launched /\ ~cutInSetup => crontab = Entry /\ imageTry /\ passDhcp

(* A lease of an earlier boot is never left configured while this boot     *)
(* asks for a new one, however the earlier boot ended.                     *)
NoStaleLease ==
    proto = "dhcp" /\ pc \in {"udhcpc", "ping", "backoff", "addIp"} => lanip = "none"

(* A second DHCP client on the interface needs an uplink that came and     *)
(* went between two pings.                                                 *)
FewClients == clients <= 1 + flaps

(* Without an uplink the modem reboots again and again, until the script   *)
(* has given up (see FiveTriesEndInReboot).                                *)
OfflineReboots == <>[](~online) => <>[](pc = "exited" /\ ~rebooting) \/ []<>rebooting

(* With an uplink that stays, the bridge comes to run on some boot, unless *)
(* the script has given up.                                                *)
OnlineLaunches == <>[](online) => <>[](pc = "exited" /\ ~rebooting) \/ []<>(pc = "bridge")

(* init.lua:235: "5 tries done, no success OR reboot signal received from  *)
(* child processes": either way the modem is rebooted.                     *)
FiveTriesEndInReboot == pc = "exited" /\ pialb_fallback = PialbLimit => rebooting
=============================================================================
