-------------------------- MODULE MasterInitProofs --------------------------
(***************************************************************************)
(* What init.lua keeps across any number of boots, power cuts and losses   *)
(* of the uplink: type correctness, and every safety invariant of          *)
(* MasterInit. The files of the flash outlive the script, so what a block  *)
(* relies on is often the work of an earlier boot.                         *)
(***************************************************************************)
EXTENDS MasterInit, TLAPS

-----------------------------------------------------------------------------
(* The strengthening, one part for each of the invariants.                 *)

(* TypeOK, with the flags apart from the rest.                             *)
FlagTypes ==
    /\ rebooting \in BOOLEAN /\ imageTry \in BOOLEAN /\ passDhcp \in BOOLEAN
    /\ flagFile \in BOOLEAN /\ online \in BOOLEAN /\ cable \in BOOLEAN
    /\ cutInSetup \in BOOLEAN
ValueTypes ==
    /\ pc \in PCs
    /\ cable_fallback_counter \in CableStart..(CableLimit + 1)
    /\ udhcpc_fallback_counter \in 0..UdhcpcLimit
    /\ pialb_fallback \in 0..PialbLimit /\ PIALB_retry_counter \in 0..RetryLimit
    /\ bootcount \in (0..MaxCount) \cup {Missing, Truncated}
    /\ crontab \in {Missing, Truncated, Entry}
    /\ packages \subseteq Needed
    /\ lanip \in {"configured", "none", "leased"}
    /\ clients \in Nat /\ flaps \in 0..MaxDisturbances
    /\ proto \in Protos /\ disturbances \in 0..MaxDisturbances

(* A counter is compared with its limit before it is raised again.         *)
CountersInv ==
    /\ pc # "exited" => pialb_fallback < PialbLimit
    /\ pc = "install" => PIALB_retry_counter < RetryLimit
    /\ pc = "write" => bootcount # Missing
    /\ flaps <= disturbances

(* The flag is written after a round that found both packages, and opkg    *)
(* removes nothing.                                                        *)
PackagesInv == flagFile \/ pc \in {"flag", "bridge"} => packages = Needed

(* The boot counter says what the boots so far have done, unless the power *)
(* went between the count and the set-up it stands for.                    *)
SetUp   == crontab = Entry /\ imageTry
Counted == bootcount \in 0..MaxCount

SetUpInv ==
    /\ pc # "dhcpPass" => passDhcp
    /\ rebooting => pc # "dhcpPass" /\ pc \notin InBootCheck
    /\ ~cutInSetup =>
         /\ pc \in {"dhcpPass", "increment"} => bootcount # Truncated
         /\ pc \in {"dhcpPass", "increment", "write"} /\ Counted /\ bootcount >= 1 => SetUp
         /\ pc = "check" => Counted /\ (bootcount >= 2 => SetUp)
         /\ pc \in {"cron", "cronWrite", "env", "bootReboot"} => Counted
         /\ pc \in {"env", "bootReboot"} => crontab = Entry
         /\ pc = "bootReboot" => imageTry
         /\ pc # "dhcpPass" /\ pc \notin InBootCheck => Counted /\ SetUp

(* A client more than one is a client left by an uplink that answered and  *)
(* then went.                                                              *)
ClientsInv ==
    /\ pc \in {"dhcpPass", "clearIp"} \cup InBootCheck => clients = 0
    /\ pc \in {"udhcpc", "backoff"} /\ ~online => clients <= flaps
    /\ clients <= 1 + flaps

MasterInv == /\ FlagTypes /\ ValueTypes /\ CountersInv /\ PackagesInv
             /\ SetUpInv /\ NoStaleLease /\ ClientsInv

-----------------------------------------------------------------------------
(* Every part holds of a modem as it leaves the factory.                   *)
LEMMA MasterInit0 == Init => MasterInv
<1> SUFFICES ASSUME Init  PROVE MasterInv
    OBVIOUS
<1>1. FlagTypes  BY DEF Init, FlagTypes
<1>2. CountersInv  BY DEF Init, CountersInv, PialbLimit
<1>3. ValueTypes
    <2>1. pc \in PCs /\ bootcount \in (0..MaxCount) \cup {Missing, Truncated}
        BY MasterAssumption DEF Init, PCs
    <2>2. /\ cable_fallback_counter \in CableStart..(CableLimit + 1)
          /\ udhcpc_fallback_counter \in 0..UdhcpcLimit
          /\ pialb_fallback \in 0..PialbLimit /\ PIALB_retry_counter \in 0..RetryLimit
        BY DEF Init, CableStart, CableLimit, UdhcpcLimit, PialbLimit, RetryLimit
    <2> QED  BY <2>1, <2>2, MasterAssumption DEF Init, ValueTypes
<1>4. PackagesInv  BY DEF Init, PackagesInv
<1>5. SetUpInv  BY MasterAssumption DEF Init, SetUpInv, Counted, InBootCheck
<1>6. NoStaleLease  BY DEF Init, NoStaleLease
<1>7. ClientsInv  BY DEF Init, ClientsInv
<1> QED  BY <1>1, <1>2, <1>3, <1>4, <1>5, <1>6, <1>7 DEF MasterInv

-----------------------------------------------------------------------------
(* The flags keep their type.                                              *)
LEMMA FlagStep == FlagTypes /\ [Next]_vars => FlagTypes'
<1> SUFFICES ASSUME FlagTypes, [Next]_vars  PROVE FlagTypes'
    OBVIOUS
<1> USE DEF FlagTypes
<1>1. CASE EnableDhcpPass        BY <1>1 DEF EnableDhcpPass, counters, envVars
<1>2. CASE IncrementBootCounter  BY <1>2 DEF IncrementBootCounter, counters, envVars
<1>3. CASE WriteCount            BY <1>3 DEF WriteCount, NewCount, counters, envVars
<1>4. CASE BootChecker           BY <1>4 DEF BootChecker, flashVars, counters, envVars
<1>5. CASE CronSetup             BY <1>5 DEF CronSetup, counters, envVars
<1>6. CASE ClearImageTry         BY <1>6 DEF ClearImageTry, counters, envVars
<1>7. CASE BootReboot            BY <1>7 DEF BootReboot, flashVars, counters, envVars
<1>8. CASE KillUdhcpc            BY <1>8 DEF KillUdhcpc, flashVars, counters, envVars
<1>9. CASE ClearStaticIp       
    BY <1>9 DEF ClearStaticIp, ClearIpOnBridge, counters, envVars
<1>10. CASE UdhcpcLoop           BY <1>10 DEF UdhcpcLoop, HasInternet, flashVars, envVars
<1>11. CASE PingAfterUdhcpc
    BY <1>11 DEF PingAfterUdhcpc, HasInternet, ClientsKilled, flashVars, envVars
<1>12. CASE UdhcpcBackoff        BY <1>12 DEF UdhcpcBackoff, flashVars, counters, envVars
<1>13. CASE AddIpToBridge        BY <1>13 DEF AddIpToBridge, counters, envVars
<1>14. CASE PIALB              
    BY <1>14 DEF PIALB, HasInternet, PialbFails, flashVars, envVars
<1>15. CASE InstallPackages      BY <1>15 DEF InstallPackages, RebootModem, Disturb
<1>16. CASE WriteFlag            BY <1>16 DEF WriteFlag, counters, envVars
<1>17. CASE BridgeReboots
    BY <1>17 DEF BridgeReboots, RebootModem, flashVars, counters, envVars
<1>18. CASE BridgeFails          BY <1>18 DEF BridgeFails, PialbFails, Disturb, flashVars
<1>19. CASE LaunchRaises         BY <1>19 DEF LaunchRaises, Disturb, flashVars, counters
<1>20. CASE GoesDown             BY <1>20 DEF GoesDown, FreshScript, flashVars, envVars
<1>21. CASE PowerCut             BY <1>21 DEF PowerCut, FreshScript, Disturb
<1>22. CASE Uplink               BY <1>22 DEF Uplink, Disturb, flashVars, counters
<1>23. CASE UNCHANGED vars       BY <1>23 DEF vars, flashVars, counters, envVars
<1> QED
    BY <1>1, <1>2, <1>3, <1>4, <1>5, <1>6, <1>7, <1>8, <1>9, <1>10, <1>11, <1>12, <1>13,
            <1>14, <1>15, <1>16, <1>17, <1>18, <1>19, <1>20, <1>21, <1>22, <1>23
         DEF Next, Script, BootBlock, LaunchBlock, UplinkBlock

(* Every other variable keeps its range: a counter is only raised below     *)
(* its limit.                                                              *)
LEMMA ValueStep == ValueTypes /\ CountersInv /\ [Next]_vars => ValueTypes'
<1> SUFFICES ASSUME ValueTypes, CountersInv, [Next]_vars  PROVE ValueTypes'
    OBVIOUS
<1> USE MasterAssumption DEF ValueTypes, CountersInv, PCs, InBootCheck, Launched, Ended,
    CableStart, CableStep, CableLimit, UdhcpcLimit, PialbLimit, RetryLimit
<1>1. CASE EnableDhcpPass        BY <1>1 DEF EnableDhcpPass, counters, envVars
<1>2. CASE IncrementBootCounter  BY <1>2 DEF IncrementBootCounter, counters, envVars
<1>3. CASE WriteCount            BY <1>3 DEF WriteCount, NewCount, counters, envVars
<1>4. CASE BootChecker           BY <1>4 DEF BootChecker, flashVars, counters, envVars
<1>5. CASE CronSetup             BY <1>5 DEF CronSetup, counters, envVars
<1>6. CASE ClearImageTry         BY <1>6 DEF ClearImageTry, counters, envVars
<1>7. CASE BootReboot            BY <1>7 DEF BootReboot, flashVars, counters, envVars
<1>8. CASE KillUdhcpc            BY <1>8 DEF KillUdhcpc, flashVars, counters, envVars
<1>9. CASE ClearStaticIp       
    BY <1>9 DEF ClearStaticIp, ClearIpOnBridge, counters, envVars
<1>10. CASE UdhcpcLoop
    <2>1. cable_fallback_counter' \in CableStart..(CableLimit + 1)
        BY <1>10 DEF UdhcpcLoop, HasInternet
    <2>2. pc' \in {"addIp", "ping", "backoff"} /\ clients' \in Nat
        BY <1>10 DEF UdhcpcLoop, HasInternet
    <2> QED  BY <1>10, <2>1, <2>2 DEF UdhcpcLoop, HasInternet, flashVars, envVars
<1>11. CASE PingAfterUdhcpc
    <2>1. udhcpc_fallback_counter' \in 0..UdhcpcLimit
        BY <1>11 DEF PingAfterUdhcpc, HasInternet
    <2>2. pc' = "backoff" /\ clients' \in Nat
        BY <1>11 DEF PingAfterUdhcpc, HasInternet, ClientsKilled
    <2> QED  BY <1>11, <2>1, <2>2 DEF PingAfterUdhcpc, HasInternet, flashVars, envVars
<1>12. CASE UdhcpcBackoff        BY <1>12 DEF UdhcpcBackoff, flashVars, counters, envVars
<1>13. CASE AddIpToBridge        BY <1>13 DEF AddIpToBridge, counters, envVars
<1>14. CASE PIALB
    <2>1. pc = "pialb" /\ pialb_fallback < PialbLimit  BY <1>14 DEF PIALB, HasInternet
    <2>2. pialb_fallback' \in 0..PialbLimit
        BY <1>14, <2>1 DEF PIALB, HasInternet, PialbFails
    <2>3. /\ pc' \in {"bridge", "install", "exited", "pialb"}
          /\ PIALB_retry_counter' \in 0..RetryLimit
        BY <1>14 DEF PIALB, HasInternet, PialbFails
    <2> QED  BY <1>14, <2>2, <2>3 DEF PIALB, HasInternet, flashVars, envVars
<1>15. CASE InstallPackages      BY <1>15 DEF InstallPackages, RebootModem, Disturb
<1>16. CASE WriteFlag            BY <1>16 DEF WriteFlag, counters, envVars
<1>17. CASE BridgeReboots
    BY <1>17 DEF BridgeReboots, RebootModem, flashVars, counters, envVars
<1>18. CASE BridgeFails          BY <1>18 DEF BridgeFails, PialbFails, Disturb, flashVars
<1>19. CASE LaunchRaises         BY <1>19 DEF LaunchRaises, Disturb, flashVars, counters
<1>20. CASE GoesDown             BY <1>20 DEF GoesDown, FreshScript, flashVars, envVars
<1>21. CASE PowerCut             BY <1>21 DEF PowerCut, FreshScript, Disturb
<1>22. CASE Uplink               BY <1>22 DEF Uplink, Disturb, flashVars, counters
<1>23. CASE UNCHANGED vars       BY <1>23 DEF vars, flashVars, counters, envVars
<1> QED
    BY <1>1, <1>2, <1>3, <1>4, <1>5, <1>6, <1>7, <1>8, <1>9, <1>10, <1>11, <1>12, <1>13,
            <1>14, <1>15, <1>16, <1>17, <1>18, <1>19, <1>20, <1>21, <1>22, <1>23
         DEF Next, Script, BootBlock, LaunchBlock, UplinkBlock

(* Whoever raises a counter to its limit leaves the loop that counts.      *)
LEMMA CountersStep == ValueTypes /\ CountersInv /\ [Next]_vars => CountersInv'
<1> SUFFICES ASSUME ValueTypes, CountersInv, [Next]_vars  PROVE CountersInv'
    OBVIOUS
<1> USE MasterAssumption DEF ValueTypes, CountersInv, CableStart, CableStep,
    CableLimit, UdhcpcLimit, PialbLimit, RetryLimit
<1>1. CASE BootBlock
    BY <1>1 DEF BootBlock, EnableDhcpPass, IncrementBootCounter, WriteCount, NewCount,
                BootChecker, CronSetup, ClearImageTry, BootReboot, flashVars, counters, envVars
<1>2. CASE UplinkBlock
    BY <1>2 DEF UplinkBlock, KillUdhcpc, ClearStaticIp, ClearIpOnBridge, UdhcpcLoop,
                HasInternet, PingAfterUdhcpc, ClientsKilled, UdhcpcBackoff, AddIpToBridge,
                flashVars, counters, envVars
<1>3. CASE PIALB
    <2>1. pc = "pialb" /\ pialb_fallback < PialbLimit  BY <1>3 DEF PIALB, HasInternet
    <2>2. pc' # "exited" => pialb_fallback' < PialbLimit
        BY <1>3, <2>1 DEF PIALB, HasInternet, PialbFails
    <2>3. pc' = "install" => PIALB_retry_counter' < RetryLimit
        BY <1>3 DEF PIALB, HasInternet, PialbFails
    <2>4. pc' # "write"  BY <1>3 DEF PIALB, HasInternet, PialbFails
    <2> QED  BY <1>3, <2>2, <2>3, <2>4 DEF PIALB, HasInternet, flashVars, envVars
<1>4. CASE InstallPackages       BY <1>4 DEF InstallPackages, RebootModem, Disturb
<1>5. CASE WriteFlag             BY <1>5 DEF WriteFlag, counters, envVars
<1>6. CASE BridgeReboots
    BY <1>6 DEF BridgeReboots, RebootModem, flashVars, counters, envVars
<1>7. CASE BridgeFails           BY <1>7 DEF BridgeFails, PialbFails, Disturb, flashVars
<1>8. CASE LaunchRaises          BY <1>8 DEF LaunchRaises, Disturb, flashVars, counters
<1>9. CASE GoesDown              BY <1>9 DEF GoesDown, FreshScript, flashVars, envVars
<1>10. CASE PowerCut             BY <1>10 DEF PowerCut, FreshScript, Disturb
<1>11. CASE Uplink               BY <1>11 DEF Uplink, Disturb, flashVars, counters
<1>12. CASE UNCHANGED vars       BY <1>12 DEF vars, flashVars, counters, envVars
<1> QED  BY <1>1, <1>2, <1>3, <1>4, <1>5, <1>6, <1>7, <1>8, <1>9, <1>10, <1>11, <1>12
         DEF Next, Script, LaunchBlock

-----------------------------------------------------------------------------
(* Neither the flag nor the bridge comes before both packages.             *)
LEMMA PackagesStep == PackagesInv /\ [Next]_vars => PackagesInv'
<1> SUFFICES ASSUME PackagesInv, [Next]_vars  PROVE PackagesInv'
    OBVIOUS
<1> USE DEF PackagesInv
<1>1. CASE BootBlock
  
        BY <1>1 DEF BootBlock, EnableDhcpPass, IncrementBootCounter, WriteCount,
                BootChecker, CronSetup, ClearImageTry, BootReboot, flashVars
<1>2. CASE UplinkBlock
  
        BY <1>2 DEF UplinkBlock, KillUdhcpc, ClearStaticIp, UdhcpcLoop, PingAfterUdhcpc,
                UdhcpcBackoff, AddIpToBridge, flashVars
<1>3. CASE PIALB
    BY <1>3 DEF PIALB, HasInternet, PialbFails, flashVars
<1>4. CASE InstallPackages
    <2>1. packages \subseteq packages' /\ packages' \subseteq Needed /\ flagFile' = flagFile
        BY <1>4 DEF InstallPackages
    <2>2. pc' \in {"flag", "bridge"} => packages = Needed \/ packages' = Needed
        BY <1>4 DEF InstallPackages, FoundAll, RebootModem
    <2> QED  BY <2>1, <2>2
<1>5. CASE WriteFlag  BY <1>5 DEF WriteFlag
<1>6. CASE BridgeReboots \/ BridgeFails \/ LaunchRaises
  
        BY <1>6 DEF BridgeReboots, BridgeFails, LaunchRaises, RebootModem, PialbFails, flashVars
<1>7. CASE GoesDown \/ PowerCut
    BY <1>7 DEF GoesDown, PowerCut, FreshScript, flashVars
<1>8. CASE Uplink \/ UNCHANGED vars
    BY <1>8 DEF Uplink, vars, flashVars
<1> QED  BY <1>1, <1>2, <1>3, <1>4, <1>5, <1>6, <1>7, <1>8 DEF Next, Script, LaunchBlock

-----------------------------------------------------------------------------
(* The boot counter keeps saying what has been set up.                     *)
LEMMA SetUpStep == ValueTypes /\ CountersInv /\ SetUpInv /\ [Next]_vars => SetUpInv'
<1> SUFFICES ASSUME ValueTypes, CountersInv, SetUpInv, [Next]_vars  PROVE SetUpInv'
    OBVIOUS
<1> USE MasterAssumption DEF SetUpInv, SetUp, Counted, CountersInv, InBootCheck
<1>1. CASE EnableDhcpPass        BY <1>1 DEF EnableDhcpPass, counters, envVars
<1>2. CASE IncrementBootCounter  BY <1>2 DEF IncrementBootCounter, counters, envVars
<1>3. CASE WriteCount
    <2>1. Counted' /\ (bootcount' >= 2 => Counted /\ bootcount >= 1)
        BY <1>3 DEF ValueTypes, WriteCount, NewCount
    <2>2. pc = "write" /\ pc' = "check"
          /\ UNCHANGED <<rebooting, crontab, imageTry, passDhcp, cutInSetup>>
        BY <1>3 DEF WriteCount, envVars
    <2> QED  BY <2>1, <2>2
<1>4. CASE BootChecker           BY <1>4 DEF BootChecker, flashVars, counters, envVars
<1>5. CASE CronSetup             BY <1>5 DEF CronSetup, counters, envVars
<1>6. CASE ClearImageTry         BY <1>6 DEF ClearImageTry, counters, envVars
<1>7. CASE BootReboot            BY <1>7 DEF BootReboot, flashVars, counters, envVars
<1>8. CASE UplinkBlock
    BY <1>8 DEF UplinkBlock, KillUdhcpc, ClearStaticIp, ClearIpOnBridge, UdhcpcLoop,
                HasInternet, PingAfterUdhcpc, ClientsKilled, UdhcpcBackoff, AddIpToBridge,
                flashVars, counters, envVars
<1>9. CASE LaunchBlock
    BY <1>9 DEF LaunchBlock, PIALB, HasInternet, PialbFails, InstallPackages, RebootModem,
                Disturb, WriteFlag, flashVars, counters, envVars
<1>10. CASE BridgeReboots \/ BridgeFails \/ LaunchRaises
  
        BY <1>10 DEF BridgeReboots, RebootModem, BridgeFails, PialbFails, Disturb, LaunchRaises,
                 flashVars, counters, envVars
<1>11. CASE GoesDown             BY <1>11 DEF GoesDown, FreshScript, flashVars, envVars
<1>12. CASE PowerCut             BY <1>12 DEF PowerCut, FreshScript, Disturb
<1>13. CASE Uplink               BY <1>13 DEF Uplink, Disturb, flashVars, counters
<1>14. CASE UNCHANGED vars       BY <1>14 DEF vars, flashVars, counters, envVars
<1> QED
    BY <1>1, <1>2, <1>3, <1>4, <1>5, <1>6, <1>7, <1>8, <1>9, <1>10, <1>11, <1>12, <1>13,
            <1>14
         DEF Next, Script, BootBlock

-----------------------------------------------------------------------------
(* The address is cleared before a client is started.                      *)
LEMMA LeaseStep == NoStaleLease /\ [Next]_vars => NoStaleLease'
<1> SUFFICES ASSUME NoStaleLease, [Next]_vars  PROVE NoStaleLease'
    OBVIOUS
<1> USE DEF NoStaleLease
<1>1. CASE BootBlock
    BY <1>1 DEF BootBlock, EnableDhcpPass, IncrementBootCounter, WriteCount, NewCount,
                BootChecker, CronSetup, ClearImageTry, BootReboot, flashVars, counters, envVars
<1>2. CASE UplinkBlock
    BY <1>2 DEF UplinkBlock, KillUdhcpc, ClearStaticIp, ClearIpOnBridge, UdhcpcLoop,
                PingAfterUdhcpc, ClientsKilled, UdhcpcBackoff, AddIpToBridge, flashVars,
                counters, envVars
<1>3. CASE LaunchBlock
    BY <1>3 DEF LaunchBlock, PIALB, PialbFails, InstallPackages, RebootModem, Disturb,
                WriteFlag, flashVars, counters, envVars
<1>4. CASE BridgeReboots \/ BridgeFails \/ LaunchRaises
  
        BY <1>4 DEF BridgeReboots, RebootModem, BridgeFails, PialbFails, Disturb, LaunchRaises,
                flashVars, counters, envVars
<1>5. CASE GoesDown              BY <1>5 DEF GoesDown, FreshScript, flashVars, envVars
<1>6. CASE PowerCut              BY <1>6 DEF PowerCut, FreshScript, Disturb
<1>7. CASE Uplink                BY <1>7 DEF Uplink, Disturb, flashVars, counters
<1>8. CASE UNCHANGED vars        BY <1>8 DEF vars, flashVars, counters, envVars
<1> QED  BY <1>1, <1>2, <1>3, <1>4, <1>5, <1>6, <1>7, <1>8
         DEF Next, Script

-----------------------------------------------------------------------------
(* A client is left over only when the uplink changed meanwhile.           *)
LEMMA ClientsStep == ValueTypes /\ ClientsInv /\ [Next]_vars => ClientsInv'
<1> SUFFICES ASSUME ValueTypes, ClientsInv, [Next]_vars  PROVE ClientsInv'
    OBVIOUS
<1> USE MasterAssumption DEF ValueTypes, ClientsInv, InBootCheck
<1>1. CASE BootBlock
    BY <1>1 DEF BootBlock, EnableDhcpPass, IncrementBootCounter, WriteCount, NewCount,
                BootChecker, CronSetup, ClearImageTry, BootReboot, flashVars, counters, envVars
<1>2. CASE KillUdhcpc            BY <1>2 DEF KillUdhcpc, flashVars, counters, envVars
<1>3. CASE ClearStaticIp       
    BY <1>3 DEF ClearStaticIp, ClearIpOnBridge, counters, envVars
<1>4. CASE UdhcpcLoop            BY <1>4 DEF UdhcpcLoop, HasInternet, flashVars, envVars
<1>5. CASE PingAfterUdhcpc
    BY <1>5 DEF PingAfterUdhcpc, HasInternet, ClientsKilled, flashVars, envVars
<1>6. CASE UdhcpcBackoff         BY <1>6 DEF UdhcpcBackoff, flashVars, counters, envVars
<1>7. CASE AddIpToBridge         BY <1>7 DEF AddIpToBridge, counters, envVars
<1>8. CASE LaunchBlock
    BY <1>8 DEF LaunchBlock, PIALB, HasInternet, PialbFails, InstallPackages, RebootModem,
                Disturb, WriteFlag, flashVars, counters, envVars
<1>9. CASE BridgeReboots \/ BridgeFails \/ LaunchRaises
  
        BY <1>9 DEF BridgeReboots, RebootModem, BridgeFails, PialbFails, Disturb, LaunchRaises,
                flashVars, counters, envVars
<1>10. CASE GoesDown             BY <1>10 DEF GoesDown, FreshScript, flashVars, envVars
<1>11. CASE PowerCut             BY <1>11 DEF PowerCut, FreshScript, Disturb
<1>12. CASE Uplink               BY <1>12 DEF Uplink, Disturb, flashVars, counters
<1>13. CASE UNCHANGED vars       BY <1>13 DEF vars, flashVars, counters, envVars
<1> QED
    BY <1>1, <1>2, <1>3, <1>4, <1>5, <1>6, <1>7, <1>8, <1>9, <1>10, <1>11, <1>12, <1>13
         DEF Next, Script, UplinkBlock

-----------------------------------------------------------------------------
(* The theorems.                                                           *)

(* The inductive invariant.                                                *)
THEOREM MasterInvariant == Spec => []MasterInv
<1>1. MasterInv /\ [Next]_vars => MasterInv'
    BY FlagStep, ValueStep, CountersStep, PackagesStep, SetUpStep, LeaseStep, ClientsStep
       DEF MasterInv
<1> QED  BY <1>1, MasterInit0, PTL DEF Spec

(* Type correctness: no counter of the script passes its limit.            *)
THEOREM TypeCorrect == Spec => []TypeOK
<1>1. MasterInv => TypeOK  BY DEF MasterInv, TypeOK, FlagTypes, ValueTypes
<1> QED  BY <1>1, MasterInvariant, PTL

(* The bridge is started only when both packages are there.                *)
THEOREM BridgeHasPackagesHolds == Spec => []BridgeHasPackages
<1>1. MasterInv => BridgeHasPackages  BY DEF MasterInv, PackagesInv, BridgeHasPackages
<1> QED  BY <1>1, MasterInvariant, PTL

(* The launch block finds the set-up of the first boots complete, unless   *)
(* the power went in the middle of it.                                     *)
THEOREM SetUpBeforeLaunchHolds == Spec => []SetUpBeforeLaunch
<1>1. MasterInv => SetUpBeforeLaunch
    BY DEF MasterInv, SetUpInv, SetUp, SetUpBeforeLaunch, Launched, InBootCheck
<1> QED  BY <1>1, MasterInvariant, PTL

(* No lease of an earlier boot is configured while a new one is asked for. *)
THEOREM NoStaleLeaseHolds == Spec => []NoStaleLease
<1>1. MasterInv => NoStaleLease  BY DEF MasterInv
<1> QED  BY <1>1, MasterInvariant, PTL

(* There are never more DHCP clients than one and the changes of the       *)
(* uplink, over any number of boots.                                       *)
THEOREM FewClientsHolds == Spec => []FewClients
<1>1. MasterInv => FewClients  BY DEF MasterInv, ClientsInv, FewClients
<1> QED  BY <1>1, MasterInvariant, PTL
=============================================================================
