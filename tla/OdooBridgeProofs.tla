-------------------------- MODULE OdooBridgeProofs --------------------------
(***************************************************************************)
(* Proofs about OdooBridge, for every set of settings, texts, commands and *)
(* desired states, every order of execution and any number of              *)
(* disturbances.                                                           *)
(***************************************************************************)
EXTENDS OdooBridge, TLAPS

-----------------------------------------------------------------------------
(* The data: what setters store and getters return.                        *)

(* What a setter stores is something a setting can hold.                   *)
LEMMA StoredType ==
    ASSUME NEW k \in ConfigKeys, NEW v, Settable(k, v)
    PROVE  /\ Stored(k, v) \in StoredValues
           /\ k \in RadioFlagKeys => Stored(k, v) \in BOOLEAN
<1>1. CASE k \in RadioFlagKeys
  BY <1>1 DEF Stored, StoredValues
<1>2. CASE k \notin RadioFlagKeys
  BY <1>2, ValueAssumption DEF Stored, StoredValues, Settable
<1> QED BY <1>1, <1>2

(* Storing what a getter returned makes no difference to the getter: so a  *)
(* setting that compares equal needs no setter.                            *)
LEMMA ReadBackStored ==
    ASSUME NEW k \in ConfigKeys, NEW s \in StoredValues,
           k \in RadioFlagKeys => s \in BOOLEAN
    PROVE  ReadBack(k, Stored(k, ReadBack(k, s))) = ReadBack(k, s)
<1>1. CASE k \in RadioFlagKeys
  <2>1. s \in BOOLEAN /\ s # ZeroText
    BY <1>1, ValueAssumption
  <2> QED BY <1>1, <2>1 DEF ReadBack, Stored
<1>2. CASE k \notin RadioFlagKeys
  BY <1>2 DEF ReadBack, Stored
<1> QED BY <1>1, <1>2

(* The two records of nothing have their types.                            *)
LEMMA NothingType == /\ NoTask \in Tasks
                     /\ NoNeed \in [reboot : BOOLEAN, wifi : BOOLEAN, upgrade : BOOLEAN]
BY DEF NoTask, NoNeed, Tasks, WantedValues, Switches

(* A loaded cursor holds what a setting can hold.                          *)
LEMMA LoadedType ==
    ASSUME TypeOK
    PROVE  Loaded \in Settings
BY DEF TypeOK, Loaded, Settings, StoredValues, ConfigKeys, RadioKeys

LEMMA SettingsUpdate ==
    ASSUME NEW cfg \in Settings, NEW k \in ConfigKeys, NEW v \in StoredValues,
           k \in RadioFlagKeys => v \in BOOLEAN
    PROVE  [cfg EXCEPT ![k] = v] \in Settings
BY DEF Settings, ConfigKeys, RadioKeys

LEMMA RadioPartType ==
    ASSUME NEW cfg \in Settings
    PROVE  RadioPart(cfg) \in [RadioKeys -> StoredValues]
BY DEF RadioPart, Settings, ConfigKeys

-----------------------------------------------------------------------------
(* Type correctness.                                                       *)

LEMMA InitType == Init => TypeOK
<1> SUFFICES ASSUME Init PROVE TypeOK
  OBVIOUS
<1>1. flash \in Settings /\ radio \in [RadioKeys -> StoredValues]
  BY ConfigAssumption, RadioPartType DEF Init
<1>2. cache \in [ConfigKeys -> StoredValues \cup {Unread}]
  BY DEF Init, AgentStart
<1>3. \A k \in RadioFlagKeys : cache[k] \in BOOLEAN \cup {Unread}
  BY DEF Init, AgentStart, ConfigKeys, RadioKeys
<1>4. backoff_counter \in BackoffStart..(BackoffLimit + 1) /\ fails \in 0..MaxFails
  BY DEF Init, AgentStart, BackoffStart, BackoffLimit, MaxFails
<1>5. parsed_values \in Tasks /\ need \in [reboot : BOOLEAN, wifi : BOOLEAN, upgrade : BOOLEAN]
  BY NothingType DEF Init, AgentStart
<1>6. disturbances \in 0..MaxDisturbances /\ desired \in Desires
  BY ConfigAssumption DEF Init
<1> QED BY <1>1, <1>2, <1>3, <1>4, <1>5, <1>6 DEF Init, AgentStart, TypeOK, PCs, Outputs

(* What every start of the agent and every boot leave behind.              *)
LEMMA StartType ==
    ASSUME TypeOK, AgentStartNext
    PROVE  /\ pc' \in PCs /\ step' \in Nat
           /\ backoff_counter' \in BackoffStart..(BackoffLimit + 1)
           /\ reboot_required' \in BOOLEAN /\ Prev_Read_Accepted' \in BOOLEAN
           /\ Monitor' \in Outputs /\ parsed_values' \in Tasks
           /\ need' \in [reboot : BOOLEAN, wifi : BOOLEAN, upgrade : BOOLEAN]
           /\ cache' \in [ConfigKeys -> StoredValues \cup {Unread}]
           /\ \A k \in RadioFlagKeys : cache'[k] \in BOOLEAN \cup {Unread}
<1>1. cache' \in [ConfigKeys -> StoredValues \cup {Unread}]
  BY DEF AgentStartNext
<1>2. \A k \in RadioFlagKeys : cache'[k] \in BOOLEAN \cup {Unread}
  BY DEF AgentStartNext, ConfigKeys, RadioKeys
<1>3. backoff_counter' \in BackoffStart..(BackoffLimit + 1)
  BY DEF AgentStartNext, BackoffStart, BackoffLimit
<1>4. parsed_values' \in Tasks /\ need' \in [reboot : BOOLEAN, wifi : BOOLEAN, upgrade : BOOLEAN]
  BY NothingType DEF AgentStartNext
<1> QED BY <1>1, <1>2, <1>3, <1>4 DEF AgentStartNext, PCs, Outputs

LEMMA BootType ==
    ASSUME TypeOK, NEW cfg \in Settings, Boot(cfg), disturbances' \in 0..MaxDisturbances
    PROVE  TypeOK'
<1>1. AgentStartNext
  BY DEF Boot
<1>2. flash' \in Settings /\ radio' \in [RadioKeys -> StoredValues]
  BY RadioPartType DEF Boot
<1> QED BY <1>1, <1>2, StartType DEF Boot, TypeOK, server, MaxFails

LEMMA DisturbType ==
    ASSUME TypeOK, Disturb
    PROVE  disturbances' \in 0..MaxDisturbances
BY ConfigAssumption DEF TypeOK, Disturb

LEMMA BackoffType ==
    ASSUME TypeOK, Backoff, pc \in {"write", "read"},
           backoff_counter = BackoffStart + BackoffStep * fails, fails < MaxFails
    PROVE  /\ backoff_counter' \in BackoffStart..(BackoffLimit + 1)
           /\ fails' \in 0..MaxFails
           /\ pc' \in PCs /\ reboot_required' \in BOOLEAN /\ led' \in {"red", "green"}
           /\ IF pc' = "elevated" THEN reboot_required' /\ fails' = MaxFails
              ELSE /\ reboot_required' = reboot_required /\ pc' = pc
                   /\ backoff_counter' = BackoffStart + BackoffStep * fails'
                   /\ fails' < MaxFails
<1>1. fails \in 0..MaxFails /\ pc \in PCs /\ reboot_required \in BOOLEAN
  BY DEF TypeOK
<1>2. /\ backoff_counter' = backoff_counter + 2 /\ fails' = fails + 1
      /\ backoff_counter = 5 + 2 * fails
  BY DEF Backoff, BackoffStart, BackoffStep
<1>3. CASE backoff_counter' >= BackoffLimit
  <2>1. pc' = "elevated" /\ reboot_required' = TRUE /\ led' = "green"
    BY <1>3 DEF Backoff
  <2>2. fails' = MaxFails /\ backoff_counter' \in BackoffStart..(BackoffLimit + 1)
    BY <1>1, <1>2, <1>3 DEF BackoffLimit, MaxFails, BackoffStart
  <2> QED BY <2>1, <2>2 DEF PCs, MaxFails
<1>4. CASE ~(backoff_counter' >= BackoffLimit)
  <2>1. pc' = pc /\ reboot_required' = reboot_required /\ led' = "red"
    BY <1>4 DEF Backoff
  <2>2. fails' < MaxFails /\ fails' \in 0..MaxFails
        /\ backoff_counter' \in BackoffStart..(BackoffLimit + 1)
        /\ backoff_counter' = BackoffStart + BackoffStep * fails'
    BY <1>1, <1>2, <1>4 DEF BackoffLimit, MaxFails, BackoffStart, BackoffStep
  <2>3. pc' # "elevated"
    BY <2>1
  <2> QED BY <1>1, <2>1, <2>2, <2>3
<1> QED BY <1>3, <1>4

(* Types need the counting of failures: without it the backoff is          *)
(* unbounded.                                                              *)
LEMMA TypeStep == TypeOK /\ BackoffCounts /\ [Next]_vars => TypeOK'
<1> SUFFICES ASSUME TypeOK, BackoffCounts, [Next]_vars PROVE TypeOK'
  OBVIOUS
<1> USE LoadedType
<1>1. CASE Odoo_Write
  BY <1>1 DEF Odoo_Write, EnterRead, Report, TypeOK, PCs, BackoffStart, BackoffLimit, MaxFails, Settings
<1>2. CASE Odoo_WriteFails
  <2>1. disturbances' \in 0..MaxDisturbances
    BY <1>2, DisturbType DEF Odoo_WriteFails, RequestFails, TypeOK
  <2> QED BY <1>2, <2>1, BackoffType DEF Odoo_WriteFails, BackoffCounts, TypeOK, Settings, server
<1>3. CASE Odoo_WriteRaises
  BY <1>3, DisturbType DEF Odoo_WriteRaises, EnterRead, TypeOK, PCs, BackoffStart,
                           BackoffLimit, MaxFails, Settings, server
<1>4. ASSUME NEW kind \in ReplyKinds, Odoo_Read(kind)
      PROVE  TypeOK'
  <2>1. disturbances' \in 0..MaxDisturbances
    BY <1>4, DisturbType DEF Odoo_Read, TypeOK
  <2>2. Prev_Read_Accepted' \in BOOLEAN
    BY <1>4 DEF Odoo_Read, Bridge_Parse, TypeOK
  <2>3. parsed_values' \in Tasks
    BY <1>4, NothingType, ConfigAssumption DEF Odoo_Read, Bridge_Parse, TypeOK
  <2> QED BY <1>4, <2>1, <2>2, <2>3, NothingType DEF Odoo_Read, TypeOK, PCs, MaxFails, server
<1>5. CASE Odoo_ReadFails
  <2>1. disturbances' \in 0..MaxDisturbances
    BY <1>5, DisturbType DEF Odoo_ReadFails, RequestFails, TypeOK
  <2> QED BY <1>5, <2>1, BackoffType DEF Odoo_ReadFails, BackoffCounts, TypeOK, memory, server
<1>6. CASE Odoo_ReadRaises
  BY <1>6, DisturbType DEF Odoo_ReadRaises, TypeOK, PCs, memory, device, server, history
<1>7. CASE ApplySetting
  <2>1. key \in ConfigKeys
    BY <1>7 DEF ApplySetting
  <2>2. /\ flash' \in Settings
        /\ cache' \in [ConfigKeys -> StoredValues \cup {Unread}]
        /\ \A k \in RadioFlagKeys : cache'[k] \in BOOLEAN \cup {Unread}
    <3>1. CASE Differs(key) /\ Settable(key, parsed_values.val[key])
      <4>1. flash' = [flash EXCEPT ![key] = Stored(key, parsed_values.val[key])]
        BY <1>7, <3>1 DEF ApplySetting, Set
      <4>2. flash' \in Settings
        BY <2>1, <3>1, <4>1, StoredType, SettingsUpdate DEF TypeOK
      <4>3. cache' = [c \in ConfigKeys |->
                        IF key # VlanKey /\ CursorOf[c] = CursorOf[key]
                        THEN flash'[c] ELSE Loaded[c]]
        BY <1>7, <3>1 DEF ApplySetting, Set, Reloaded
      <4> QED BY <4>2, <4>3 DEF Settings, ConfigKeys, RadioKeys
    <3>2. CASE ~(Differs(key) /\ Settable(key, parsed_values.val[key]))
      <4>1. cache' = Loaded /\ flash' = flash
        BY <1>7, <3>2 DEF ApplySetting, Set
      <4> QED BY <4>1 DEF TypeOK, Settings
    <3> QED BY <3>1, <3>2
  <2>3. need' \in [reboot : BOOLEAN, wifi : BOOLEAN, upgrade : BOOLEAN]
    BY <1>7 DEF ApplySetting, NeedAfter, TypeOK
  <2> QED BY <1>7, <2>2, <2>3 DEF ApplySetting, InLoop, TypeOK, server, history
<1>8. CASE NoteRequest
  <2>1. need' \in [reboot : BOOLEAN, wifi : BOOLEAN, upgrade : BOOLEAN]
    BY <1>8 DEF NoteRequest, TypeOK
  <2> QED BY <1>8, <2>1 DEF NoteRequest, TypeOK, device, server, history
<1>9. CASE ExecuteRemoteTerminal
  <2>1. Monitor' \in Outputs
    BY <1>9 DEF ExecuteRemoteTerminal, TypeOK, Tasks, Outputs
  <2> QED BY <1>9, <2>1 DEF ExecuteRemoteTerminal, TypeOK, PCs, device, server, history
<1>10. CASE LoopEnds
  BY <1>10 DEF LoopEnds, TypeOK, PCs, memory, device, server, history
<1>11. CASE UpgradeFails
  BY <1>11 DEF UpgradeFails, TypeOK, PCs, memory, device, server, history
<1>12. CASE UpgradeReboots
  BY <1>12, BootType, ConfigAssumption DEF UpgradeReboots, TypeOK
<1>13. CASE Finish
  <2>1. /\ parsed_values' \in Tasks
        /\ need' \in [reboot : BOOLEAN, wifi : BOOLEAN, upgrade : BOOLEAN]
    BY <1>13, NothingType DEF Finish, TypeOK
  <2>2. radio' \in [RadioKeys -> StoredValues]
    BY <1>13, RadioPartType DEF Finish, TypeOK
  <2>3. backoff_counter' \in BackoffStart..(BackoffLimit + 1)
    BY <1>13 DEF Finish, TypeOK, BackoffStart, BackoffLimit
  <2> QED BY <1>13, <2>1, <2>2, <2>3 DEF Finish, TypeOK, PCs, server, history
<1>14. CASE OutOfMemory
  BY <1>14, DisturbType DEF OutOfMemory, TypeOK, PCs, memory, device, server, history
<1>15. CASE Reboot
  BY <1>15, BootType DEF Reboot, TypeOK
<1>16. CASE Relaunch
  BY <1>16, StartType DEF Relaunch, TypeOK, MaxFails, device, server
<1>17. CASE PowerCut
  BY <1>17, BootType, DisturbType DEF PowerCut, TypeOK
<1>18. CASE UserEdit
  <2>1. PICK k \in ConfigKeys, v \in StoredValues :
           /\ (k \in RadioFlagKeys) <=> (v \in BOOLEAN)
           /\ flash' = [flash EXCEPT ![k] = v]
           /\ edited' = edited \cup {k}
    BY <1>18 DEF UserEdit
  <2>2. flash' \in Settings
    BY <2>1, SettingsUpdate DEF TypeOK
  <2>3. radio' \in [RadioKeys -> StoredValues]
    BY <1>18, <2>2, RadioPartType DEF UserEdit, TypeOK
  <2> QED BY <1>18, <2>1, <2>2, <2>3, DisturbType DEF UserEdit, TypeOK, control, memory, server
<1>19. CASE ServerEdit
  BY <1>19, DisturbType DEF ServerEdit, TypeOK, control, memory, device, history
<1>20. CASE Outage
  BY <1>20, DisturbType DEF Outage, TypeOK, control, memory, device, history
<1>21. CASE UNCHANGED vars
  BY <1>21 DEF vars, TypeOK, control, memory, device, server, history
<1> QED
  BY <1>1, <1>2, <1>3, <1>4, <1>5, <1>6, <1>7, <1>8, <1>9, <1>10, <1>11, <1>12, <1>13,
     <1>14, <1>15, <1>16, <1>17, <1>18, <1>19, <1>20, <1>21
  DEF Next, Agent, Execute, Environment

-----------------------------------------------------------------------------
(* What one step of the loop does to the settings.                         *)

(* The key at hand is one of the settings or one of the commands.          *)
LEMMA KeyInOrder ==
    ASSUME InLoop
    PROVE  /\ step \in 1..Len(execution_order)
           /\ key \in ConfigKeys \cup CommandKeys
BY OrderAssumption DEF InLoop, key

(* ApplySetting leaves the setting at hand as asked for, and the others    *)
(* alone.                                                                  *)
LEMMA SettingApplied ==
    ASSUME IInv, ApplySetting
    PROVE  /\ \A c \in ConfigKeys \ {key} : flash'[c] = flash[c]
           /\ key \in Untouched /\ Settable(key, parsed_values.val[key]) =>
                ReadBack(key, flash'[key]) = ReadBack(key, Stored(key, parsed_values.val[key]))
<1>1. key \in ConfigKeys /\ InLoop
  BY DEF ApplySetting
<1>2. flash \in Settings /\ flash[key] \in StoredValues
      /\ (key \in RadioFlagKeys => flash[key] \in BOOLEAN)
  BY <1>1 DEF IInv, TypeOK, Settings
<1>3. CASE Differs(key) /\ Settable(key, parsed_values.val[key])
  <2>1. flash' = [flash EXCEPT ![key] = Stored(key, parsed_values.val[key])]
    BY <1>3 DEF ApplySetting, Set
  <2> QED BY <1>1, <1>2, <2>1 DEF Settings
<1>4. CASE Differs(key) /\ ~Settable(key, parsed_values.val[key])
  BY <1>4 DEF ApplySetting, Set
<1>5. CASE ~Differs(key)
  <2>1. flash' = flash
    BY <1>5 DEF ApplySetting
  <2>2. ASSUME key \in Untouched
        PROVE  parsed_values.val[key] = ReadBack(key, flash[key])
    <3>1. cache[key] \in {Unread, flash[key]}
      <4>1. ASSUME NEW i \in 1..Len(execution_order), i < step, execution_order[i] = VlanKey
            PROVE  key # VlanKey
        BY <4>1, <1>1, OrderAssumption DEF InLoop, key
      <4> QED BY <1>1, <2>2, <4>1 DEF IInv, CursorsAreFresh, InLoop
    <3>2. Loaded[key] = flash[key]
      BY <1>1, <3>1 DEF Loaded
    <3> QED BY <1>5, <3>2 DEF Differs
  <2> QED BY <1>1, <1>2, <2>1, <2>2, ReadBackStored
<1> QED BY <1>3, <1>4, <1>5

-----------------------------------------------------------------------------
(* The four parts of the inductive invariant, one lemma each.              *)

LEMMA InitIInv == Init => IInv
<1> SUFFICES ASSUME Init PROVE IInv
  OBVIOUS
<1>1. TypeOK
  BY InitType
<1>2. \A k \in RadioKeys : radio[k] = flash[k]
  BY DEF Init, RadioPart
<1>3. \A k \in ConfigKeys : cache[k] = Unread
  BY DEF Init, AgentStart
<1>4. pc = "write" /\ fails = 0 /\ backoff_counter = BackoffStart /\ reboot_required = FALSE
  BY DEF Init, AgentStart
<1>5. CarriedOutSoFar
  BY <1>4 DEF CarriedOutSoFar, ReplyIsCarriedOut
<1>6. ReloadIsDue
  BY <1>2 DEF ReloadIsDue
<1>7. CursorsAreFresh
  BY <1>3 DEF CursorsAreFresh, Untouched
<1>8. BackoffCounts
  BY <1>4 DEF BackoffCounts, Executing, BackoffStart, BackoffStep, MaxFails
<1>9. MonitorIsHeard
  BY <1>4 DEF MonitorIsHeard
<1> QED BY <1>1, <1>5, <1>6, <1>7, <1>8, <1>9 DEF IInv

(* Every start of the agent.                                               *)
LEMMA StartIInv ==
    ASSUME AgentStartNext, fails' = 0
    PROVE  CarriedOutSoFar' /\ CursorsAreFresh' /\ BackoffCounts'
<1>1. /\ pc' = "write" /\ backoff_counter' = BackoffStart /\ reboot_required' = FALSE
      /\ \A k \in ConfigKeys : cache'[k] = Unread
  BY DEF AgentStartNext
<1>2. CarriedOutSoFar'
  BY <1>1 DEF CarriedOutSoFar, ReplyIsCarriedOut
<1>3. CursorsAreFresh'
  BY <1>1 DEF CursorsAreFresh, Untouched
<1>4. BackoffCounts'
  BY <1>1 DEF BackoffCounts, Executing, BackoffStart, BackoffStep, MaxFails
<1> QED BY <1>2, <1>3, <1>4

LEMMA BootIInv ==
    ASSUME NEW cfg, Boot(cfg)
    PROVE  CarriedOutSoFar' /\ ReloadIsDue' /\ CursorsAreFresh' /\ BackoffCounts'
<1>1. ReloadIsDue'
  BY DEF Boot, ReloadIsDue, RadioPart
<1> QED BY <1>1, StartIInv DEF Boot

(* Steps that leave the loop, or stay out of it.                           *)
LEMMA OutOfLoop ==
    ASSUME pc' \notin {"exec", "upgrade", "finish"}
    PROVE  CarriedOutSoFar'
BY DEF CarriedOutSoFar, ReplyIsCarriedOut

LEMMA CarriedOutStep == IInv /\ [Next]_vars => CarriedOutSoFar'
<1> SUFFICES ASSUME IInv, [Next]_vars PROVE CarriedOutSoFar'
  OBVIOUS
<1>1. CASE Odoo_Write \/ Odoo_WriteFails \/ Odoo_WriteRaises
  BY <1>1, OutOfLoop DEF Odoo_Write, Odoo_WriteFails, Odoo_WriteRaises, EnterRead, Backoff
<1>2. ASSUME NEW kind \in ReplyKinds, Odoo_Read(kind)
      PROVE  CarriedOutSoFar'
  BY <1>2 DEF Odoo_Read, CarriedOutSoFar, ReplyIsCarriedOut
<1>3. CASE Odoo_ReadFails \/ Odoo_ReadRaises \/ OutOfMemory
  BY <1>3, OutOfLoop DEF Odoo_ReadFails, Odoo_ReadRaises, OutOfMemory, Backoff
<1>4. CASE ApplySetting
  <2>1. pc = "exec" /\ pc' = "exec" /\ step' = step + 1 /\ step \in 1..Len(execution_order)
        /\ UNCHANGED <<parsed_values, edited>>
    BY <1>4 DEF ApplySetting, InLoop, history
  <2>2. SUFFICES ASSUME NEW i \in 1..Len(execution_order), i < step + 1,
                        execution_order[i] \in Untouched,
                        Settable(execution_order[i], parsed_values.val[execution_order[i]])
                 PROVE  CarriedOut(execution_order[i])'
    BY <2>1 DEF CarriedOutSoFar, ReplyIsCarriedOut, Untouched, Settable
  <2>3. CASE i = step
    BY <1>4, <2>1, <2>2, <2>3, SettingApplied DEF key, CarriedOut
  <2>4. CASE i < step
    <3>1. execution_order[i] # key
      BY <2>1, <2>4, OrderAssumption DEF key
    <3>2. flash'[execution_order[i]] = flash[execution_order[i]]
      BY <1>4, <2>2, <3>1, SettingApplied DEF Untouched
    <3>3. CarriedOut(execution_order[i])
      BY <2>1, <2>2, <2>4 DEF IInv, CarriedOutSoFar
    <3> QED BY <2>1, <3>2, <3>3 DEF CarriedOut
  <2> QED BY <2>1, <2>2, <2>3, <2>4 DEF IInv, TypeOK
<1>5. CASE NoteRequest \/ ExecuteRemoteTerminal
  <2>1. /\ pc = "exec" /\ pc' \in {"exec", "hung"} /\ step' = step + 1
        /\ step \in 1..Len(execution_order)
        /\ UNCHANGED <<parsed_values, edited, flash>>
    BY <1>5 DEF NoteRequest, ExecuteRemoteTerminal, InLoop, device, history
  <2>2. execution_order[step] \notin ConfigKeys
    BY <1>5, KeyAssumption DEF NoteRequest, ExecuteRemoteTerminal, key, CommandKeys
  <2>3. SUFFICES ASSUME NEW i \in 1..Len(execution_order), i < step + 1,
                        execution_order[i] \in Untouched,
                        Settable(execution_order[i], parsed_values.val[execution_order[i]])
                 PROVE  CarriedOut(execution_order[i])'
    BY <2>1 DEF CarriedOutSoFar, ReplyIsCarriedOut, Untouched, Settable
  <2>4. i < step
    BY <2>1, <2>2, <2>3 DEF Untouched
  <2>5. CarriedOut(execution_order[i])
    BY <2>1, <2>3, <2>4 DEF IInv, CarriedOutSoFar
  <2> QED BY <2>1, <2>5 DEF CarriedOut
<1>6. CASE LoopEnds
  <2>1. /\ pc = "exec" /\ pc' \in {"upgrade", "finish"} /\ step > Len(execution_order)
        /\ UNCHANGED <<parsed_values, edited, flash>>
    BY <1>6 DEF LoopEnds, memory, device, history
  <2>2. SUFFICES ASSUME NEW k \in Untouched, Settable(k, parsed_values.val[k])
                 PROVE  CarriedOut(k)'
    BY <2>1 DEF CarriedOutSoFar, ReplyIsCarriedOut, CarriedOut, Untouched, Settable
  <2>3. PICK i \in 1..Len(execution_order) : execution_order[i] = k
    BY OrderAssumption DEF Untouched
  <2>4. i < step
    BY <2>1, OrderAssumption DEF IInv, TypeOK
  <2>5. CarriedOut(k)
    BY <2>1, <2>2, <2>3, <2>4 DEF IInv, CarriedOutSoFar
  <2> QED BY <2>1, <2>5 DEF CarriedOut
<1>7. CASE UpgradeFails
  <2>1. /\ pc = "upgrade" /\ pc' = "finish"
        /\ UNCHANGED <<Prev_Read_Accepted, parsed_values, edited, flash>>
    BY <1>7 DEF UpgradeFails, memory, device, history
  <2> QED BY <2>1 DEF IInv, CarriedOutSoFar, ReplyIsCarriedOut, Untouched, Settable
<1>8. CASE UpgradeReboots \/ Reboot \/ PowerCut
  BY <1>8, BootIInv DEF UpgradeReboots, Reboot, PowerCut
<1>9. CASE Finish
  BY <1>9, OutOfLoop DEF Finish
<1>10. CASE Relaunch
  BY <1>10, StartIInv DEF Relaunch
<1>11. CASE UserEdit
  <2>1. PICK k \in ConfigKeys, v \in StoredValues :
           flash' = [flash EXCEPT ![k] = v] /\ edited' = edited \cup {k}
    BY <1>11 DEF UserEdit
  <2>2. UNCHANGED <<pc, step, parsed_values, Prev_Read_Accepted>>
    BY <1>11 DEF UserEdit, control, memory
  <2>3. \A c \in Untouched' : c \in Untouched /\ flash'[c] = flash[c]
    BY <2>1 DEF Untouched, IInv, TypeOK, Settings
  <2> QED BY <2>2, <2>3 DEF IInv, CarriedOutSoFar, CarriedOut, ReplyIsCarriedOut, Settable
<1>12. CASE ServerEdit \/ Outage \/ UNCHANGED vars
  <2>1. UNCHANGED <<pc, step, parsed_values, Prev_Read_Accepted, flash, edited>>
    BY <1>12 DEF ServerEdit, Outage, vars, control, memory, device, history
  <2> QED BY <2>1 DEF IInv, CarriedOutSoFar, CarriedOut, ReplyIsCarriedOut, Untouched, Settable
<1> QED
  BY <1>1, <1>2, <1>3, <1>4, <1>5, <1>6, <1>7, <1>8, <1>9, <1>10, <1>11, <1>12
  DEF Next, Agent, Execute, Environment

LEMMA ReloadStep == IInv /\ [Next]_vars => ReloadIsDue'
<1> SUFFICES ASSUME IInv, [Next]_vars PROVE ReloadIsDue'
  OBVIOUS
<1>0. ReloadIsDue
  BY DEF IInv
<1>1. CASE Odoo_Write \/ Odoo_WriteFails \/ Odoo_WriteRaises
  <2>1. pc = "write" /\ UNCHANGED <<flash, radio, edited>>
    BY <1>1 DEF Odoo_Write, Odoo_WriteFails, Odoo_WriteRaises
  <2> QED BY <1>0, <2>1 DEF ReloadIsDue, Executing, Untouched
<1>2. ASSUME NEW kind \in ReplyKinds, Odoo_Read(kind)
      PROVE  ReloadIsDue'
  <2>1. pc = "read" /\ UNCHANGED <<flash, radio, edited>>
    BY <1>2 DEF Odoo_Read
  <2> QED BY <1>0, <2>1 DEF ReloadIsDue, Executing, Untouched
<1>3. CASE Odoo_ReadFails \/ Odoo_ReadRaises
  <2>1. pc = "read" /\ UNCHANGED <<flash, radio, edited>>
    BY <1>3 DEF Odoo_ReadFails, Odoo_ReadRaises, device, history
  <2> QED BY <1>0, <2>1 DEF ReloadIsDue, Executing, Untouched
<1>4. CASE ApplySetting
  <2>1. /\ pc = "exec" /\ pc' = "exec" /\ UNCHANGED <<radio, edited>>
        /\ need'.wifi = (need.wifi \/ (Differs(key) /\ key \in RadioKeys))
    BY <1>4 DEF ApplySetting, NeedAfter, InLoop, history, IInv, TypeOK
  <2>2. SUFFICES ASSUME NEW c \in RadioKeys \cap Untouched, ~need'.wifi
                 PROVE  radio[c] = flash'[c]
    BY <2>1 DEF ReloadIsDue, Executing, Untouched
  <2>3. radio[c] = flash[c]
    BY <1>0, <2>1, <2>2 DEF ReloadIsDue
  <2>4. CASE c = key
    BY <1>4, <2>1, <2>2, <2>3, <2>4 DEF ApplySetting
  <2>5. CASE c # key
    BY <1>4, <2>3, <2>5, SettingApplied DEF Untouched
  <2> QED BY <2>4, <2>5
<1>5. CASE NoteRequest \/ ExecuteRemoteTerminal \/ LoopEnds \/ UpgradeFails
  <2>1. /\ Executing /\ pc' \in {"exec", "upgrade", "finish", "hung"}
        /\ need'.wifi = need.wifi
        /\ UNCHANGED <<flash, radio, edited>>
    BY <1>5 DEF NoteRequest, ExecuteRemoteTerminal, LoopEnds, UpgradeFails, InLoop, Executing,
                memory, device, history, IInv, TypeOK
  <2> QED BY <1>0, <2>1 DEF ReloadIsDue, Executing, Untouched
<1>6. CASE UpgradeReboots \/ Reboot \/ PowerCut
  BY <1>6, BootIInv DEF UpgradeReboots, Reboot, PowerCut
<1>7. CASE Finish
  <2>1. pc = "finish" /\ UNCHANGED <<flash, edited>>
    BY <1>7 DEF Finish, history
  <2>2. CASE need.reboot
    BY <1>7, <2>2 DEF Finish, ReloadIsDue
  <2>3. CASE ~need.reboot
    <3>1. radio' = IF need.wifi THEN RadioPart(flash) ELSE radio
      BY <1>7, <2>3 DEF Finish
    <3> QED BY <1>0, <2>1, <3>1 DEF ReloadIsDue, RadioPart, Untouched
  <2> QED BY <2>2, <2>3
<1>8. CASE OutOfMemory
  BY <1>8 DEF OutOfMemory, ReloadIsDue
<1>9. CASE Relaunch
  <2>1. pc = "failed" /\ UNCHANGED <<flash, radio, edited>>
    BY <1>9 DEF Relaunch, device
  <2> QED BY <1>0, <2>1 DEF ReloadIsDue, Executing, Untouched
<1>10. CASE UserEdit
  <2>1. PICK k \in ConfigKeys, v \in StoredValues :
           flash' = [flash EXCEPT ![k] = v] /\ edited' = edited \cup {k}
    BY <1>10 DEF UserEdit
  <2>2. UNCHANGED <<pc, need>> /\ radio' \in {radio, RadioPart(flash')}
    BY <1>10 DEF UserEdit, control, memory
  <2>3. \A c \in Untouched' : c \in Untouched /\ flash'[c] = flash[c]
    BY <2>1 DEF Untouched, IInv, TypeOK, Settings
  <2> QED BY <1>0, <2>2, <2>3 DEF ReloadIsDue, Executing, RadioPart
<1>11. CASE ServerEdit \/ Outage \/ UNCHANGED vars
  <2>1. UNCHANGED <<pc, need, flash, radio, edited>>
    BY <1>11 DEF ServerEdit, Outage, vars, control, memory, device, history
  <2> QED BY <1>0, <2>1 DEF ReloadIsDue, Executing, Untouched
<1> QED
  BY <1>1, <1>2, <1>3, <1>4, <1>5, <1>6, <1>7, <1>8, <1>9, <1>10, <1>11
  DEF Next, Agent, Execute, Environment

(* Loading the packages, nothing else.                                     *)
LEMMA FreshStays ==
    ASSUME IInv, cache' \in {cache, Loaded}, UNCHANGED <<flash, edited>>,
           pc \in {"write", "read", "failed"}
    PROVE  \A k \in Untouched' : cache'[k] \in {Unread, flash'[k]}
BY DEF IInv, CursorsAreFresh, Loaded, Untouched

LEMMA FreshStep == IInv /\ [Next]_vars => CursorsAreFresh'
<1> SUFFICES ASSUME IInv, [Next]_vars PROVE CursorsAreFresh'
  OBVIOUS
<1>0. CursorsAreFresh
  BY DEF IInv
<1>1. CASE Odoo_Write \/ Odoo_WriteFails \/ Odoo_WriteRaises
  <2>1. pc = "write" /\ cache' \in {cache, Loaded} /\ UNCHANGED <<flash, edited>>
    BY <1>1 DEF Odoo_Write, Odoo_WriteFails, Odoo_WriteRaises
  <2> QED BY <2>1, FreshStays DEF CursorsAreFresh
<1>2. ASSUME NEW kind \in ReplyKinds, Odoo_Read(kind)
      PROVE  CursorsAreFresh'
  <2>1. pc = "read" /\ UNCHANGED <<cache, flash, edited>>
    BY <1>2 DEF Odoo_Read
  <2> QED BY <2>1, FreshStays DEF CursorsAreFresh
<1>3. CASE Odoo_ReadFails \/ Odoo_ReadRaises
  <2>1. pc = "read" /\ UNCHANGED <<cache, flash, edited>>
    BY <1>3 DEF Odoo_ReadFails, Odoo_ReadRaises, memory, device, history
  <2> QED BY <2>1, FreshStays DEF CursorsAreFresh
<1>4. CASE ApplySetting
  <2>1. /\ pc = "exec" /\ pc' = "exec" /\ UNCHANGED edited /\ step' = step + 1
        /\ key \in ConfigKeys /\ step \in 1..Len(execution_order)
        /\ key = execution_order[step] /\ step \in Nat
    BY <1>4 DEF ApplySetting, InLoop, history, key, IInv, TypeOK
  <2>2. need'.reboot = (need.reboot \/ (Differs(key) /\ key = VlanKey))
    BY <1>4 DEF ApplySetting, NeedAfter, IInv, TypeOK
  <2>3. ASSUME NEW c \in Untouched, cache'[c] = Loaded[c], flash'[c] = flash[c]
        PROVE  \/ cache'[c] \in {Unread, flash'[c]}
               \/ /\ c = VlanKey /\ need'.reboot
                  /\ \E i \in 1..Len(execution_order) : i < step' /\ execution_order[i] = VlanKey
    <3>1. CASE cache[c] \in {Unread, flash[c]}
      BY <2>3, <3>1 DEF Loaded, Untouched
    <3>2. CASE cache[c] \notin {Unread, flash[c]}
      <4>1. /\ c = VlanKey /\ need.reboot
            /\ \E i \in 1..Len(execution_order) : i < step /\ execution_order[i] = VlanKey
        BY <1>0, <2>1, <3>2 DEF CursorsAreFresh
      <4>2. PICK i \in 1..Len(execution_order) : i < step /\ execution_order[i] = VlanKey
        BY <4>1
      <4>3. i < step'
        BY <2>1, <4>2
      <4> QED BY <2>2, <4>1, <4>2, <4>3
    <3> QED BY <3>1, <3>2
  <2>4. CASE Differs(key) /\ Settable(key, parsed_values.val[key])
    <3>1. cache' = [c \in ConfigKeys |->
                      IF key # VlanKey /\ CursorOf[c] = CursorOf[key]
                      THEN flash'[c] ELSE Loaded[c]]
      BY <1>4, <2>4 DEF ApplySetting, Set, Reloaded
    <3>2. SUFFICES ASSUME NEW c \in Untouched
                   PROVE  \/ cache'[c] \in {Unread, flash'[c]}
                          \/ /\ c = VlanKey /\ need'.reboot
                             /\ \E i \in 1..Len(execution_order) :
                                    i < step' /\ execution_order[i] = VlanKey
      BY <2>1 DEF CursorsAreFresh, Untouched
    <3>3. CASE c # key
      BY <1>4, <2>3, <3>1, <3>3, SettingApplied DEF Untouched
    <3>4. CASE c = key /\ key # VlanKey
      BY <3>1, <3>4 DEF Untouched
    <3>5. CASE c = key /\ key = VlanKey
      <4>1. step < step' /\ execution_order[step] = VlanKey
        BY <2>1, <3>5
      <4>2. need'.reboot
        BY <2>2, <2>4, <3>5
      <4> QED BY <2>1, <3>5, <4>1, <4>2
    <3> QED BY <3>3, <3>4, <3>5
  <2>5. CASE ~(Differs(key) /\ Settable(key, parsed_values.val[key]))
    <3>1. cache' = Loaded /\ flash' = flash
      BY <1>4, <2>5 DEF ApplySetting, Set
    <3> QED BY <2>1, <2>3, <3>1 DEF CursorsAreFresh, Untouched
  <2> QED BY <2>4, <2>5
<1>5. CASE NoteRequest \/ ExecuteRemoteTerminal
  <2>1. /\ pc = "exec" /\ pc' \in {"exec", "hung"} /\ step' = step + 1 /\ step \in Nat
        /\ need.reboot => need'.reboot
        /\ UNCHANGED <<cache, flash, edited>>
    BY <1>5 DEF NoteRequest, ExecuteRemoteTerminal, InLoop, device, history, IInv, TypeOK
  <2> QED BY <1>0, <2>1, OrderAssumption DEF CursorsAreFresh, Untouched
<1>6. CASE LoopEnds \/ UpgradeFails \/ OutOfMemory
  <2>1. pc' \in {"upgrade", "finish", "oom"} /\ UNCHANGED <<need, cache, flash, edited>>
    BY <1>6 DEF LoopEnds, UpgradeFails, OutOfMemory, memory, device, history
  <2> QED BY <1>0, <2>1 DEF CursorsAreFresh, Untouched
<1>7. CASE UpgradeReboots \/ Reboot \/ PowerCut
  BY <1>7, BootIInv DEF UpgradeReboots, Reboot, PowerCut
<1>8. CASE Finish
  <2>1. UNCHANGED <<cache, flash, edited>>
    BY <1>8 DEF Finish, history
  <2>2. CASE need.reboot
    <3>1. pc' = "elevated" /\ need' = need
      BY <1>8, <2>2 DEF Finish
    <3> QED BY <1>0, <2>1, <3>1 DEF CursorsAreFresh, Untouched
  <2>3. CASE ~need.reboot
    BY <1>0, <2>1, <2>3 DEF CursorsAreFresh, Untouched
  <2> QED BY <2>2, <2>3
<1>9. CASE Relaunch
  BY <1>9, StartIInv DEF Relaunch
<1>10. CASE UserEdit
  <2>1. PICK k \in ConfigKeys, v \in StoredValues :
           flash' = [flash EXCEPT ![k] = v] /\ edited' = edited \cup {k}
    BY <1>10 DEF UserEdit
  <2>2. UNCHANGED <<pc, step, need, cache>>
    BY <1>10 DEF UserEdit, control, memory
  <2>3. \A c \in Untouched' : c \in Untouched /\ flash'[c] = flash[c]
    BY <2>1 DEF Untouched, IInv, TypeOK, Settings
  <2> QED BY <1>0, <2>2, <2>3 DEF CursorsAreFresh
<1>11. CASE ServerEdit \/ Outage \/ UNCHANGED vars
  <2>1. UNCHANGED <<pc, step, need, cache, flash, edited>>
    BY <1>11 DEF ServerEdit, Outage, vars, control, memory, device, history
  <2> QED BY <1>0, <2>1 DEF CursorsAreFresh, Untouched
<1> QED
  BY <1>1, <1>2, <1>3, <1>4, <1>5, <1>6, <1>7, <1>8, <1>9, <1>10, <1>11
  DEF Next, Agent, Execute, Environment

LEMMA BackoffCountStep == IInv /\ [Next]_vars => BackoffCounts'
<1> SUFFICES ASSUME IInv, [Next]_vars PROVE BackoffCounts'
  OBVIOUS
<1>0. BackoffCounts /\ TypeOK
  BY DEF IInv
<1>1. CASE Odoo_Write \/ Odoo_WriteRaises
  <2>1. pc = "write" /\ pc' = "read" /\ backoff_counter' = BackoffStart /\ fails' = 0
        /\ UNCHANGED reboot_required
    BY <1>1 DEF Odoo_Write, Odoo_WriteRaises, EnterRead
  <2> QED BY <1>0, <2>1 DEF BackoffCounts, Executing, BackoffStart, BackoffStep, MaxFails
<1>2. CASE Odoo_WriteFails \/ Odoo_ReadFails
  <2>1. pc \in {"write", "read"} /\ Backoff
    BY <1>2 DEF Odoo_WriteFails, Odoo_ReadFails
  <2>2. backoff_counter = BackoffStart + BackoffStep * fails /\ fails < MaxFails
        /\ ~reboot_required
    BY <1>0, <2>1 DEF BackoffCounts, TypeOK
  <2>3. IF pc' = "elevated" THEN reboot_required' /\ fails' = MaxFails
        ELSE /\ reboot_required' = reboot_required /\ pc' = pc
             /\ backoff_counter' = BackoffStart + BackoffStep * fails'
             /\ fails' < MaxFails
    BY <1>0, <2>1, <2>2, BackoffType
  <2>4. CASE pc' = "elevated"
    BY <2>3, <2>4 DEF BackoffCounts, Executing
  <2>5. CASE pc' # "elevated"
    <3>1. pc' = pc /\ ~reboot_required' /\ fails' < MaxFails
          /\ backoff_counter' = BackoffStart + BackoffStep * fails'
      BY <2>2, <2>3, <2>5
    <3> QED BY <2>1, <2>5, <3>1 DEF BackoffCounts, Executing
  <2> QED BY <2>4, <2>5
<1>3. ASSUME NEW kind \in ReplyKinds, Odoo_Read(kind)
      PROVE  BackoffCounts'
  <2>1. pc = "read" /\ pc' \in {"exec", "finish"} /\ fails' = 0 /\ UNCHANGED reboot_required
    BY <1>3 DEF Odoo_Read
  <2> QED BY <1>0, <2>1 DEF BackoffCounts, Executing
<1>4. CASE Odoo_ReadRaises \/ OutOfMemory
  <2>1. pc # "elevated" /\ pc' \in {"failed", "oom"} /\ UNCHANGED reboot_required
    BY <1>4 DEF Odoo_ReadRaises, OutOfMemory
  <2> QED BY <1>0, <2>1 DEF BackoffCounts, Executing
<1>5. CASE ApplySetting \/ NoteRequest \/ ExecuteRemoteTerminal \/ LoopEnds \/ UpgradeFails
  <2>1. /\ Executing /\ pc' \in {"exec", "upgrade", "finish", "hung"}
        /\ UNCHANGED <<reboot_required, fails>>
    BY <1>5 DEF ApplySetting, NoteRequest, ExecuteRemoteTerminal, LoopEnds, UpgradeFails, InLoop,
                Executing, history
  <2>2. pc # "elevated" /\ fails = 0
    BY <1>0, <2>1 DEF BackoffCounts, Executing
  <2> QED BY <1>0, <2>1, <2>2 DEF BackoffCounts
<1>6. CASE UpgradeReboots \/ Reboot \/ PowerCut
  BY <1>6, BootIInv DEF UpgradeReboots, Reboot, PowerCut
<1>7. CASE Finish
  <2>1. pc = "finish" /\ fails = 0 /\ UNCHANGED <<reboot_required, fails>>
    BY <1>0, <1>7 DEF Finish, history, BackoffCounts, Executing
  <2>2. ~reboot_required
    BY <1>0, <2>1 DEF BackoffCounts
  <2>3. CASE need.reboot
    <3>1. pc' = "elevated" /\ need' = need
      BY <1>7, <2>3 DEF Finish
    <3> QED BY <2>1, <2>2, <2>3, <3>1 DEF BackoffCounts, Executing
  <2>4. CASE ~need.reboot
    <3>1. pc' = "write" /\ backoff_counter' = BackoffStart
      BY <1>7, <2>4 DEF Finish
    <3> QED BY <2>1, <2>2, <3>1 DEF BackoffCounts, Executing, BackoffStart, BackoffStep, MaxFails
  <2> QED BY <2>3, <2>4
<1>8. CASE Relaunch
  BY <1>8, StartIInv DEF Relaunch
<1>9. CASE UserEdit \/ ServerEdit \/ Outage \/ UNCHANGED vars
  <2>1. UNCHANGED <<pc, backoff_counter, reboot_required, need, fails>>
    BY <1>9 DEF UserEdit, ServerEdit, Outage, vars, control, memory, history
  <2> QED BY <1>0, <2>1 DEF BackoffCounts, Executing
<1> QED
  BY <1>1, <1>2, <1>3, <1>4, <1>5, <1>6, <1>7, <1>8, <1>9
  DEF Next, Agent, Execute, Environment

LEMMA HeardStep == IInv /\ [Next]_vars => MonitorIsHeard'
<1> SUFFICES ASSUME IInv, [Next]_vars PROVE MonitorIsHeard'
  OBVIOUS
<1>0. MonitorIsHeard /\ step \in Nat
  BY DEF IInv, TypeOK
<1>1. CASE Odoo_Write \/ Odoo_WriteRaises
  BY <1>1 DEF Odoo_Write, Odoo_WriteRaises, EnterRead, Report, MonitorIsHeard, Heard
<1>2. CASE Odoo_WriteFails
  <2>1. pc = "write" /\ pc' \in {"write", "elevated"}
    BY <1>2 DEF Odoo_WriteFails, Backoff
  <2> QED BY <2>1 DEF MonitorIsHeard
<1>3. ASSUME NEW kind \in ReplyKinds, Odoo_Read(kind)
      PROVE  MonitorIsHeard'
  <2>1. pc = "read" /\ UNCHANGED <<Monitor, heard, lastWrite>>
    BY <1>3 DEF Odoo_Read, server
  <2> QED BY <1>0, <2>1 DEF MonitorIsHeard, Heard
<1>4. CASE Odoo_ReadFails
  <2>1. pc = "read" /\ pc' \in {"read", "elevated"} /\ UNCHANGED <<Monitor, heard, lastWrite>>
    BY <1>4 DEF Odoo_ReadFails, Backoff, memory, server
  <2> QED BY <1>0, <2>1 DEF MonitorIsHeard, Heard
<1>5. CASE ApplySetting \/ NoteRequest
  <2>1. /\ pc = "exec" /\ pc' = "exec" /\ step' = step + 1
        /\ UNCHANGED <<Monitor, heard, lastWrite>>
    BY <1>5 DEF ApplySetting, NoteRequest, InLoop, server, history
  <2>2. \A i \in 1..Len(execution_order) : i < step => i < step'
    BY <1>0, <2>1, OrderAssumption
  <2> QED BY <1>0, <2>1, <2>2 DEF MonitorIsHeard, Heard
<1>6. CASE ExecuteRemoteTerminal
  <2>1. /\ step \in 1..Len(execution_order) /\ execution_order[step] = "x_terminal"
        /\ step' = step + 1 /\ pc' \in {"exec", "hung"}
    BY <1>6 DEF ExecuteRemoteTerminal, InLoop, key
  <2>2. step < step'
    BY <1>0, <2>1
  <2> QED BY <2>1, <2>2 DEF MonitorIsHeard
<1>7. CASE \/ Odoo_ReadRaises \/ LoopEnds \/ UpgradeFails \/ UpgradeReboots \/ Finish
           \/ OutOfMemory \/ Reboot \/ Relaunch \/ PowerCut
  <2>1. pc' \notin {"read", "exec"}
    BY <1>7 DEF Odoo_ReadRaises, LoopEnds, UpgradeFails, UpgradeReboots, Finish, OutOfMemory,
                Reboot, Relaunch, PowerCut, Boot, AgentStartNext
  <2> QED BY <2>1 DEF MonitorIsHeard
<1>8. CASE UserEdit \/ ServerEdit \/ Outage \/ UNCHANGED vars
  <2>1. UNCHANGED <<pc, step, Monitor, heard, lastWrite>>
    BY <1>8 DEF UserEdit, ServerEdit, Outage, vars, control, memory, server, history
  <2> QED BY <1>0, <2>1 DEF MonitorIsHeard, Heard
<1> QED
  BY <1>1, <1>2, <1>3, <1>4, <1>5, <1>6, <1>7, <1>8
  DEF Next, Agent, Execute, Environment

(* Only x_terminal brings a new output, and the loop comes to it once.     *)
LEMMA OnlyTerminalSpeaks ==
    ASSUME IInv, [Next]_vars, Monitor # NoOutput, Monitor' \notin {Monitor, NoOutput}
    PROVE  Heard
<1>1. CASE ExecuteRemoteTerminal
  <2>1. /\ pc = "exec" /\ step \in 1..Len(execution_order)
        /\ execution_order[step] = "x_terminal"
    BY <1>1 DEF ExecuteRemoteTerminal, InLoop, key
  <2>2. \A i \in 1..Len(execution_order) : i < step => execution_order[i] # "x_terminal"
    BY <2>1, OrderAssumption
  <2> QED BY <2>1, <2>2 DEF IInv, MonitorIsHeard
<1>2. ASSUME UNCHANGED Monitor \/ AgentStartNext
      PROVE  FALSE
  BY <1>2 DEF AgentStartNext
<1>3. CASE \/ Odoo_Write \/ Odoo_WriteFails \/ Odoo_WriteRaises \/ Odoo_ReadFails
           \/ Odoo_ReadRaises \/ ApplySetting \/ NoteRequest \/ LoopEnds \/ UpgradeFails
           \/ Finish \/ OutOfMemory
  BY <1>2, <1>3 DEF Odoo_Write, Odoo_WriteFails, Odoo_WriteRaises, Odoo_ReadFails,
     Odoo_ReadRaises, ApplySetting, NoteRequest, LoopEnds, UpgradeFails, Finish, OutOfMemory, memory
<1>4. ASSUME NEW kind \in ReplyKinds, Odoo_Read(kind)
      PROVE  FALSE
  BY <1>2, <1>4 DEF Odoo_Read
<1>5. CASE UpgradeReboots \/ Reboot \/ Relaunch \/ PowerCut
  BY <1>2, <1>5 DEF UpgradeReboots, Reboot, Relaunch, PowerCut, Boot
<1>6. CASE UserEdit \/ ServerEdit \/ Outage \/ UNCHANGED vars
  BY <1>2, <1>6 DEF UserEdit, ServerEdit, Outage, vars, memory
<1> QED
  BY <1>1, <1>3, <1>4, <1>5, <1>6
  DEF Next, Agent, Execute, Environment

-----------------------------------------------------------------------------
(* The theorems.                                                           *)

(* The inductive invariant holds in every reachable state.                 *)
THEOREM Invariance == Spec => []IInv
<1>1. Init => IInv
  BY InitIInv
<1>2. IInv /\ [Next]_vars => IInv'
  BY TypeStep, CarriedOutStep, ReloadStep, FreshStep, BackoffCountStep, HeardStep DEF IInv
<1> QED BY <1>1, <1>2, PTL DEF Spec

(* Every variable keeps its type, and the backoff its bound.               *)
THEOREM TypeCorrect == Spec => []TypeOK
<1>1. IInv => TypeOK
  BY DEF IInv
<1> QED BY <1>1, Invariance, PTL

(* No setting of the radio is committed and then left without a reload.    *)
THEOREM RadioSafety == Spec => []RadioFollowsFlash
<1>1. IInv => RadioFollowsFlash
  BY DEF IInv, ReloadIsDue, RadioFollowsFlash, Executing
<1> QED BY <1>1, Invariance, PTL

(* The bridge never reports or compares a setting that is out of date,     *)
(* except one the user edited and a VLAN about to be rebooted for.         *)
THEOREM PictureSafety == Spec => []PictureIsTrue
<1>1. IInv => PictureIsTrue
  BY DEF IInv, CursorsAreFresh, PictureIsTrue
<1> QED BY <1>1, Invariance, PTL

(* An accepted reply is carried out in full, whatever the order of the     *)
(* keys, and however many of them were right already.                      *)
THEOREM ReplySafety == Spec => []ReplyIsCarriedOut
<1>1. IInv => ReplyIsCarriedOut
  BY DEF IInv, CarriedOutSoFar
<1> QED BY <1>1, Invariance, PTL

(* A reboot for want of a server follows MaxFails failures in a row.       *)
THEOREM BackoffSafety == Spec => []BackoffIsEarned
<1>1. IInv => BackoffIsEarned
  BY DEF IInv, BackoffCounts, BackoffIsEarned
<1> QED BY <1>1, Invariance, PTL

(* What a remote command printed reaches the server before what a later one*)
(* prints takes its place, unless Odoo_Write raised meanwhile.             *)
THEOREM OutputSafety == Spec => OutputHeardBeforeNext
<1>1. IInv /\ [Next]_vars =>
        [Monitor # NoOutput /\ Monitor' \notin {Monitor, NoOutput}
           => heard = Monitor \/ lastWrite = "raised"]_vars
  BY OnlyTerminalSpeaks DEF Heard
<1> QED BY <1>1, Invariance, PTL DEF Spec, OutputHeardBeforeNext
=============================================================================
