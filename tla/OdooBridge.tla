----------------------------- MODULE OdooBridge -----------------------------
(***************************************************************************)
(* The bridge between the modem and its Odoo server: Odoo_Connector and    *)
(* the four local functions of odoo_bridge.lua it calls in a cycle,        *)
(*     Odoo_Write, Odoo_Read, Bridge_Parse, Bridge_Execute,                *)
(* with the getters and setters of the settings they touch.                *)
(*                                                                         *)
(* The bridge is one Lua interpreter, so its own steps never interleave    *)
(* with one another; they interleave with the operator who edits the       *)
(* desired state on the server, with the user who edits the modem's        *)
(* settings in LuCI, with the network, and with the power switch.          *)
(* Every such disturbance costs one unit of `disturbances', which          *)
(* MaxDisturbances bounds.                                                 *)
(***************************************************************************)
EXTENDS Integers, Sequences

CONSTANTS
    PlainKeys,        \* settings that only have to be stored: name, x_site
    RadioTextKeys,    \* texts of the radio: channel, SSIDs, pass phrases
    RadioFlagKeys,    \* switches of the radio: wireless, SSID 1..3
    execution_order,  \* the order in which Bridge_Execute visits the keys
    Texts,            \* the texts a setting can hold
    AutoText, ZeroText,       \* two of them: "auto" and "0", the channel's two spellings
    Commands,         \* the command lines of x_terminal
    HangingCommands,  \* those among them that never end (read("*a") waits)
    Cursors, CursorOf,\* which uci cursor (which .lua file) serves a setting
    Desires,          \* the states the operator can ask for on the server
    FieldSettings,    \* the settings a modem in the field may hold
    Factory,          \* the settings a reflashed modem starts with
    MaxDisturbances,  \* bound on the steps of the environment
    Nil,              \* Lua's nil: an option that is not set, a missing field
    Empty,            \* what Odoo sends for a text field nobody filled: false
    Unread            \* a cursor that has not loaded its package yet

VlanKey      == "x_vlanId"
RadioKeys    == RadioTextKeys \cup RadioFlagKeys
ConfigKeys   == PlainKeys \cup RadioKeys \cup {VlanKey}
CommandKeys  == {"x_upgrade", "x_terminal", "x_reboot"}

StoredValues == Texts \cup BOOLEAN \cup {Nil}
WantedValues == Texts \cup BOOLEAN \cup {Empty, Nil}
Switches     == BOOLEAN \cup {Nil}

(* What may be stored: a flag is "1" or "0", here a Boolean.               *)
Settings == {cfg \in [ConfigKeys -> StoredValues] : \A k \in RadioFlagKeys : cfg[k] \in BOOLEAN}

NoOutput     == "no output"
InvalidCommand == "Error: Invalid command string"
Outputs      == Commands \cup {NoOutput, InvalidCommand}

(* What a reply asks for, as Bridge_Parse returns it.                      *)
Tasks == [val       : [ConfigKeys -> WantedValues],
          x_reboot  : Switches,
          x_upgrade : Switches,
          x_terminal: Commands \cup {Empty, Nil}]

ASSUME KeyAssumption ==
    /\ RadioTextKeys \cap RadioFlagKeys = {}
    /\ PlainKeys \cap RadioKeys = {}
    /\ VlanKey \notin PlainKeys \cup RadioKeys
    /\ CommandKeys \cap ConfigKeys = {}

ASSUME OrderAssumption ==
    /\ execution_order \in Seq(ConfigKeys \cup CommandKeys)
    /\ \A k \in ConfigKeys : \E i \in 1..Len(execution_order) : execution_order[i] = k
    /\ \A i, j \in 1..Len(execution_order) : execution_order[i] = execution_order[j] => i = j

ASSUME ValueAssumption ==
    /\ {Nil, Empty, Unread} \cap (Texts \cup BOOLEAN) = {}
    /\ Texts \cap BOOLEAN = {}
    /\ Nil # Empty /\ Nil # Unread /\ Empty # Unread
    /\ {Nil, Empty} \cap Commands = {}
    /\ AutoText \in Texts /\ ZeroText \in Texts

ASSUME ConfigAssumption ==
    /\ CursorOf \in [ConfigKeys -> Cursors]
    /\ Desires \subseteq Tasks
    /\ FieldSettings \cup {Factory} \subseteq Settings
    /\ HangingCommands \subseteq Commands
    /\ MaxDisturbances \in Nat

VARIABLES
    \* the agent's volatile state
    pc,                  \* where Odoo_Connector is
    step,                \* how far the loop over execution_order has come
    backoff_counter,     \* seconds to sleep after the next failure
    reboot_required,     \* a backoff has run out
    Prev_Read_Accepted,  \* the last decoded reply said success
    Monitor,             \* output of the last remote command
    parsed_values,       \* what the reply in hand asks for
    need,                \* need_reboot, need_wifi_reload, need_upgrade
    cache,               \* what the uci cursors believe is stored
    \* the device
    flash,               \* the settings committed under /etc/config
    radio,               \* the radio settings in force since the last reload
    led,                 \* the power LED
    \* the environment
    up,                  \* the server can be reached
    desired,             \* the state the operator asks for
    heard,               \* the last x_monitor the server received
    disturbances,        \* environment steps so far
    \* history, read by properties only
    edited,              \* settings the user edited since the last boot
    fails,               \* consecutive failures of the present request
    lastWrite            \* how the last Odoo_Write ended

control == <<pc, step, backoff_counter, reboot_required>>
memory  == <<Prev_Read_Accepted, Monitor, parsed_values, need, cache>>
device  == <<flash, radio, led>>
server  == <<up, desired, heard>>
history == <<edited, fails, lastWrite>>
vars    == <<control, memory, device, server, disturbances, history>>

-----------------------------------------------------------------------------
(* Constants of the code.                                                  *)
BackoffStart == 5
BackoffStep  == 2
BackoffLimit == 36
MaxFails     == 16   \* failures until BackoffStart + n * BackoffStep reaches the limit

NoTask == [val |-> [k \in ConfigKeys |-> Nil],
           x_reboot |-> Nil, x_upgrade |-> Nil, x_terminal |-> Nil]
NoNeed == [reboot |-> FALSE, wifi |-> FALSE, upgrade |-> FALSE]

(* What a setter stores for v, and what the getter makes of what is stored:*)
(* the channel is "0" on flash and "auto" for the server; a flag that is   *)
(* not true is stored as off.                                              *)
Stored(k, v) ==
    IF k \in RadioFlagKeys THEN v = TRUE
    ELSE IF k = "x_channel" /\ v = AutoText THEN ZeroText ELSE v
ReadBack(k, s) == IF k = "x_channel" /\ s = ZeroText THEN AutoText ELSE s

(* A setter raises on a value that is not a string (luaL_checkstring,      *)
(* string.format); BRIDGE_CHECK swallows the error, nothing is stored.     *)
Settable(k, v) == k \in RadioFlagKeys \/ v \in Texts

(* A cursor loads its package at its first get and keeps it.               *)
Loaded == [k \in ConfigKeys |-> IF cache[k] = Unread THEN flash[k] ELSE cache[k]]

RadioPart(cfg) == [k \in RadioKeys |-> cfg[k]]

AgentStart ==
    /\ pc = "write" /\ step = 0
    /\ backoff_counter = BackoffStart /\ reboot_required = FALSE
    /\ Prev_Read_Accepted = TRUE /\ Monitor = NoOutput
    /\ parsed_values = NoTask /\ need = NoNeed
    /\ cache = [k \in ConfigKeys |-> Unread]

AgentStartNext ==
    /\ pc' = "write" /\ step' = 0
    /\ backoff_counter' = BackoffStart /\ reboot_required' = FALSE
    /\ Prev_Read_Accepted' = TRUE /\ Monitor' = NoOutput
    /\ parsed_values' = NoTask /\ need' = NoNeed
    /\ cache' = [k \in ConfigKeys |-> Unread]

Init ==
    /\ AgentStart
    /\ flash \in FieldSettings
    /\ radio = RadioPart(flash)
    /\ led = "red"
    /\ up = TRUE /\ desired \in Desires /\ heard = NoOutput
    /\ disturbances = 0
    /\ edited = {} /\ fails = 0 /\ lastWrite = "none"

Disturb == /\ disturbances < MaxDisturbances
           /\ disturbances' = disturbances + 1

-----------------------------------------------------------------------------
(* The write block.                                                        *)

(* A request that went through: the LED is turned green, and the read      *)
(* block begins after ten seconds with a fresh backoff.                    *)
EnterRead_KeepsBackoff == /\ pc' = "read" /\ led' = "green"
                          /\ UNCHANGED <<backoff_counter, step, reboot_required>>
EnterRead == /\ pc' = "read" /\ backoff_counter' = BackoffStart
             /\ led' = "green"
             /\ UNCHANGED <<step, reboot_required>>

(* x_monitor of the request: requestBody is encoded before the field is    *)
(* taken out of requestData for the log.                                   *)
Report_DroppedFirst == NoOutput
Report == Monitor

Odoo_Write ==
    /\ pc = "write" /\ up
    /\ EnterRead
    /\ cache' = Loaded
    /\ heard' = Report
    /\ lastWrite' = "ok" /\ fails' = 0
    /\ UNCHANGED <<Prev_Read_Accepted, Monitor, parsed_values, need, flash, radio,
                   up, desired, disturbances, edited>>

(* Odoo_Write raised (no config file, not enough memory): BRIDGE_CHECK     *)
(* hands back the error text, which `until write_completed' takes for a    *)
(* completed write.                                                        *)
Odoo_WriteRaises ==
    /\ pc = "write" /\ Disturb
    /\ EnterRead
    /\ cache' \in {cache, Loaded}
    /\ lastWrite' = "raised" /\ fails' = 0
    /\ UNCHANGED <<Prev_Read_Accepted, Monitor, parsed_values, need, flash, radio,
                   server, edited>>

(* A request that returned false: sleep, lengthen the backoff, and when it *)
(* reaches the limit leave the block with reboot_required; the LED turns   *)
(* red, and green again when the block is left.                            *)
Backoff_TestsFirst ==
    /\ backoff_counter' = backoff_counter + BackoffStep
    /\ fails' = fails + 1
    /\ IF backoff_counter >= BackoffLimit
       THEN reboot_required' = TRUE /\ pc' = "elevated" /\ led' = "green"
       ELSE led' = "red" /\ UNCHANGED <<reboot_required, pc>>

Backoff_Caps ==
    /\ IF backoff_counter + BackoffStep >= BackoffLimit
       THEN UNCHANGED <<backoff_counter, fails>>
       ELSE backoff_counter' = backoff_counter + BackoffStep /\ fails' = fails + 1
    /\ led' = "red" /\ UNCHANGED <<reboot_required, pc>>

Backoff ==
    /\ backoff_counter' = backoff_counter + BackoffStep
    /\ fails' = fails + 1
    /\ IF backoff_counter' >= BackoffLimit
       THEN reboot_required' = TRUE /\ pc' = "elevated" /\ led' = "green"
       ELSE led' = "red" /\ UNCHANGED <<reboot_required, pc>>

(* A reachable server can fail a request too: an HTTP error code, "Odoo    *)
(* Server Error" in the body, a connection that breaks.                    *)
RequestFails == IF up THEN Disturb ELSE UNCHANGED disturbances

Odoo_WriteFails ==
    /\ pc = "write" /\ RequestFails
    /\ Backoff
    /\ cache' = Loaded
    /\ lastWrite' = "fail"
    /\ UNCHANGED <<step, Prev_Read_Accepted, Monitor, parsed_values, need, flash, radio,
                   server, edited>>

-----------------------------------------------------------------------------
(* The read block, with Bridge_Parse: the reply is decoded in the same     *)
(* step, nothing can come between.                                         *)

(* Bridge_Parse of a reply of the given kind sets Prev_Read_Accepted, then *)
(* takes the fields of the modem. If it raises, parse_results is the error *)
(* text, and every field of a string is nil.                               *)
(*   accepted: result.success and result.modem are there                   *)
(*   refused : result.success is false                                     *)
(*   headless: success without modem, or memory runs out after the flag    *)
(*   garbled : does not decode, has no result, or memory runs out before   *)
Bridge_Parse(kind) ==
    /\ Prev_Read_Accepted' = CASE kind = "refused" -> FALSE
                               [] kind = "garbled" -> Prev_Read_Accepted
                               [] OTHER -> TRUE
    /\ parsed_values' = IF kind = "accepted" THEN desired ELSE NoTask

ReplyKinds == {"accepted", "refused", "headless", "garbled"}

Odoo_Read(kind) ==
    /\ pc = "read" /\ up
    /\ IF kind = "accepted" THEN UNCHANGED disturbances ELSE Disturb
    /\ Bridge_Parse(kind)
    /\ pc' = IF Prev_Read_Accepted' THEN "exec" ELSE "finish"
    /\ step' = 1
    /\ need' = NoNeed
    /\ led' = "green" /\ fails' = 0
    /\ UNCHANGED <<backoff_counter, reboot_required, Monitor, cache, flash, radio,
                   server, edited, lastWrite>>

Odoo_ReadFails ==
    /\ pc = "read" /\ RequestFails
    /\ Backoff
    /\ UNCHANGED <<step, memory, flash, radio, server, edited, lastWrite>>

(* Odoo_Read is not wrapped in BRIDGE_CHECK: an error of it ends the       *)
(* bridge and reaches PIALB.                                               *)
Odoo_ReadRaises ==
    /\ pc = "read" /\ Disturb
    /\ pc' = "failed"
    /\ UNCHANGED <<step, backoff_counter, reboot_required, memory, device, server, history>>

-----------------------------------------------------------------------------
(* Bridge_Execute.                                                         *)

key == execution_order[step]
InLoop == pc = "exec" /\ step \in 1..Len(execution_order)

(* `value ~= Get()' for the setting at hand.                               *)
Differs_SkipsUnset(k) == Loaded[k] # Nil /\ parsed_values.val[k] # ReadBack(k, Loaded[k])
Differs_Raw(k) == parsed_values.val[k] # Loaded[k]
Differs(k) == parsed_values.val[k] # ReadBack(k, Loaded[k])

(* cursor:set and cursor:commit: the value reaches the flash, and the      *)
(* cursor's copy of the package is read in again. vlan.lua sets through    *)
(* the uci program, so its cursor keeps the old copy.                      *)
Reloaded_ViaProgram(k, cfg) == Loaded
Reloaded(k, cfg) ==
    [c \in ConfigKeys |-> IF k # VlanKey /\ CursorOf[c] = CursorOf[k] THEN cfg[c] ELSE Loaded[c]]

Set(k, v) ==
    IF Settable(k, v)
    THEN /\ flash' = [flash EXCEPT ![k] = Stored(k, v)]
         /\ cache' = Reloaded(k, flash')
    ELSE /\ cache' = Loaded
         /\ UNCHANGED flash

(* What a change of the setting calls for at the end of the execution.     *)
NeedAfter_ForgetsFlags(k) == [need EXCEPT !.wifi   = @ \/ k \in RadioTextKeys,
                                          !.reboot = @ \/ k = VlanKey]
NeedAfter_Overwrites(k) == [need EXCEPT !.wifi   = k \in RadioKeys,
                                        !.reboot = @ \/ k = VlanKey]
NeedAfter(k) == [need EXCEPT !.wifi   = @ \/ k \in RadioKeys,
                             !.reboot = @ \/ k = VlanKey]

ApplySetting ==
    /\ InLoop /\ key \in ConfigKeys
    /\ IF Differs(key)
       THEN /\ Set(key, parsed_values.val[key])
            /\ need' = NeedAfter(key)
       ELSE /\ cache' = Loaded
            /\ UNCHANGED <<need, flash>>
    /\ step' = step + 1
    /\ UNCHANGED <<pc, backoff_counter, reboot_required, Prev_Read_Accepted, Monitor,
                   parsed_values, radio, led, server, disturbances, history>>

(* `value ~= false': nil counts as a request.                              *)
NoteRequest ==
    /\ InLoop /\ key \in {"x_upgrade", "x_reboot"}
    /\ need' = [need EXCEPT
                  !.upgrade = @ \/ (key = "x_upgrade" /\ parsed_values.x_upgrade # FALSE),
                  !.reboot  = @ \/ (key = "x_reboot" /\ parsed_values.x_reboot # FALSE)]
    /\ step' = step + 1
    /\ UNCHANGED <<pc, backoff_counter, reboot_required, Prev_Read_Accepted, Monitor,
                   parsed_values, cache, device, server, disturbances, history>>

(* ExecuteRemoteTerminal waits for the command to end. A command that      *)
(* changes settings does what UserEdit does.                               *)
ExecuteRemoteTerminal ==
    /\ InLoop /\ key = "x_terminal"
    /\ LET cmd == parsed_values.x_terminal IN
       /\ pc' = IF cmd \in HangingCommands THEN "hung" ELSE pc
       /\ step' = step + 1
       /\ Monitor' = CASE cmd = Empty -> Monitor
                       [] cmd = Nil -> InvalidCommand
                       [] cmd \in HangingCommands -> Monitor
                       [] OTHER -> cmd
    /\ UNCHANGED <<backoff_counter, reboot_required, Prev_Read_Accepted, parsed_values,
                   need, cache, device, server, disturbances, history>>

LoopEnds ==
    /\ pc = "exec" /\ step > Len(execution_order)
    /\ pc' = IF need.upgrade THEN "upgrade" ELSE "finish"
    /\ UNCHANGED <<step, backoff_counter, reboot_required, memory, device, server,
                   disturbances, history>>

(* Sysupgrade.Upgrade that comes back: no download, no file, an image that *)
(* fails its check, an error. The rest of Bridge_Execute follows.          *)
UpgradeFails ==
    /\ pc = "upgrade"
    /\ pc' = "finish"
    /\ UNCHANGED <<step, backoff_counter, reboot_required, memory, device, server,
                   disturbances, history>>

(* The end of Bridge_Execute and of the cycle: a reboot takes precedence   *)
(* over the reload of the radio.                                           *)
Finish ==
    /\ pc = "finish"
    /\ IF need.reboot
       THEN /\ pc' = "elevated"
            /\ UNCHANGED <<backoff_counter, need, parsed_values, radio>>
       ELSE /\ pc' = "write" /\ backoff_counter' = BackoffStart
            /\ need' = NoNeed /\ parsed_values' = NoTask
            /\ radio' = IF need.wifi THEN RadioPart(flash) ELSE radio
    /\ step' = 0
    /\ UNCHANGED <<reboot_required, Prev_Read_Accepted, Monitor, cache, flash, led,
                   server, disturbances, history>>

(* Memory runs out in a call that nothing wraps (WriteLog, mostly): the    *)
(* error reaches PIALB, which trims the log and asks for a reboot.         *)
OutOfMemory ==
    /\ pc \in {"write", "read", "exec", "finish"} /\ Disturb
    /\ pc' = "oom"
    /\ UNCHANGED <<step, backoff_counter, reboot_required, memory, device, server, history>>

-----------------------------------------------------------------------------
(* How the bridge starts again.                                            *)

(* The boot brings the radio up with what is stored, then the agent starts.*)
Boot(cfg) ==
    /\ AgentStartNext
    /\ flash' = cfg /\ radio' = RadioPart(cfg)
    /\ led' = "red"
    /\ edited' = {} /\ fails' = 0 /\ lastWrite' = "none"
    /\ UNCHANGED server

(* Odoo_Connector returned true, or memory ran out: PIALB returns true and *)
(* the launch block of init.lua reboots.                                   *)
Reboot ==
    /\ pc \in {"elevated", "oom"}
    /\ Boot(flash)
    /\ UNCHANGED disturbances

(* sysupgrade -n ends in a reboot, whether or not it wrote the image and   *)
(* erased the settings.                                                    *)
UpgradeReboots ==
    /\ pc = "upgrade"
    /\ \E cfg \in {Factory, flash} : Boot(cfg)
    /\ UNCHANGED disturbances

(* PIALB returned false and the launch block calls it again: odoo_bridge   *)
(* is loaded anew, the device is as it was.                                *)
Relaunch ==
    /\ pc = "failed"
    /\ AgentStartNext
    /\ fails' = 0
    /\ UNCHANGED <<device, server, disturbances, edited, lastWrite>>

PowerCut ==
    /\ IF pc = "hung" THEN UNCHANGED disturbances ELSE Disturb
    /\ Boot(flash)

-----------------------------------------------------------------------------
(* The environment.                                                        *)

(* The user saves a setting in LuCI, with or without applying it.          *)
UserEdit ==
    /\ Disturb
    /\ \E k \in ConfigKeys, v \in StoredValues :
         /\ (k \in RadioFlagKeys) <=> (v \in BOOLEAN)
         /\ flash' = [flash EXCEPT ![k] = v]
         /\ edited' = edited \cup {k}
    /\ radio' \in {radio, RadioPart(flash')}
    /\ UNCHANGED <<control, memory, led, server, fails, lastWrite>>

ServerEdit ==
    /\ Disturb
    /\ desired' \in Desires
    /\ UNCHANGED <<control, memory, device, up, heard, history>>

Outage ==
    /\ Disturb
    /\ up' = ~up
    /\ UNCHANGED <<control, memory, device, desired, heard, history>>

-----------------------------------------------------------------------------
Execute == \/ ApplySetting \/ NoteRequest \/ ExecuteRemoteTerminal
           \/ LoopEnds \/ UpgradeFails \/ UpgradeReboots \/ Finish

Agent == \/ Odoo_Write \/ Odoo_WriteFails \/ Odoo_WriteRaises
         \/ (\E kind \in ReplyKinds : Odoo_Read(kind))
         \/ Odoo_ReadFails \/ Odoo_ReadRaises
         \/ Execute \/ OutOfMemory \/ Reboot \/ Relaunch

Environment == PowerCut \/ UserEdit \/ ServerEdit \/ Outage

Next == Agent \/ Environment

Spec == Init /\ [][Next]_vars
FairSpec == Spec /\ WF_vars(Agent)

-----------------------------------------------------------------------------
(* Properties.                                                             *)

PCs == {"write", "read", "exec", "upgrade", "finish", "elevated", "oom", "failed", "hung"}

(* Every variable holds a value of its kind; the backoff never passes 37.  *)
TypeOK ==
    /\ pc \in PCs
    /\ step \in Nat
    /\ backoff_counter \in BackoffStart..(BackoffLimit + 1)
    /\ reboot_required \in BOOLEAN
    /\ Prev_Read_Accepted \in BOOLEAN
    /\ Monitor \in Outputs /\ heard \in Outputs
    /\ parsed_values \in Tasks
    /\ need \in [reboot : BOOLEAN, wifi : BOOLEAN, upgrade : BOOLEAN]
    /\ cache \in [ConfigKeys -> StoredValues \cup {Unread}]
    /\ \A k \in RadioFlagKeys : cache[k] \in BOOLEAN \cup {Unread}
    /\ flash \in Settings
    /\ radio \in [RadioKeys -> StoredValues]
    /\ led \in {"red", "green"}
    /\ up \in BOOLEAN
    /\ desired \in Desires
    /\ disturbances \in 0..MaxDisturbances
    /\ edited \subseteq ConfigKeys
    /\ fails \in 0..MaxFails
    /\ lastWrite \in {"none", "ok", "raised", "fail"}

Executing == pc \in {"exec", "upgrade", "finish"}
Untouched == ConfigKeys \ edited

(* Between two executions the radio runs with what is stored: whatever     *)
(* Bridge_Execute committed, it reloaded the radio for it or the device is *)
(* on its way to a restart. (Settings the user edited are his to apply.)   *)
RadioFollowsFlash ==
    pc \in {"write", "read", "failed"} =>
        \A k \in RadioKeys \cap Untouched : radio[k] = flash[k]

(* What the getters report and compare with is what is stored, unless the  *)
(* user edited that setting behind the cursor's back; the VLAN, which is   *)
(* set behind it too, is out of date only until the restart it asks for.   *)
PictureIsTrue ==
    \A k \in Untouched :
        \/ cache[k] \in {Unread, flash[k]}
        \/ k = VlanKey /\ need.reboot /\ pc \notin {"write", "read", "failed"}

(* A reply that was accepted is carried out in full: when the loop over    *)
(* execution_order is over, every setting it names reads back as asked.    *)
ReplyIsCarriedOut ==
    pc \in {"upgrade", "finish"} /\ Prev_Read_Accepted =>
        \A k \in Untouched :
            Settable(k, parsed_values.val[k]) =>
                ReadBack(k, flash[k]) = ReadBack(k, Stored(k, parsed_values.val[k]))

(* A reboot for want of a server comes after MaxFails failures in a row of *)
(* the same request, never earlier: the backoff restarts with each block.  *)
BackoffIsEarned ==
    pc = "elevated" => need.reboot \/ (reboot_required /\ fails = MaxFails)

(* The inductive invariant: what holds in the middle of an execution, and  *)
(* makes the invariants above follow.                                      *)

(* Settings of the loop that are behind `step' read back as asked.         *)
CarriedOut(k) == ReadBack(k, flash[k]) = ReadBack(k, Stored(k, parsed_values.val[k]))

CarriedOutSoFar ==
    /\ pc = "exec" =>
        \A i \in 1..Len(execution_order) :
            LET k == execution_order[i] IN
            i < step /\ k \in Untouched /\ Settable(k, parsed_values.val[k]) => CarriedOut(k)
    /\ ReplyIsCarriedOut

(* The radio lags behind the flash only while a reload is still due.       *)
ReloadIsDue ==
    pc \notin {"elevated", "oom", "hung"} =>
        \A k \in RadioKeys \cap Untouched :
            radio[k] = flash[k] \/ (Executing /\ need.wifi)

(* A cursor lags behind the flash only for the VLAN, once it was visited.  *)
CursorsAreFresh ==
    \A k \in Untouched :
        \/ cache[k] \in {Unread, flash[k]}
        \/ /\ k = VlanKey /\ need.reboot /\ pc \notin {"write", "read", "failed"}
           /\ pc = "exec" => \E i \in 1..Len(execution_order) :
                                 i < step /\ execution_order[i] = VlanKey

(* The backoff counts the failures.                                        *)
BackoffCounts ==
    /\ pc \in {"write", "read"} =>
           backoff_counter = BackoffStart + BackoffStep * fails /\ fails < MaxFails
    /\ Executing => fails = 0
    /\ reboot_required => pc = "elevated" /\ fails = MaxFails
    /\ pc = "elevated" => need.reboot \/ reboot_required

(* From a completed write until the loop comes to x_terminal, the server   *)
(* has the output of the last command; nothing else takes its place.       *)
Heard == Monitor = NoOutput \/ heard = Monitor \/ lastWrite = "raised"
MonitorIsHeard ==
    \/ pc = "read"
    \/ pc = "exec" /\ \A i \in 1..Len(execution_order) :
                         i < step => execution_order[i] # "x_terminal"
    => Heard

IInv == /\ TypeOK /\ CarriedOutSoFar /\ ReloadIsDue /\ CursorsAreFresh /\ BackoffCounts
        /\ MonitorIsHeard

(* The output of a remote command reaches the server before the output of  *)
(* a later one takes its place, unless Odoo_Write raised meanwhile.        *)
OutputHeardBeforeNext ==
    [][Monitor # NoOutput /\ Monitor' \notin {Monitor, NoOutput}
         => heard = Monitor \/ lastWrite = "raised"]_vars

(* The reply asks for something the modem can have and stay in.            *)
Attainable(d) ==
    /\ d.x_reboot = FALSE /\ d.x_upgrade = FALSE
    /\ d.x_terminal \notin HangingCommands
    /\ \A k \in ConfigKeys : /\ Settable(k, d.val[k])
                             /\ ReadBack(k, Stored(k, d.val[k])) = d.val[k]

Agreed ==
    /\ \A k \in Untouched : ReadBack(k, flash[k]) = desired.val[k]
    /\ \A k \in RadioKeys \cap Untouched : radio[k] = flash[k]
    /\ pc \notin {"elevated", "oom", "failed", "hung"} /\ need = NoNeed

(* If the server stays reachable and asks for one attainable state, the    *)
(* modem comes to have it and stays there: no reload and no reboot after.  *)
Settles == <>[](up /\ Attainable(desired)) => <>[]Agreed

(* If the server is never reached again, the agent keeps rebooting the     *)
(* modem: no outage leaves it waiting for ever.                            *)
OutageEndsInReboot == <>[](~up) => []<>(pc \in {"elevated", "hung"})

(* odoo_bridge.lua:291: "Previous read attempt unsuccessful, not changing  *)
(* anything...". A reply with nothing in it changes no setting.            *)
UnsuccessfulReadChangesNothing ==
    [][pc = "exec" /\ parsed_values = NoTask /\ pc' = "exec" => edited' # edited \/ flash' = flash]_vars
=============================================================================
