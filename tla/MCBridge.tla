------------------------------ MODULE MCBridge ------------------------------
(***************************************************************************)
(* Instances of OdooBridge for TLC: one setting of each kind, the keys in  *)
(* the order of execution_order in odoo_bridge.lua, and a handful of       *)
(* states for the operator to ask for.                                     *)
(***************************************************************************)
EXTENDS OdooBridge

CONSTANTS a, b, ls, cat, ping

MCOrder == <<"x_upgrade", "name", "x_ssid1", "x_enable_ssid1", "x_channel",
             "x_terminal", "x_vlanId", "x_reboot">>

MCTexts == {a, b, AutoText, ZeroText}
MCCursorOf == [k \in {"name", "x_ssid1", "x_enable_ssid1", "x_channel", "x_vlanId"} |->
                 CASE k = "name" -> "name.lua"
                   [] k \in {"x_ssid1", "x_enable_ssid1"} -> "ssid.lua"
                   [] k = "x_channel" -> "wireless.lua"
                   [] OTHER -> "vlan.lua"]
MCCursors == {"name.lua", "ssid.lua", "wireless.lua", "vlan.lua"}

MCFactory == [k \in {"name", "x_ssid1", "x_enable_ssid1", "x_channel", "x_vlanId"} |->
                CASE k = "name" -> Nil
                  [] k = "x_enable_ssid1" -> TRUE
                  [] k = "x_channel" -> ZeroText
                  [] OTHER -> a]

MCField == {MCFactory, [MCFactory EXCEPT !["x_vlanId"] = b, !["x_enable_ssid1"] = FALSE]}

Ask(name, ssid, on, channel, vlan) ==
    [val |-> [k \in {"name", "x_ssid1", "x_enable_ssid1", "x_channel", "x_vlanId"} |->
                CASE k = "name" -> name
                  [] k = "x_ssid1" -> ssid
                  [] k = "x_enable_ssid1" -> on
                  [] k = "x_channel" -> channel
                  [] OTHER -> vlan],
     x_reboot |-> FALSE, x_upgrade |-> FALSE, x_terminal |-> Empty]

Plain == Ask(a, a, TRUE, AutoText, a)
Other == Ask(b, b, FALSE, b, b)

(* Settings, commands, a field nobody filled, an upgrade, a reboot.        *)
MCDesires == { Plain,
               Other,
               [Ask(a, b, TRUE, ZeroText, a) EXCEPT !.x_terminal = ls],
               [Ask(b, a, FALSE, AutoText, a) EXCEPT !.x_terminal = cat],
               [Ask(Empty, Empty, TRUE, b, Empty) EXCEPT !.x_terminal = ping],
               [Other EXCEPT !.x_upgrade = TRUE],
               [Plain EXCEPT !.x_reboot = TRUE] }

(* Only what can hold, for the liveness runs.                              *)
LiveDesires == { Plain, Other, [Ask(a, b, TRUE, b, a) EXCEPT !.x_terminal = ls] }
=============================================================================
