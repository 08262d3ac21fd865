------------------------------ MODULE TwoImages ------------------------------
(***************************************************************************)
(* What a modem with two images promises, whatever upgrades it: the image  *)
(* that runs stays complete, so the modem can start again. The promise has *)
(* one gap, which the specification names: once an upgrade has moved       *)
(* root_zone and the modem has not been restarted, the image that runs may *)
(* be taken for the spare one.                                             *)
(***************************************************************************)
CONSTANTS
    Zones,    \* the zones of the flash that can hold an image
    None      \* not a zone

VARIABLES
    whole,    \* the zones with a complete image
    runs,     \* the zone the modem runs from, or None
    moved,    \* root_zone was set since the modem started
    overrun   \* the image that ran was written over

vars == <<whole, runs, moved, overrun>>

Init == whole \subseteq Zones /\ whole # {} /\ runs = None /\ moved = FALSE /\ overrun = FALSE

Start ==
    /\ runs = None /\ runs' \in whole /\ moved' = FALSE
    /\ UNCHANGED <<whole, overrun>>

Stop == runs' = None /\ moved' = FALSE /\ UNCHANGED <<whole, overrun>>

Move == runs # None /\ moved' = TRUE /\ UNCHANGED <<whole, runs, overrun>>

Spare(z) == runs # None /\ (z # runs \/ moved)

Break(z) ==
    /\ Spare(z)
    /\ whole' = whole \ {z} /\ overrun' = (overrun \/ z = runs)
    /\ UNCHANGED <<runs, moved>>

Complete(z) ==
    /\ Spare(z)
    /\ whole' = whole \cup {z}
    /\ UNCHANGED <<runs, moved, overrun>>

Next == Start \/ Stop \/ Move \/ \E z \in Zones : Break(z) \/ Complete(z)

Spec == Init /\ [][Next]_vars

-----------------------------------------------------------------------------
(* The modem can be started, and what runs is complete, unless an upgrade  *)
(* ran over the image it ran from.                                         *)
Startable == overrun \/ (whole # {} /\ (runs # None => runs \in whole))
=============================================================================
