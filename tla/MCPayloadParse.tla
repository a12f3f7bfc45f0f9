---------------------------- MODULE MCPayloadParse ----------------------------
(***************************************************************************)
(* PayloadParse for TLC: frames of up to four objects and a byte, and      *)
(* tables of that length; three entities for one type, one for another,    *)
(* and a text.                                                             *)
(***************************************************************************)
EXTENDS PayloadParse

CONSTANTS temp, door, text, low, high

Id(n)         == [kind |-> "id", id |-> n, size |-> 2]
Button(e)     == [kind |-> "button", what |-> e, size |-> 2]
Reading(t, v) == [kind |-> "reading", type |-> t, value |-> v, size |-> 2]
Text(v)       == [kind |-> "reading", type |-> text, value |-> v, size |-> 3]
Firmware      == [kind |-> "firmware", value |-> low, size |-> 5]
DeviceType    == [kind |-> "other", size |-> 3]

MCKnown == {Id(0), Id(1), Button("press"), Button("hold"),
            Reading(temp, low), Reading(door, high), Text(low), Firmware, DeviceType}

MCSlots == {[type |-> temp, index |-> n] : n \in 1..3} \cup {[type |-> door, index |-> 1]}
=============================================================================
