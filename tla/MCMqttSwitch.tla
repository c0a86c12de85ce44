--------------------------- MODULE MCMqttSwitch ---------------------------
(***************************************************************************)
(* Instances of MqttSwitch for TLC.                                        *)
(***************************************************************************)
EXTENDS MqttSwitch

CONSTANTS p0, p1
MCProfile == {p0, p1}

===========================================================================
