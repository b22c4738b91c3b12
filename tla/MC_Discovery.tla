---------------------------- MODULE MC_Discovery ----------------------------
(* Small sets of classes and drivers for checking Discovery with TLC. *)
EXTENDS Discovery, TLC

CONSTANTS sensor, light, zigbeeSensor, zigbeeLight, hue

\* The driver of the Hue bridge discovers the class of a zigbee driver, and recovers nothing.
ThreeDrivers == zigbeeSensor :> {sensor} @@ zigbeeLight :> {light} @@ hue :> {light}
TwoDrivers == zigbeeSensor :> {sensor} @@ zigbeeLight :> {light}
OneClass == zigbeeSensor :> {sensor}
=============================================================================
