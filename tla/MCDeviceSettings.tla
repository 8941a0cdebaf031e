-------------------------- MODULE MCDeviceSettings ---------------------------
(* DeviceSettings for TLC: two service calls that may overlap.             *)
EXTENDS DeviceSettings

CONSTANTS c1, c2
=============================================================================
