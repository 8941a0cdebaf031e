---------------------------- MODULE MCCallStatus -----------------------------
(* CallStatus for TLC: two stations and one press of a button.             *)
EXTENDS CallStatus

CONSTANTS front, back, p1

Account == <<front, back>>
=============================================================================
