------------------------------ MODULE MCFanOut ------------------------------
(* FanOut for TLC: queues of two items, so that they fill.                 *)
EXTENDS FanOut, TLC

CONSTANTS v1, v2
=============================================================================
