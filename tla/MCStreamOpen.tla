---------------------------- MODULE MCStreamOpen ----------------------------
(* StreamOpen for TLC: two channels of one station, each with a cached key. *)
EXTENDS StreamOpen

CONSTANTS front, back, v1
=============================================================================
