-------------------------- MODULE MCChannelStream ---------------------------
(***************************************************************************)
(* Instances of ChannelStream for TLC: a device with one slot for which     *)
(* two channels compete, the first with viewers that share its upstream.   *)
(***************************************************************************)
EXTENDS ChannelStream

CONSTANTS front, back, v1, v2, v3, v4

(* One viewer of the second channel, all others share the first.           *)
Watching == [v \in Viewers |-> IF v = v1 THEN back ELSE front]
=============================================================================
