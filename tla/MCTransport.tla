---------------------------- MODULE MCTransport ----------------------------
(* Transport for TLC: headers and tails of two bytes; the CAS may declare  *)
(* a tail of one or of three.                                              *)
EXTENDS Transport
=============================================================================
