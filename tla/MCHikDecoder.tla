---------------------------- MODULE MCHikDecoder -----------------------------
(* HikDecoder for TLC: four bytes, every stream of up to eight of them.    *)
EXTENDS HikDecoder
=============================================================================
