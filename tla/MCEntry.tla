------------------------------ MODULE MCEntry ------------------------------
(* Entry for TLC: an old and a new password, two doors, two calls.         *)
EXTENDS Entry, TLC

CONSTANTS old, new, c1, c2
=============================================================================
