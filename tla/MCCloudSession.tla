--------------------------- MODULE MCCloudSession ---------------------------
(* CloudSession for TLC: two executor threads that share the client.  The  *)
(* threads being alike, every pair of kinds meets but that of two plain    *)
(* calls, which carry no more than the header of an ISAPI request.         *)
EXTENDS CloudSession

CONSTANTS t1, t2

Calls == [t \in {t1, t2} |-> IF t = t1 THEN CallKinds ELSE CallKinds \ {"api"}]
=============================================================================
