---------------------------- MODULE MCSessionFence ----------------------------
(* Two replicas with a socket of session k1 on one of them; one revocation,  *)
(* served by either, of a session or of all.  Session k2 was revoked just    *)
(* before.                                                                   *)
EXTENDS SessionFence

CONSTANTS r1, r2, k1, k2, s1, o1

MCReplicaOf == [s \in Socket |-> r2]
MCSessionOf == [s \in Socket |-> k1]
===============================================================================
