---------------------------- MODULE MCStatusWalk ----------------------------
(* StatusWalk on a small instance. *)
EXTENDS StatusWalk

CONSTANTS t1, t2, r1, r2, k1

MCThreads == {t1, t2}
MCRooms == {r1, r2}
MCKeys == {k1}
MCLimits == {2}
=============================================================================
