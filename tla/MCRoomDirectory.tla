-------------------------- MODULE MCRoomDirectory --------------------------
(* RoomDirectory on small instances. *)
EXTENDS RoomDirectory, TLC

CONSTANTS t1, t2, t3, r1, r2, r3, r4, k1, k2

MCThreads2 == {t1, t2}
MCThreads3 == {t1, t2, t3}
MCRooms2 == {r1, r2}
MCRooms3 == {r1, r2, r3}
MCRooms4 == {r1, r2, r3, r4}
MCKeys1 == {k1}
MCKeys2 == {k1, k2}
MCLimits == {1, 2}

Symmetry == Permutations(Threads) \cup Permutations(RoomIds) \cup Permutations(Keys)
=============================================================================
