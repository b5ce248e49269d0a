----------------------------- MODULE MCChatRoom -----------------------------
(* ChatRoom on small instances. *)
EXTENDS ChatRoom, TLC

CONSTANTS t1, t2, t3, m1, m2, x1, x2, x3, x4, x5

MCThreads2 == {t1, t2}
MCThreads3 == {t1, t2, t3}
MCMsgs1 == {m1}
MCMsgs2 == {m1, m2}

\* One address per level and one per thread: an exchange out of the room that
\* nobody holds has been freed, or it leaks.
MCExIds3 == {x1, x2, x3}
MCExIds4 == {x1, x2, x3, x4}
MCExIds5 == {x1, x2, x3, x4, x5}

Symmetry == Permutations(Threads) \cup Permutations(ExIds)
=============================================================================
