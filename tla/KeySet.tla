------------------------------- MODULE KeySet -------------------------------
(***************************************************************************)
(* What an AVL tree promises the directory: a set of keys.  Each call       *)
(* answers with the key of the node it returns, NULL for no node.          *)
(***************************************************************************)
EXTENDS Integers

CONSTANTS Keys, NULL

VARIABLES keys, answer

Sides == {"left", "right"}

\* a is further to this side than b.
Beyond(side, a, b) == IF side = "left" THEN a < b ELSE b < a

KeyIfIn(k) == IF k \in keys THEN k ELSE NULL

Init == keys = {} /\ answer = <<>>

Insert(k) ==
  /\ answer' = <<"insert", k, NULL, KeyIfIn(k)>>
  /\ keys' = keys \cup {k}

Search(k) ==
  /\ answer' = <<"search", k, NULL, KeyIfIn(k)>>
  /\ UNCHANGED keys

Delete(k) ==
  /\ k \in keys
  /\ answer' = <<"delete", k, NULL, k>>
  /\ keys' = keys \ {k}

\* The outermost key of a side, and the neighbour of a key on a side.
First(side, r) ==
  /\ IF r = NULL THEN keys = {}
     ELSE r \in keys /\ \A j \in keys \ {r} : Beyond(side, r, j)
  /\ answer' = <<"first", NULL, side, r>>
  /\ UNCHANGED keys

Next(k, side, r) ==
  LET there == {j \in keys : Beyond(side, j, k)} IN
  /\ k \in keys
  /\ IF r = NULL THEN there = {}
     ELSE r \in there /\ \A j \in there \ {r} : Beyond(side, j, r)
  /\ answer' = <<"next", k, side, r>>
  /\ UNCHANGED keys

Step ==
  \/ \E k \in Keys : Insert(k) \/ Search(k) \/ Delete(k)
  \/ \E side \in Sides, r \in Keys \cup {NULL} :
       First(side, r) \/ \E k \in Keys : Next(k, side, r)

Spec == Init /\ [][Step]_<<keys, answer>>

=============================================================================
