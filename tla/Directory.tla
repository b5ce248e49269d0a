----------------------------- MODULE Directory -----------------------------
(***************************************************************************)
(* What tag_get and tag_ctl(REMOVE) promise, with no memory and no locks:  *)
(* a set of open rooms, each known by its own tag and, unless private, by  *)
(* its own key.  A room is opened and closed in one indivisible step.      *)
(* RoomDirectory is shown to implement it.                                 *)
(***************************************************************************)
CONSTANTS Tags, Keys, Private

VARIABLE open   \* the open rooms, as [tag, key] records

Init == open = {}

Create(g, k) ==
  /\ \A e \in open : e.tag # g /\ (k = Private \/ e.key # k)
  /\ open' = open \cup {[tag |-> g, key |-> k]}

Remove(e) == open' = open \ {e}

Shutdown == open' = {}   \* the module is unloaded

Next ==
  \/ \E g \in Tags, k \in Keys \cup {Private} : Create(g, k)
  \/ \E e \in open : Remove(e)
  \/ Shutdown

Spec == Init /\ [][Next]_open

=============================================================================
