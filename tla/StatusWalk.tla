----------------------------- MODULE StatusWalk -----------------------------
(***************************************************************************)
(* The walk that makes the text of the status device (tbdeStatusString,    *)
(* print_tree, printRoom), beside everything RoomDirectory does.  dev_open *)
(* calls it, and nobody on the way takes searchLock.                       *)
(*                                                                         *)
(* Following a node's data pointer and printing the room it points to are  *)
(* two steps.  The order of the nodes does not matter here: a walker may   *)
(* go on with any room that is in the tree when it moves.                  *)
(***************************************************************************)
EXTENDS RoomDirectory

WalkPCs == {"in_tagTree", "in_keyTree"}

\* Fetch the pointer to the next room of a tree.
NextRoom(t, from, to, tree) ==
  /\ Goto(t, from, to)
  /\ \E r \in tree : rm' = [rm EXCEPT ![t] = r]
  /\ UNCHANGED <<live, key, tag, refCount, trees, MAX_ROOM, arg>>

\* tagTree is printed first, then keyTree; either may be empty.
print_tree(t) ==
  \/ NextRoom(t, "idle", "in_tagTree", tagTree)
  \/ NextRoom(t, "in_tagTree", "in_tagTree", tagTree)
  \/ NextRoom(t, "idle", "in_keyTree", keyTree)
  \/ NextRoom(t, "in_tagTree", "in_keyTree", keyTree)
  \/ NextRoom(t, "in_keyTree", "in_keyTree", keyTree)

\* The last room has been printed.
EndOfWalk(t) ==
  /\ \E from \in WalkPCs : Return(t, from)
  /\ UNCHANGED <<live, key, tag, refCount, trees, MAX_ROOM>>

tbdeStatusString(t) == print_tree(t) \/ EndOfWalk(t)

WalkSpec == Init /\ [][Next \/ \E t \in Threads : tbdeStatusString(t)]_vars

-----------------------------------------------------------------------------
\* printRoom reads the room whose pointer the walker has fetched: it must still
\* be in memory, as it would be under the lock the report describes.
StatusReadsLive == \A t \in Threads : pc[t] \in WalkPCs => live[rm[t]]

=============================================================================
