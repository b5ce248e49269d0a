------------------------------ MODULE AvlTree ------------------------------
(***************************************************************************)
(* The AVL tree that indexes the rooms (src/lib/tbde/avl.c).  A step is    *)
(* one iteration of a loop; callers hold searchLock, so one call runs at a *)
(* time.  The pairs of mirror-image functions of the code are one operator *)
(* here, with a side as parameter.                                         *)
(*                                                                         *)
(* The pointers from above are slots: link[Root] is t->root, and           *)
(* link[<<n, "left">>] and link[<<n, "right">>] are fields of the node n.  *)
(***************************************************************************)
EXTENDS Integers

CONSTANTS Keys, Addresses, NULL

ASSUME TreeAssumption ==
  /\ Keys \subseteq Int
  /\ NULL \notin Keys /\ NULL \notin Addresses

VARIABLES
  nodes,                       \* the addresses of allocated nodes
  link, parent, data, balance, \* their contents; a freed node keeps its own
  pc,                          \* "idle", or the loop that is running
  op, key, side,               \* the call: its name, a key, a side
  node, change, toDelete,      \* locals of the loops; change is "balance"
  answer                       \* the call answered last, and its result

fields == <<link, parent, data, balance>>
call == <<op, key, side>>
vars == <<nodes, fields, pc, call, node, change, toDelete, answer>>

Sides == {"left", "right"}
Root == <<NULL, "root">>
Slots(S) == (S \X Sides) \cup {Root}

Other(s) == IF s = "left" THEN "right" ELSE "left"
Sign(s) == IF s = "left" THEN -1 ELSE 1
Deep(b) == IF b < 0 THEN "left" ELSE "right"
Abs(b) == IF b < 0 THEN -b ELSE b

Child(n, s) == link[<<n, s>>]

\* The field that points to n, as the code finds it.
SlotOf(n) ==
  IF n = link[Root] THEN Root
  ELSE <<parent[n], IF Child(parent[n], "left") = n THEN "left" ELSE "right">>

-----------------------------------------------------------------------------
(* Calls and returns.  op, key and side are kept for the answer. *)

Begin(o, k, s) == pc = "idle" /\ op' = o /\ key' = k /\ side' = s

At(loop, n) == pc' = loop /\ node' = n

Done ==
  /\ At("idle", NULL)
  /\ op' = "none" /\ key' = NULL /\ side' = NULL
  /\ change' = 0 /\ toDelete' = NULL

Return(r) == answer' = <<op, key, side, r>> /\ Done

\* A call that finds the tree empty.
Empty(o, k, s) ==
  /\ pc = "idle" /\ link[Root] = NULL
  /\ answer' = <<o, k, s, NULL>>

Start(o, k, s, n, loop) ==
  /\ Begin(o, k, s) /\ n # NULL /\ At(loop, n)
  /\ UNCHANGED <<nodes, fields, change, toDelete, answer>>

-----------------------------------------------------------------------------
(* Rotations of the node n, whose child on side s is too deep. *)

\* Tree_RotateLeft (side "right") and Tree_RotateRight (side "left").
FaultyRotate(n, s) ==   \* fault: the inner grandchild keeps its parent
  LET c == Child(n, s)
      b == balance[c] - Sign(s)
  IN /\ link' = [link EXCEPT ![SlotOf(n)] = c,
                             ![<<n, s>>] = Child(c, Other(s)),
                             ![<<c, Other(s)>>] = n]
     /\ parent' = [parent EXCEPT ![c] = parent[n], ![n] = c]
     /\ balance' = [balance EXCEPT ![c] = b, ![n] = -b]

Rotate(n, s) ==
  LET c == Child(n, s)
      inner == Child(c, Other(s))
      b == balance[c] - Sign(s)
  IN /\ link' = [link EXCEPT ![SlotOf(n)] = c,
                             ![<<n, s>>] = inner,
                             ![<<c, Other(s)>>] = n]
     /\ parent' = [a \in Addresses |->
          CASE a = c -> parent[n] [] a = n -> c [] a = inner -> n [] OTHER -> parent[a]]
     /\ balance' = [balance EXCEPT ![c] = b, ![n] = -b]

\* Tree_RotateLeftRight (side "left") and Tree_RotateRightLeft (side "right").
DoubleRotate(n, s) ==
  LET c == Child(n, s)
      g == Child(c, Other(s))
      far == Child(g, Other(s))
      near == Child(g, s)
      b == balance[g] * Sign(s)
  IN /\ link' = [link EXCEPT ![SlotOf(n)] = g,
                             ![<<n, s>>] = far,
                             ![<<c, Other(s)>>] = near,
                             ![<<g, s>>] = c,
                             ![<<g, Other(s)>>] = n]
     /\ parent' = [a \in Addresses |->
          CASE a = g -> parent[n] [] a \in {n, c} -> g
            [] a = far -> n [] a = near -> c [] OTHER -> parent[a]]
     /\ balance' = [balance EXCEPT ![n] = IF b > 0 THEN -Sign(s) ELSE 0,
                                   ![c] = IF b < 0 THEN Sign(s) ELSE 0,
                                   ![g] = 0]

-----------------------------------------------------------------------------
(* Tree_SearchNode, Tree_Insert *)

\* The comparison of the caller: the side on which k is, seen from n.
Toward(k, n) == IF k < data[n] THEN "left" ELSE "right"

\* One iteration of either loop, as long as it goes down.
Descend ==
  LET next == Child(node, Toward(key, node)) IN
  /\ pc \in {"search", "insert"}
  /\ data[node] # key /\ next # NULL
  /\ node' = next
  /\ UNCHANGED <<nodes, fields, pc, call, change, toDelete, answer>>

Tree_SearchNode(k) ==
  \/ Empty("search", k, NULL) /\ UNCHANGED <<nodes, fields, pc, call, node, change, toDelete>>
  \/ Start("search", k, NULL, link[Root], "search")

Found ==
  /\ pc \in {"search", "insert"} /\ data[node] = key
  /\ Return(key)
  /\ UNCHANGED <<nodes, fields>>

NotFound ==
  /\ pc = "search" /\ data[node] # key /\ Child(node, Toward(key, node)) = NULL
  /\ Return(NULL)
  /\ UNCHANGED <<nodes, fields>>

Node_New(a, k, slot) ==
  /\ a \in Addresses \ nodes
  /\ nodes' = nodes \cup {a}
  /\ link' = [link EXCEPT ![<<a, "left">>] = NULL, ![<<a, "right">>] = NULL, ![slot] = a]
  /\ parent' = [parent EXCEPT ![a] = slot[1]]
  /\ data' = [data EXCEPT ![a] = k]
  /\ balance' = [balance EXCEPT ![a] = 0]

Tree_Insert(k) ==
  \/ /\ Empty("insert", k, NULL)
     /\ \E a \in Addresses : Node_New(a, k, Root)
     /\ UNCHANGED <<pc, call, node, change, toDelete>>
  \/ Start("insert", k, NULL, link[Root], "insert")

\* The loop of Tree_Insert has come to a missing child.
InsertLeaf ==
  LET s == Toward(key, node) IN
  /\ pc = "insert" /\ data[node] # key /\ Child(node, s) = NULL
  /\ \E a \in Addresses : Node_New(a, key, <<node, s>>)
  /\ pc' = "insert_balance" /\ change' = Sign(s)
  /\ answer' = <<op, key, side, NULL>>
  /\ UNCHANGED <<call, node, toDelete>>

FaultyUp(n, g, loop, end) ==   \* fault: stays at the node
  IF parent[n] = NULL THEN end
  ELSE /\ At(loop, n) /\ change' = g * Sign(SlotOf(n)[2])
       /\ UNCHANGED <<call, toDelete>>

\* A loop goes on to the parent of n, or ends at the root.
Up(n, g, loop, end) ==
  IF parent[n] = NULL THEN end
  ELSE /\ At(loop, parent[n]) /\ change' = g * Sign(SlotOf(n)[2])
       /\ UNCHANGED <<call, toDelete>>

FaultyInsertBalance ==   \* fault: no double rotation
  LET b == balance[node] + change
      s == Deep(b)
  IN /\ pc = "insert_balance"
     /\ \/ /\ Abs(b) < 2
           /\ balance' = [balance EXCEPT ![node] = b]
           /\ IF b = 0 THEN Done ELSE Up(node, 1, pc, Done)
           /\ UNCHANGED <<link, parent>>
        \/ Abs(b) = 2 /\ Rotate(node, s) /\ Done
     /\ UNCHANGED <<nodes, data, answer>>

\* One iteration; it is over when a subtree has its old height again.
Tree_InsertBalance ==
  LET b == balance[node] + change
      s == Deep(b)
  IN /\ pc = "insert_balance"
     /\ \/ /\ Abs(b) < 2
           /\ balance' = [balance EXCEPT ![node] = b]
           /\ IF b = 0 THEN Done ELSE Up(node, 1, pc, Done)
           /\ UNCHANGED <<link, parent>>
        \/ /\ Abs(b) = 2
           /\ IF balance[Child(node, s)] = Sign(s) THEN Rotate(node, s) ELSE DoubleRotate(node, s)
           /\ Done
     /\ UNCHANGED <<nodes, data, answer>>

-----------------------------------------------------------------------------
(* Tree_DeleteNode *)

Free == At("free", NULL) /\ change' = 0 /\ UNCHANGED <<call, toDelete>>

FaultyDeleteBalance ==   \* fault: stops after any rotation
  LET b == balance[node] + change
      s == Deep(b)
      c == Child(node, s)
  IN /\ pc = "delete_balance"
     /\ \/ /\ Abs(b) < 2
           /\ balance' = [balance EXCEPT ![node] = b]
           /\ IF b # 0 THEN Free ELSE Up(node, -1, pc, Free)
           /\ UNCHANGED <<link, parent>>
        \/ /\ Abs(b) = 2
           /\ IF balance[c] * Sign(s) >= 0 THEN Rotate(node, s) ELSE DoubleRotate(node, s)
           /\ Free
     /\ UNCHANGED <<nodes, data, answer>>

\* One iteration; a subtree that got lower is passed on to its parent.  After
\* a rotation the new top is in the slot of the node.
Tree_DeleteBalance ==
  LET b == balance[node] + change
      s == Deep(b)
      c == Child(node, s)
  IN /\ pc = "delete_balance"
     /\ \/ /\ Abs(b) < 2
           /\ balance' = [balance EXCEPT ![node] = b]
           /\ IF b # 0 THEN Free ELSE Up(node, -1, pc, Free)
           /\ UNCHANGED <<link, parent>>
        \/ /\ Abs(b) = 2 /\ balance[c] * Sign(s) >= 0
           /\ Rotate(node, s)
           /\ IF balance[c] = 0 THEN Free ELSE Up(node, -1, pc, Free)
        \/ /\ Abs(b) = 2 /\ balance[c] * Sign(s) < 0
           /\ DoubleRotate(node, s)
           /\ Up(node, -1, pc, Free)
     /\ UNCHANGED <<nodes, data, answer>>

BeginDelete(n) == n \in nodes /\ Begin("delete", data[n], NULL)

FaultyDeleteLeaf(n) ==   \* fault: the change has the wrong sign
  /\ BeginDelete(n) /\ toDelete' = n
  /\ Child(n, "left") = NULL /\ Child(n, "right") = NULL
  /\ link' = [link EXCEPT ![SlotOf(n)] = NULL]
  /\ IF parent[n] = NULL THEN At("free", NULL) /\ change' = 0
     ELSE At("delete_balance", parent[n]) /\ change' = Sign(SlotOf(n)[2])
  /\ UNCHANGED <<nodes, parent, data, balance, answer>>

DeleteLeaf(n) ==
  /\ BeginDelete(n) /\ toDelete' = n
  /\ Child(n, "left") = NULL /\ Child(n, "right") = NULL
  /\ link' = [link EXCEPT ![SlotOf(n)] = NULL]
  /\ IF parent[n] = NULL THEN At("free", NULL) /\ change' = 0
     ELSE At("delete_balance", parent[n]) /\ change' = -Sign(SlotOf(n)[2])
  /\ UNCHANGED <<nodes, parent, data, balance, answer>>

FaultyReplace(n, source) ==   \* fault: the data stay where they are
  /\ link' = [x \in DOMAIN link |->
       CASE x[1] = n -> Child(source, x[2]) [] x[1] = source -> Child(n, x[2]) [] OTHER -> link[x]]
  /\ parent' = [a \in Addresses |->
       CASE a \in {Child(n, s) : s \in Sides} -> source
         [] a \in {Child(source, s) : s \in Sides} -> n [] OTHER -> parent[a]]
  /\ balance' = [balance EXCEPT ![n] = balance[source], ![source] = balance[n]]
  /\ UNCHANGED data

\* A node and its child swap their contents, but for the parents; what hung
\* under one of them hangs under the other.
Tree_Replace(n, source) ==
  /\ link' = [x \in DOMAIN link |->
       CASE x[1] = n -> Child(source, x[2]) [] x[1] = source -> Child(n, x[2]) [] OTHER -> link[x]]
  /\ parent' = [a \in Addresses |->
       CASE a \in {Child(n, s) : s \in Sides} -> source
         [] a \in {Child(source, s) : s \in Sides} -> n [] OTHER -> parent[a]]
  /\ data' = [data EXCEPT ![n] = data[source], ![source] = data[n]]
  /\ balance' = [balance EXCEPT ![n] = balance[source], ![source] = balance[n]]

\* The only child's contents move up, and the child goes.
DeleteReplaced(n) ==
  LET only == IF Child(n, "left") = NULL THEN Child(n, "right") ELSE Child(n, "left") IN
  /\ BeginDelete(n) /\ toDelete' = only
  /\ (Child(n, "left") = NULL) # (Child(n, "right") = NULL)
  /\ Tree_Replace(n, only)
  /\ At("delete_balance", n) /\ change' = 0
  /\ UNCHANGED <<nodes, answer>>

\* The right child, which has no left child, takes the place of n.
MoveUpRight(n) ==
  LET left == Child(n, "left")
      s == Child(n, "right")
  IN /\ BeginDelete(n) /\ toDelete' = n
     /\ left # NULL /\ s # NULL /\ Child(s, "left") = NULL
     /\ link' = [link EXCEPT ![SlotOf(n)] = s, ![<<s, "left">>] = left]
     /\ parent' = [parent EXCEPT ![s] = parent[n], ![left] = s]
     /\ balance' = [balance EXCEPT ![s] = balance[n]]
     /\ At("delete_balance", s) /\ change' = -1
     /\ UNCHANGED <<nodes, data, answer>>

\* Otherwise the leftmost node under the right child does; it is looked for.
SeekSuccessor(n) ==
  /\ BeginDelete(n) /\ toDelete' = n
  /\ Child(n, "left") # NULL /\ Child(n, "right") # NULL
  /\ Child(Child(n, "right"), "left") # NULL
  /\ At("successor", Child(n, "right"))
  /\ UNCHANGED <<nodes, fields, change, answer>>

GoLeft ==
  /\ pc = "successor" /\ Child(node, "left") # NULL
  /\ node' = Child(node, "left")
  /\ UNCHANGED <<nodes, fields, pc, call, change, toDelete, answer>>

MoveUpSuccessor ==
  LET n == toDelete
      s == node
      under == Child(s, "right")
      left == Child(n, "left")
      right == Child(n, "right")
  IN /\ pc = "successor" /\ Child(s, "left") = NULL
     /\ link' = [link EXCEPT ![SlotOf(s)] = under, ![SlotOf(n)] = s,
                             ![<<s, "left">>] = left, ![<<s, "right">>] = right]
     /\ parent' = [a \in Addresses |->
          CASE a = s -> parent[n] [] a \in {left, right} -> s
            [] a = under -> parent[s] [] OTHER -> parent[a]]
     /\ balance' = [balance EXCEPT ![s] = balance[n]]
     /\ At("delete_balance", parent[s]) /\ change' = 1
     /\ UNCHANGED <<nodes, data, call, toDelete, answer>>

Node_free ==
  /\ pc = "free"
  /\ nodes' = nodes \ {toDelete}
  /\ Return(data[toDelete])
  /\ UNCHANGED fields

Tree_DeleteNode(n) ==
  DeleteLeaf(n) \/ DeleteReplaced(n) \/ MoveUpRight(n) \/ SeekSuccessor(n)

-----------------------------------------------------------------------------
(* Tree_FirstNode and Tree_LastNode, Tree_NextNode and Tree_PrevNode *)

Outermost(s) ==
  \/ Empty("first", NULL, s) /\ UNCHANGED <<nodes, fields, pc, call, node, change, toDelete>>
  \/ Start("first", NULL, s, link[Root], "down")

Neighbour(n, s) ==
  /\ n \in nodes
  /\ \/ Start("next", data[n], s, Child(n, s), "down")
     \/ Child(n, s) = NULL /\ Start("next", data[n], s, n, "climb")

\* To the outermost node below on a side.
Down ==
  LET s == IF op = "first" THEN side ELSE Other(side)
      next == Child(node, s)
  IN /\ pc = "down"
     /\ IF next = NULL THEN Return(data[node])
        ELSE node' = next /\ UNCHANGED <<pc, call, change, toDelete, answer>>
     /\ UNCHANGED <<nodes, fields>>

\* To the first ancestor that has the node on its other side.
Climb ==
  LET p == parent[node] IN
  /\ pc = "climb"
  /\ IF p # NULL /\ Child(p, side) = node
     THEN node' = p /\ UNCHANGED <<pc, call, change, toDelete, answer>>
     ELSE Return(IF p = NULL THEN NULL ELSE data[p])
  /\ UNCHANGED <<nodes, fields>>

-----------------------------------------------------------------------------
Init ==
  /\ nodes = {}
  /\ link \in [Slots(Addresses) -> {NULL}]
  /\ parent \in [Addresses -> {NULL}]
  /\ data \in [Addresses -> {NULL}]
  /\ balance \in [Addresses -> {0}]
  /\ pc = "idle" /\ op = "none" /\ key = NULL /\ side = NULL
  /\ node = NULL /\ change = 0 /\ toDelete = NULL /\ answer = <<>>

Step ==
  \/ Descend \/ Found \/ NotFound \/ InsertLeaf \/ Tree_InsertBalance
  \/ GoLeft \/ MoveUpSuccessor \/ Tree_DeleteBalance \/ Node_free
  \/ Down \/ Climb

Next ==
  \/ \E k \in Keys : Tree_SearchNode(k) \/ Tree_Insert(k)
  \/ \E n \in Addresses : Tree_DeleteNode(n)
  \/ \E s \in Sides : Outermost(s) \/ \E n \in Addresses : Neighbour(n, s)
  \/ Step

Spec == Init /\ [][Next]_vars

-----------------------------------------------------------------------------
(* Properties.  A node that is about to be freed is out of the tree. *)

Linked == IF pc \in {"delete_balance", "free"} THEN nodes \ {toDelete} ELSE nodes

KeysAt(f, n) == IF n = NULL THEN {} ELSE f[n]
HeightAt(f, n) == IF n = NULL THEN 0 ELSE f[n]
Larger(a, b) == IF a < b THEN b ELSE a

\* The keys below a node, its own included.
below[n \in Linked] ==
  {data[n]} \cup KeysAt(below, Child(n, "left")) \cup KeysAt(below, Child(n, "right"))

\* The node at which a rebalancing loop stands has a height that the nodes
\* above it do not know yet: what they know is higher by this much.
Slack(n) ==
  CASE n = node /\ pc = "insert_balance" /\ balance[n] + change # 0 -> -1
    [] n = node /\ pc = "delete_balance" /\ balance[n] + change = 0 -> 1
    [] OTHER -> 0

\* The height of a node, as the nodes above it know it.
height[n \in Linked] ==
  1 + Slack(n) + Larger(HeightAt(height, Child(n, "left")), HeightAt(height, Child(n, "right")))

Stored == {data[n] : n \in Linked}

TypeOK ==
  /\ nodes \subseteq Addresses
  /\ link \in [Slots(Addresses) -> Addresses \cup {NULL}]
  /\ parent \in [Addresses -> Addresses \cup {NULL}]
  /\ data \in [Addresses -> Keys \cup {NULL}]
  /\ balance \in [Addresses -> -1 .. 1]
  /\ pc \in {"idle", "search", "insert", "insert_balance", "successor",
             "delete_balance", "free", "down", "climb"}
  /\ op \in {"none", "search", "insert", "delete", "first", "next"}
  /\ key \in Keys \cup {NULL} /\ side \in Sides \cup {NULL}
  /\ node \in Addresses \cup {NULL} /\ change \in -1 .. 1
  /\ toDelete \in Addresses \cup {NULL}

\* Every node of the tree is in exactly one slot, the one its parent field
\* leads to, and no slot leads out of the tree.
WellLinked ==
  LET slots == Slots(Linked) IN
  /\ \A x \in slots : link[x] # NULL => link[x] \in Linked /\ parent[link[x]] = x[1]
  /\ \A n \in Linked : \E x \in slots : link[x] = n
  /\ \A x, y \in slots : link[x] = link[y] /\ link[x] # NULL => x = y

\* f gives the keys below each node: smaller ones on its left, larger ones on
\* its right, each in one node, and all of them below the root.
Ordered(f) ==
  /\ f = [n \in Linked |->
            {data[n]} \cup KeysAt(f, Child(n, "left")) \cup KeysAt(f, Child(n, "right"))]
  /\ \A n \in Linked :
       /\ \A j \in KeysAt(f, Child(n, "left")) : j < data[n]
       /\ \A j \in KeysAt(f, Child(n, "right")) : data[n] < j
  /\ \A m, n \in nodes : data[m] = data[n] => m = n
  /\ {data[n] : n \in nodes} \subseteq Keys
  /\ KeysAt(f, link[Root]) = Stored

\* f gives the heights as the nodes above know them, and balances tell their
\* differences, but for the change the loop has in hand.
Levelled(f) ==
  /\ f = [n \in Linked |->
            1 + Slack(n) + Larger(HeightAt(f, Child(n, "left")), HeightAt(f, Child(n, "right")))]
  /\ f \in [Linked -> Nat]
  /\ \A n \in Linked :
       HeightAt(f, Child(n, "right")) - HeightAt(f, Child(n, "left")) =
         balance[n] + IF n = node THEN change ELSE 0

Beyond(s, a, b) == IF s = "left" THEN a < b ELSE b < a

\* What each loop knows of the place it has come to.
InIdle == op = "none" /\ key = NULL /\ side = NULL /\ node = NULL /\ change = 0 /\ toDelete = NULL

InDescent(f) ==
  /\ op = pc /\ key \in Keys /\ side = NULL /\ node \in Linked /\ change = 0
  /\ key \in Stored => key \in f[node]
  /\ \A n \in Linked \ {node} : data[node] \in f[n] =>
       key # data[n] /\ (key < data[n] <=> data[node] < data[n])

InInsertBalance(h) ==
  /\ op = "insert" /\ node \in Linked /\ change # 0
  /\ LET c == Child(node, Deep(change)) IN
     c # NULL /\ (balance[c] = 0 => h[c] = 1)

InDelete ==
  /\ op = "delete" /\ side = NULL
  /\ toDelete \in nodes /\ data[toDelete] = key

InDeleteBalance ==
  /\ InDelete /\ node \in Linked
  /\ change = 0 => balance[node] = 0

InSuccessor(f) ==
  LET right == Child(toDelete, "right") IN
  /\ InDelete /\ Child(toDelete, "left") # NULL /\ right # NULL /\ change = 0
  /\ node \in Linked /\ f[node] \subseteq f[right]
  /\ node = right => Child(node, "left") # NULL
  /\ \A j \in f[right] \ f[node], i \in f[node] : i < j

InDown(f) ==
  LET s == IF op = "first" THEN side ELSE Other(side) IN
  /\ op \in {"first", "next"} /\ side \in Sides /\ node \in Linked /\ change = 0
  /\ op = "first" => key = NULL
  /\ op = "next" => key \in Stored /\ \A i \in f[node] : Beyond(side, i, key)
  /\ \A j \in Stored \ f[node], i \in f[node] :
       op = "first" \/ Beyond(side, j, key) => Beyond(s, i, j)

InClimb(f) ==
  /\ op = "next" /\ side \in Sides /\ node \in Linked /\ change = 0
  /\ key \in f[node] /\ \A j \in f[node] : ~Beyond(side, j, key)

InLoop(f, h) ==
  CASE pc = "idle" -> InIdle
    [] pc \in {"search", "insert"} -> InDescent(f)
    [] pc = "insert_balance" -> InInsertBalance(h)
    [] pc = "successor" -> InSuccessor(f)
    [] pc = "delete_balance" -> InDeleteBalance
    [] pc = "free" -> InDelete /\ node = NULL /\ change = 0
    [] pc = "down" -> InDown(f)
    [] pc = "climb" -> InClimb(f)

IInv == TypeOK /\ WellLinked /\ Ordered(below) /\ Levelled(height) /\ InLoop(below, height)

\* Between calls every balance is the difference of the heights of the
\* subtrees, never more than one: a look-up under searchLock is logarithmic.
Balanced ==
  pc = "idle" => \A n \in nodes :
    /\ balance[n] = HeightAt(height, Child(n, "right")) - HeightAt(height, Child(n, "left"))
    /\ balance[n] \in -1 .. 1

\* Call for call, the tree answers and changes as a set of keys does: however
\* contents and links are moved about, no other key comes or goes, a look-up
\* finds what is stored, and a walk leads to the next key.
Abstract == INSTANCE KeySet WITH keys <- {data[n] : n \in nodes}

ImplementsSet == Abstract!Spec

\* An iteration of a loop leaves fewer keys below the node where it stands, or
\* more if it climbs: no call goes on for ever while it holds searchLock.
Advances ==
  pc' = pc /\ pc # "idle" =>
    LET before == below[node]
        after == below'[node']
    IN before # after /\ IF pc \in {"search", "insert", "successor", "down"}
                         THEN after \subseteq before ELSE before \subseteq after

LoopsAdvance == [][Advances]_vars

\* Two states with the same keys in the same places are the same wherever the
\* allocator put the nodes: addresses are only ever compared, and nothing
\* depends on the last answer.
Shape ==
  LET Key(n) == IF n = NULL THEN NULL ELSE data[n] IN
  <<{<<data[n], Key(parent[n]), Key(Child(n, "left")), Key(Child(n, "right")), balance[n]>> : n \in nodes},
    Key(link[Root]), pc, call, Key(node), change, Key(toDelete)>>

=============================================================================
