--------------------------- MODULE AvlTreeProofs ---------------------------
(***************************************************************************)
(* Proofs about AvlTree: its inductive invariant and what follows from it, *)
(* for trees of any size.  K stands for the keys below each node, h for    *)
(* the heights; a step of the proof says what the two become, and          *)
(* Canonical that no other functions would do.                             *)
(***************************************************************************)
EXTENDS AvlTree, NaturalLemmas, TLAPS

-----------------------------------------------------------------------------
(* Trees as they are between two iterations. *)

\* The two sides, and the sign of a balance that leans to each.
LEMMA SidesFacts ==
  ASSUME NEW s \in Sides
  PROVE  /\ Other(s) \in Sides /\ Other(s) # s /\ Other(Other(s)) = s
         /\ s = "left" \/ s = "right"
         /\ Sign(s) \in {-1, 1} /\ Sign(Other(s)) = -Sign(s)
BY DEF Sides, Other, Sign

\* Beyond is a strict order, reversed for the other side.
LEMMA BeyondFacts ==
  ASSUME NEW s \in Sides, NEW a \in Int, NEW b \in Int
  PROVE  /\ Beyond(Other(s), a, b) <=> Beyond(s, b, a)
         /\ ~Beyond(s, a, a) /\ ~(Beyond(s, a, b) /\ Beyond(s, b, a))
         /\ a # b => Beyond(s, a, b) \/ Beyond(s, b, a)
<1>1. CASE s = "left"
  BY <1>1 DEF Beyond, Other
<1>2. CASE s = "right"
  BY <1>2 DEF Beyond, Other
<1> QED
  BY <1>1, <1>2 DEF Sides

\* Among nodes with numbers, one has the least.
LEMMA LeastNode ==
  ASSUME NEW S, NEW m \in [S -> Nat], NEW C \in SUBSET S, C # {}
  PROVE  \E n \in C : \A x \in C : m[n] <= m[x]
<1> DEFINE values == {m[n] : n \in C}
<1>1. values \in SUBSET Nat /\ values # {}
  OBVIOUS
<1>2. PICK b \in values : \A y \in values : b <= y
  <2> HIDE DEF values
  <2> QED
    BY <1>1, LeastNatural
<1>3. PICK n \in C : b = m[n]
  OBVIOUS
<1>4. \A x \in C : m[x] \in values
  OBVIOUS
<1> QED
  BY <1>2, <1>3, <1>4

\* What is above knows the height of a node, but for the one being rebalanced.
LEMMA SlackFacts ==
  ASSUME NEW n
  PROVE  /\ Slack(n) \in {-1, 0, 1}
         /\ n # node \/ pc \notin {"insert_balance", "delete_balance"} => Slack(n) = 0
BY DEF Slack

\* Nodes of the tree are allocated, and their keys are numbers.
LEMMA LinkedFacts ==
  ASSUME TypeOK, NEW K, Ordered(K)
  PROVE  /\ Linked \subseteq nodes /\ Linked \subseteq Addresses /\ NULL \notin Linked
         /\ \A n \in nodes : data[n] \in Keys /\ data[n] \in Int
BY TreeAssumption DEF Linked, TypeOK, Ordered

\* A child is in the tree, and its parent field leads back.
LEMMA ChildIn ==
  ASSUME WellLinked, NEW n \in Linked, NEW s \in Sides, Child(n, s) # NULL
  PROVE  Child(n, s) \in Linked /\ parent[Child(n, s)] = n
<1>1. <<n, s>> \in Slots(Linked)
  BY DEF Slots
<1> QED
  BY <1>1 DEF WellLinked, Child

\* A number for each node, smaller for its children.  Heights will not do at
\* the node where an insertion is being balanced.
LEMMA Measure ==
  ASSUME TypeOK, WellLinked, NEW K, Ordered(K), NEW h, Levelled(h)
  PROVE  \E m \in [Linked -> Nat] : \A n \in Linked, s \in Sides :
           Child(n, s) # NULL => m[Child(n, s)] < m[n]
<1> DEFINE m == [n \in Linked |-> 2 * h[n] + IF n = node THEN 1 ELSE 0]
<1>1. h \in [Linked -> Nat]
  BY DEF Levelled
<1>2. m \in [Linked -> Nat]
  BY <1>1
<1>3. ASSUME NEW n \in Linked, NEW s \in Sides, Child(n, s) # NULL
      PROVE  m[Child(n, s)] < m[n]
  <2> DEFINE c == Child(n, s)
             l == HeightAt(h, Child(n, "left"))
             r == HeightAt(h, Child(n, "right"))
  <2>1. c \in Linked /\ parent[c] = n
    BY <1>3, ChildIn
  <2>2. h[n] = 1 + Slack(n) + Larger(l, r)
    BY DEF Levelled
  <2>3. l \in Nat /\ r \in Nat
    BY <1>1, ChildIn DEF HeightAt, Sides
  <2>4. h[c] = l \/ h[c] = r
    BY <1>3 DEF HeightAt, Sides
  <2>5. h[c] <= Larger(l, r) /\ Larger(l, r) \in Nat
    BY <2>3, <2>4 DEF Larger
  <2>6. Slack(n) \in {-1, 0, 1} /\ (n # node => Slack(n) = 0)
    BY SlackFacts
  <2>7. h[c] \in Nat /\ h[n] \in Nat
    BY <1>1, <2>1
  <2>8. m[c] = 2 * h[c] + (IF c = node THEN 1 ELSE 0) /\ m[n] = 2 * h[n] + (IF n = node THEN 1 ELSE 0)
    BY <2>1
  <2> HIDE DEF m, c, l, r
  <2>9. CASE n # node
    <3>1. h[n] >= 1 + h[c]
      BY <2>9, <2>2, <2>5, <2>6, <2>7
    <3> QED
      BY <3>1, <2>8, <2>9, <2>7 DEF c
  <2>10. CASE n = node /\ c # node
    <3>1. h[n] >= h[c]
      BY <2>2, <2>5, <2>6, <2>7
    <3> QED
      BY <3>1, <2>8, <2>10, <2>7 DEF c
  <2>11. c # n
    <3>1. data[n] \in K[n] /\ data[n] \in Int
      BY LinkedFacts DEF Ordered
    <3>2. \A j \in KeysAt(K, c) : j < data[n] \/ data[n] < j
      BY DEF Ordered, Sides, c
    <3> QED
      BY <3>1, <3>2, <1>3 DEF KeysAt, c
  <2> QED
    BY <2>9, <2>10, <2>11
<1> HIDE DEF m
<1> QED
  BY <1>2, <1>3

\* Only one function can be the keys below each node: where two differ
\* lowest, their values at the children agree.
LEMMA SameKeys ==
  ASSUME WellLinked, NEW f, NEW g,
         f = [n \in Linked |->
                {data[n]} \cup KeysAt(f, Child(n, "left")) \cup KeysAt(f, Child(n, "right"))],
         g = [n \in Linked |->
                {data[n]} \cup KeysAt(g, Child(n, "left")) \cup KeysAt(g, Child(n, "right"))],
         NEW m \in [Linked -> Nat],
         \A n \in Linked, s \in Sides : Child(n, s) # NULL => m[Child(n, s)] < m[n]
  PROVE  f = g
<1> DEFINE C == {x \in Linked : f[x] # g[x]}
<1>1. ASSUME C # {} PROVE FALSE
  <2>1. PICK n \in C : \A x \in C : m[n] <= m[x]
    BY <1>1, LeastNode
  <2>2. n \in Linked /\ f[n] # g[n] /\ \A x \in Linked : m[x] < m[n] => f[x] = g[x]
    BY <2>1
  <2>3. ASSUME NEW s \in Sides
        PROVE  KeysAt(f, Child(n, s)) = KeysAt(g, Child(n, s))
    <3>1. Child(n, s) # NULL => Child(n, s) \in Linked /\ m[Child(n, s)] < m[n]
      BY <2>2, ChildIn
    <3> QED
      BY <3>1, <2>2 DEF KeysAt
  <2> QED
    BY <2>2, <2>3 DEF Sides
<1>2. \A n \in Linked : f[n] = g[n]
  BY <1>1
<1> QED
  BY <1>2

\* Likewise for the heights.
LEMMA SameHeights ==
  ASSUME WellLinked, NEW f, NEW g,
         f = [n \in Linked |-> 1 + Slack(n)
                + Larger(HeightAt(f, Child(n, "left")), HeightAt(f, Child(n, "right")))],
         g = [n \in Linked |-> 1 + Slack(n)
                + Larger(HeightAt(g, Child(n, "left")), HeightAt(g, Child(n, "right")))],
         NEW m \in [Linked -> Nat],
         \A n \in Linked, s \in Sides : Child(n, s) # NULL => m[Child(n, s)] < m[n]
  PROVE  f = g
<1> DEFINE C == {x \in Linked : f[x] # g[x]}
<1>1. ASSUME C # {} PROVE FALSE
  <2>1. PICK n \in C : \A x \in C : m[n] <= m[x]
    BY <1>1, LeastNode
  <2>2. n \in Linked /\ f[n] # g[n] /\ \A x \in Linked : m[x] < m[n] => f[x] = g[x]
    BY <2>1
  <2>3. ASSUME NEW s \in Sides
        PROVE  HeightAt(f, Child(n, s)) = HeightAt(g, Child(n, s))
    <3>1. Child(n, s) # NULL => Child(n, s) \in Linked /\ m[Child(n, s)] < m[n]
      BY <2>2, ChildIn
    <3> QED
      BY <3>1, <2>2 DEF HeightAt
  <2> QED
    BY <2>2, <2>3 DEF Sides
<1>2. \A n \in Linked : f[n] = g[n]
  BY <1>1
<1> QED
  BY <1>2

TheOnly == \A f, g : TypeOK /\ WellLinked /\ Ordered(f) /\ Levelled(g) => below = f /\ height = g

\* So the functions below and height of AvlTree are any that fit.
LEMMA Canonical == TheOnly
<1> SUFFICES ASSUME NEW f, NEW g, TypeOK, WellLinked, Ordered(f), Levelled(g)
             PROVE  below = f /\ height = g
  BY DEF TheOnly
<1>1. PICK m \in [Linked -> Nat] : \A n \in Linked, s \in Sides :
             Child(n, s) # NULL => m[Child(n, s)] < m[n]
  BY Measure
<1>2. f = [n \in Linked |->
             {data[n]} \cup KeysAt(f, Child(n, "left")) \cup KeysAt(f, Child(n, "right"))]
  BY DEF Ordered
<1>3. below = [n \in Linked |->
             {data[n]} \cup KeysAt(below, Child(n, "left")) \cup KeysAt(below, Child(n, "right"))]
  BY <1>2 DEF below
<1>4. g = [n \in Linked |-> 1 + Slack(n)
                + Larger(HeightAt(g, Child(n, "left")), HeightAt(g, Child(n, "right")))]
  BY DEF Levelled
<1>5. height = [n \in Linked |-> 1 + Slack(n)
                + Larger(HeightAt(height, Child(n, "left")), HeightAt(height, Child(n, "right")))]
  BY <1>4 DEF height
<1>6. below = f
  BY <1>1, <1>2, <1>3, SameKeys
<1>7. height = g
  BY <1>1, <1>4, <1>5, SameHeights
<1> QED
  BY <1>6, <1>7

\* The same after a step.
LEMMA CanonicalNext == TheOnly'
BY Canonical, PTL

-----------------------------------------------------------------------------
(* The keys below a node. *)

Tree(K, h) == TypeOK /\ WellLinked /\ Ordered(K) /\ Levelled(h)

\* A node's keys are its own and those below its two children, apart.
LEMMA KeysFacts ==
  ASSUME TypeOK, WellLinked, NEW K, Ordered(K), NEW n \in Linked
  PROVE  /\ data[n] \in K[n]
         /\ \A s \in Sides : K[n] = {data[n]} \cup KeysAt(K, Child(n, s)) \cup KeysAt(K, Child(n, Other(s)))
         /\ \A s \in Sides : KeysAt(K, Child(n, s)) \subseteq K[n] /\ data[n] \notin KeysAt(K, Child(n, s))
         /\ \A s \in Sides : \A j \in KeysAt(K, Child(n, s)) : Beyond(s, j, data[n])
<1>1. K[n] = {data[n]} \cup KeysAt(K, Child(n, "left")) \cup KeysAt(K, Child(n, "right"))
  BY DEF Ordered
<1>2. /\ \A j \in KeysAt(K, Child(n, "left")) : j < data[n]
      /\ \A j \in KeysAt(K, Child(n, "right")) : data[n] < j
  BY DEF Ordered
<1>3. data[n] \in Int
  BY LinkedFacts
<1> QED
  BY <1>1, <1>2, <1>3 DEF Sides, Other, Beyond

\* The keys below a node are all below each of its ancestors.
LEMMA Laminar ==
  ASSUME NEW K, NEW h, Tree(K, h), NEW y \in Linked, NEW x \in Linked, data[y] \in K[x]
  PROVE  K[y] \subseteq K[x]
<1> USE DEF Tree
<1>1. PICK m \in [Linked -> Nat] : \A n \in Linked, s \in Sides :
             Child(n, s) # NULL => m[Child(n, s)] < m[n]
  BY Measure
<1> DEFINE C == {z \in Linked : data[y] \in K[z] /\ ~(K[y] \subseteq K[z])}
<1>2. ASSUME C # {} PROVE FALSE
  <2>1. PICK z \in C : \A w \in C : m[z] <= m[w]
    BY <1>2, LeastNode
  <2>2. z # y /\ z \in Linked
    BY <2>1
  <2>3. data[z] # data[y]
    BY <2>2, LinkedFacts DEF Ordered
  <2>4. PICK s \in Sides : data[y] \in KeysAt(K, Child(z, s))
    <3>1. data[y] \in KeysAt(K, Child(z, "left")) \/ data[y] \in KeysAt(K, Child(z, "right"))
      BY <2>1, <2>3 DEF Ordered
    <3> QED
      BY <3>1 DEF Sides
  <2> DEFINE c == Child(z, s)
  <2>5. c # NULL /\ data[y] \in K[c] /\ K[c] \subseteq K[z]
    BY <2>2, <2>4, KeysFacts DEF KeysAt
  <2>6. c \in Linked /\ m[c] < m[z]
    BY <1>1, <2>2, <2>5, ChildIn
  <2>7. c \notin C
    BY <2>1, <2>2, <2>6, <1>1
  <2> QED
    BY <2>1, <2>5, <2>6, <2>7
<1> QED
  BY <1>2

\* What is below a node is stored.
LEMMA KeysStored ==
  ASSUME NEW K, NEW h, Tree(K, h), NEW n \in Linked
  PROVE  K[n] \subseteq Stored /\ Stored \subseteq Keys /\ Stored \subseteq Int
<1> USE DEF Tree
<1>1. data[n] \in KeysAt(K, link[Root])
  BY DEF Ordered, Stored
<1>2. link[Root] \in Linked /\ data[n] \in K[link[Root]] /\ K[link[Root]] = Stored
  <2>1. Root \in Slots(Linked)
    BY DEF Slots
  <2> QED
    BY <1>1, <2>1 DEF WellLinked, KeysAt, Ordered
<1>3. K[n] \subseteq Stored
  BY <1>2, Laminar
<1> QED
  BY <1>3, LinkedFacts DEF Stored

\* What is above a child is above its parent.
LEMMA Above ==
  ASSUME NEW K, NEW h, Tree(K, h), NEW n \in Linked, NEW s \in Sides, Child(n, s) # NULL,
         NEW x \in Linked, x # Child(n, s), data[Child(n, s)] \in K[x]
  PROVE  data[n] \in K[x]
<1> USE DEF Tree
<1> DEFINE c == Child(n, s)
<1>1. PICK m \in [Linked -> Nat] : \A p \in Linked, t \in Sides :
             Child(p, t) # NULL => m[Child(p, t)] < m[p]
  BY Measure
<1>2. c \in Linked /\ parent[c] = n
  BY ChildIn
<1> DEFINE C == {z \in Linked \ {c} : data[c] \in K[z] /\ data[n] \notin K[z]}
<1>3. ASSUME C # {} PROVE FALSE
  <2>1. C \in SUBSET Linked
    OBVIOUS
  <2>2. PICK z \in C : \A w \in C : m[z] <= m[w]
    BY <1>3, <2>1, LeastNode
  <2>3. z \in Linked /\ z # c /\ data[c] \in K[z] /\ data[n] \notin K[z]
    BY <2>2
  <2>4. data[z] # data[c] /\ z # n
    BY <1>2, <2>3, LinkedFacts, KeysFacts DEF Ordered
  <2>5. PICK t \in Sides : data[c] \in KeysAt(K, Child(z, t))
    <3>1. data[c] \in KeysAt(K, Child(z, "left")) \/ data[c] \in KeysAt(K, Child(z, "right"))
      BY <2>3, <2>4 DEF Ordered
    <3> QED
      BY <3>1 DEF Sides
  <2> DEFINE d == Child(z, t)
  <2>6. d # NULL /\ data[c] \in K[d] /\ K[d] \subseteq K[z]
    BY <2>3, <2>5, KeysFacts DEF KeysAt
  <2>7. d \in Linked /\ parent[d] = z /\ m[d] < m[z]
    BY <1>1, <2>3, <2>6, ChildIn
  <2>8. d # c
    BY <2>7, <2>4, <1>2
  <2>9. d \notin C
    BY <2>2, <2>3, <2>7, <1>1
  <2> QED
    BY <2>3, <2>6, <2>7, <2>8, <2>9
<1> QED
  BY <1>2, <1>3

\* A key that is not below a node is beyond all that are.
LEMMA Outside ==
  ASSUME NEW K, NEW h, Tree(K, h), NEW x \in Linked, NEW j \in Stored \ K[x]
  PROVE  \E s \in Sides : \A i \in K[x] : Beyond(s, j, i)
<1> USE DEF Tree
<1>1. PICK m \in [Linked -> Nat] : \A n \in Linked, s \in Sides :
             Child(n, s) # NULL => m[Child(n, s)] < m[n]
  BY Measure
<1>2. Stored \subseteq Int /\ K[x] \subseteq Stored
  BY KeysStored
<1> DEFINE C == {z \in Linked : j \in K[z] /\ data[x] \in K[z]}
<1>3. ASSUME ~\E s \in Sides : \A i \in K[x] : Beyond(s, j, i), C # {} PROVE FALSE
  <2>1. C \in SUBSET Linked
    OBVIOUS
  <2>2. PICK z \in C : \A w \in C : m[z] <= m[w]
    BY <1>3, <2>1, LeastNode
  <2>3. z \in Linked /\ j \in K[z] /\ data[x] \in K[z] /\ z # x
    BY <2>2
  <2>4. data[z] # data[x] /\ data[z] \in Int
    BY <2>3, LinkedFacts DEF Ordered
  <2>5. PICK s \in Sides : data[x] \in KeysAt(K, Child(z, s))
    <3>1. data[x] \in KeysAt(K, Child(z, "left")) \/ data[x] \in KeysAt(K, Child(z, "right"))
      BY <2>3, <2>4 DEF Ordered
    <3> QED
      BY <3>1 DEF Sides
  <2> DEFINE c == Child(z, s)
  <2>6. c # NULL /\ data[x] \in K[c]
    BY <2>5 DEF KeysAt
  <2>7. c \in Linked /\ m[c] < m[z]
    BY <1>1, <2>3, <2>6, ChildIn
  <2>8. K[x] \subseteq K[c]
    BY <2>6, <2>7, Laminar
  <2>9. \A i \in K[x] : Beyond(s, i, data[z]) /\ i \in Int
    BY <2>3, <2>6, <2>8, <1>2, KeysFacts DEF KeysAt
  <2>10. j \notin K[c]
    BY <2>2, <2>3, <2>6, <2>7, <1>1
  <2>11. j = data[z] \/ j \in KeysAt(K, Child(z, Other(s)))
    BY <2>3, <2>6, <2>10, KeysFacts DEF KeysAt
  <2>12. j = data[z] \/ Beyond(Other(s), j, data[z])
    BY <2>3, <2>11, KeysFacts, SidesFacts
  <2>13. \A i \in K[x] : Beyond(Other(s), j, i)
    BY <2>4, <2>9, <2>12, <1>2 DEF Beyond, Other, Sides
  <2> QED
    BY <1>3, <2>13, SidesFacts
<1>4. link[Root] \in C
  <2>1. Root \in Slots(Linked) /\ data[x] \in Stored
    BY DEF Slots, Stored
  <2>2. KeysAt(K, link[Root]) = Stored /\ link[Root] # NULL
    BY DEF Ordered, KeysAt
  <2> QED
    BY <2>1, <2>2 DEF WellLinked, KeysAt
<1> QED
  BY <1>3, <1>4

-----------------------------------------------------------------------------
(* Slots. *)

\* The slots of the tree: the root's, and two in each node.
LEMMA SlotsFacts ==
  ASSUME TypeOK, NEW K, Ordered(K)
  PROVE  /\ Slots(Linked) \subseteq Slots(Addresses) /\ Root \in Slots(Linked)
         /\ \A n \in Linked, s \in Sides : <<n, s>> \in Slots(Linked) /\ <<n, s>> # Root
         /\ \A x \in Slots(Linked) : x = Root \/ \E n \in Linked, s \in Sides : x = <<n, s>>
<1>1. Linked \subseteq Addresses /\ NULL \notin Linked
  BY LinkedFacts
<1> QED
  BY <1>1 DEF Slots, Root

\* SlotOf finds the one slot that points to a node, as the code does by
\* comparing the root and the left child.
LEMMA SlotFacts ==
  ASSUME TypeOK, WellLinked, NEW K, Ordered(K), NEW n \in Linked
  PROVE  /\ SlotOf(n) \in Slots(Linked) /\ link[SlotOf(n)] = n /\ SlotOf(n)[1] = parent[n]
         /\ \A x \in Slots(Linked) : link[x] = n => x = SlotOf(n)
         /\ parent[n] = NULL <=> n = link[Root]
         /\ parent[n] = NULL <=> SlotOf(n) = Root
         /\ parent[n] # NULL =>
              /\ parent[n] \in Linked /\ SlotOf(n)[2] \in Sides
              /\ SlotOf(n) = <<parent[n], SlotOf(n)[2]>> /\ Child(parent[n], SlotOf(n)[2]) = n
<1>1. n # NULL /\ NULL \notin Linked
  BY LinkedFacts
<1>2. PICK x \in Slots(Linked) : link[x] = n
  BY DEF WellLinked
<1>3. parent[n] = x[1]
  BY <1>1, <1>2 DEF WellLinked
<1>4. CASE x = Root
  <2>1. parent[n] = NULL /\ SlotOf(n) = Root
    BY <1>2, <1>3, <1>4 DEF Root, SlotOf
  <2> QED
    BY <1>1, <1>2, <1>4, <2>1 DEF WellLinked, Root
<1>5. ASSUME NEW p \in Linked, NEW s \in Sides, x = <<p, s>> PROVE SlotOf(n) = x /\ n # link[Root]
  <2>1. Root \in Slots(Linked) /\ Root # x
    BY <1>5, SlotsFacts
  <2>2. n # link[Root]
    BY <1>1, <1>2, <2>1 DEF WellLinked
  <2>3. parent[n] = p
    BY <1>3, <1>5
  <2>4. <<p, "left">> \in Slots(Linked)
    BY DEF Slots, Sides
  <2>5. Child(p, "left") = n <=> s = "left"
    BY <1>1, <1>2, <1>5, <2>4 DEF WellLinked, Child
  <2> QED
    BY <1>5, <2>2, <2>3, <2>5 DEF SlotOf, Sides
<1>6. ASSUME NEW p \in Linked, NEW s \in Sides, x = <<p, s>>
      PROVE  /\ parent[n] = p /\ parent[n] # NULL /\ SlotOf(n) = <<p, s>> /\ SlotOf(n) # Root
             /\ SlotOf(n)[2] = s /\ Child(p, s) = n
  BY <1>1, <1>2, <1>3, <1>5, <1>6, SlotsFacts DEF Child
<1>7. \A y \in Slots(Linked) : link[y] = n => y = x
  BY <1>1, <1>2 DEF WellLinked
<1> QED
  BY <1>2, <1>3, <1>4, <1>5, <1>6, <1>7, SlotsFacts

\* A node, its child and the child's child are three.
LEMMA Generations ==
  ASSUME NEW K, NEW h, Tree(K, h), NEW n \in Linked, NEW s \in Sides, NEW t \in Sides,
         Child(n, s) # NULL
  PROVE  /\ Child(n, s) # n /\ Child(Child(n, s), t) \notin {n, Child(n, s)}
         /\ Child(n, s) # Child(n, Other(s))
<1> USE DEF Tree
<1>1. PICK m \in [Linked -> Nat] : \A p \in Linked, u \in Sides :
             Child(p, u) # NULL => m[Child(p, u)] < m[p]
  BY Measure
<1> DEFINE c == Child(n, s)
<1>2. c \in Linked /\ m[c] < m[n] /\ c # n
  BY <1>1, ChildIn
<1>3. Child(c, t) # NULL => Child(c, t) \in Linked /\ m[Child(c, t)] < m[c]
  BY <1>1, <1>2, ChildIn
<1>4. m[c] \in Nat /\ m[n] \in Nat /\ NULL \notin Linked
  BY <1>2, LinkedFacts
<1>5. Child(c, t) \notin {n, c}
  BY <1>2, <1>3, <1>4
<1>6. c # Child(n, Other(s))
  <2>1. <<n, s>> \in Slots(Linked) /\ <<n, Other(s)>> \in Slots(Linked) /\ s # Other(s)
    BY SidesFacts, SlotsFacts
  <2> QED
    BY <2>1, <1>2, <1>4 DEF WellLinked, Child
<1> QED
  BY <1>2, <1>5, <1>6

-----------------------------------------------------------------------------
(* What a step does to the links.  The children of a rotated tree are told  *)
(* without slots, which the proofs about keys and heights do not need.      *)

\* A single rotation leaves every node in one slot; what each slot holds.
LEMMA RotateLinks ==
  ASSUME NEW K, NEW h, Tree(K, h), NEW n \in Linked, NEW s \in Sides, Child(n, s) # NULL,
         Rotate(n, s), Linked' = Linked
  PROVE  LET c == Child(n, s)
             inner == Child(c, Other(s))
         IN /\ WellLinked'
            /\ \A m \in Linked, t \in Sides : Child(m, t)' =
                 IF m = n /\ t = s THEN inner ELSE IF m = c /\ t = Other(s) THEN n
                 ELSE IF Child(m, t) = n THEN c ELSE Child(m, t)
            /\ link'[Root] = IF link[Root] = n THEN c ELSE link[Root]
            /\ link' \in [Slots(Addresses) -> Addresses \cup {NULL}]
            /\ parent' \in [Addresses -> Addresses \cup {NULL}]
<1> USE DEF Tree
<1> DEFINE c == Child(n, s)
           inner == Child(c, Other(s))
           S == SlotOf(n)
           A == <<n, s>>
           B == <<c, Other(s)>>
<1>1. c \in Linked /\ n # NULL /\ c # NULL /\ Linked \subseteq Addresses
  BY ChildIn, LinkedFacts
<1>2. c # n /\ inner \notin {n, c}
  BY Generations, SidesFacts
<1>3. /\ S \in Slots(Linked) /\ A \in Slots(Linked) /\ B \in Slots(Linked)
      /\ Slots(Linked) \subseteq Slots(Addresses) /\ Root \in Slots(Linked)
      /\ A # Root /\ B # Root
  BY <1>1, SlotFacts, SlotsFacts, SidesFacts
<1>4. link[S] = n /\ link[A] = c /\ link[B] = inner
  BY SlotFacts DEF Child
<1>5. S[1] = parent[n] /\ A[1] = n /\ B[1] = c
  BY SlotFacts
<1>6. S # A /\ S # B /\ A # B
  BY <1>1, <1>2, <1>4
<1>7. inner # NULL => inner \in Linked
  BY <1>1, ChildIn, SidesFacts
<1>8. link' = [link EXCEPT ![S] = c, ![A] = inner, ![B] = n]
  BY DEF Rotate
<1>9. parent' = [a \in Addresses |->
          CASE a = c -> parent[n] [] a = n -> c [] a = inner -> n [] OTHER -> parent[a]]
  BY DEF Rotate
<1>10. link' \in [Slots(Addresses) -> Addresses \cup {NULL}]
  BY <1>1, <1>3, <1>7, <1>8 DEF TypeOK
<1>11. parent' \in [Addresses -> Addresses \cup {NULL}]
  BY <1>1, <1>9 DEF TypeOK
<1>12. \A x \in Slots(Linked) : link'[x] =
         IF x = S THEN c ELSE IF x = A THEN inner ELSE IF x = B THEN n ELSE link[x]
  BY <1>3, <1>6, <1>8 DEF TypeOK
<1>13. \A a \in Addresses : parent'[a] =
         IF a = c THEN parent[n] ELSE IF a = n THEN c ELSE IF a = inner THEN n ELSE parent[a]
  BY <1>2, <1>9
<1>14. \A x, y \in Slots(Linked) : link[x] = link[y] /\ link[x] # NULL => x = y
  BY DEF WellLinked
<1>15. \A x \in Slots(Linked) : link[x] # NULL => link[x] \in Linked /\ parent[link[x]] = x[1]
  BY DEF WellLinked
<1>16. \A m \in Linked : \E x \in Slots(Linked) : link[x] = m
  BY DEF WellLinked
<1>17. \A m \in Linked, t \in Sides : /\ <<m, t>> \in Slots(Linked)
                                      /\ <<m, t>> = A <=> m = n /\ t = s
                                      /\ <<m, t>> = B <=> m = c /\ t = Other(s)
  BY SlotsFacts
<1> HIDE DEF S, A, B, c, inner
<1>18. \A m \in Linked, t \in Sides : link'[<<m, t>>] =
         IF m = n /\ t = s THEN inner ELSE IF m = c /\ t = Other(s) THEN n
         ELSE IF link[<<m, t>>] = n THEN c ELSE link[<<m, t>>]
  BY <1>1, <1>3, <1>4, <1>6, <1>12, <1>14, <1>17
<1>19. link'[Root] = IF link[Root] = n THEN c ELSE link[Root]
  BY <1>1, <1>3, <1>4, <1>6, <1>12, <1>14
<1>20. ASSUME NEW x \in Slots(Linked), link'[x] # NULL
       PROVE  link'[x] \in Linked /\ parent'[link'[x]] = x[1]
  <2>1. CASE x \in {S, A, B}
    BY <1>20, <2>1, <1>1, <1>2, <1>5, <1>6, <1>7, <1>12, <1>13
  <2>2. CASE x \notin {S, A, B}
    <3>1. link'[x] = link[x] /\ link[x] \notin {n, c, inner}
      BY <2>2, <1>1, <1>3, <1>4, <1>12, <1>14, <1>20
    <3> QED
      BY <3>1, <1>1, <1>13, <1>15, <1>20
  <2> QED
    BY <2>1, <2>2
<1>21. ASSUME NEW m \in Linked PROVE \E x \in Slots(Linked) : link'[x] = m
  BY <1>3, <1>4, <1>6, <1>12, <1>16
<1>22. ASSUME NEW x \in Slots(Linked), NEW y \in Slots(Linked), link'[x] = link'[y], link'[x] # NULL
       PROVE  x = y
  BY <1>1, <1>2, <1>3, <1>4, <1>6, <1>12, <1>14, <1>22
<1>23. Slots(Linked)' = Slots(Linked)
  BY DEF Slots, Sides, Root
<1>24. WellLinked'
  BY <1>20, <1>21, <1>22, <1>23 DEF WellLinked
<1> QED
  BY <1>10, <1>11, <1>18, <1>19, <1>24 DEF Child, c, inner

\* No cycle of three links.
LEMMA GreatGrandchild ==
  ASSUME NEW K, NEW h, Tree(K, h), NEW n \in Linked, NEW s \in Sides, NEW t \in Sides, NEW u \in Sides,
         Child(n, s) # NULL, Child(Child(n, s), t) # NULL
  PROVE  Child(Child(Child(n, s), t), u) \notin {n, Child(n, s), Child(Child(n, s), t)}
<1> USE DEF Tree
<1>1. PICK m \in [Linked -> Nat] : \A p \in Linked, v \in Sides :
             Child(p, v) # NULL => m[Child(p, v)] < m[p]
  BY Measure
<1> DEFINE c == Child(n, s)
           g == Child(c, t)
           far == Child(g, u)
<1>2. c \in Linked /\ m[c] < m[n]
  BY <1>1, ChildIn
<1>3. g \in Linked /\ m[g] < m[c]
  BY <1>1, <1>2, ChildIn
<1>4. far # NULL => far \in Linked /\ m[far] < m[g]
  BY <1>1, <1>3, ChildIn
<1>5. m[g] \in Nat /\ m[c] \in Nat /\ m[n] \in Nat /\ NULL \notin Linked
  BY <1>2, <1>3, LinkedFacts
<1> HIDE DEF c, g, far
<1>6. far \notin {n, c, g}
  BY <1>2, <1>3, <1>4, <1>5
<1> QED
  BY <1>6 DEF c, g, far

\* A double rotation leaves every node in one slot; what each slot holds.
LEMMA DoubleRotateLinks ==
  ASSUME NEW K, NEW h, Tree(K, h), NEW n \in Linked, NEW s \in Sides, Child(n, s) # NULL,
         Child(Child(n, s), Other(s)) # NULL, DoubleRotate(n, s), Linked' = Linked
  PROVE  LET c == Child(n, s)
             g == Child(c, Other(s))
             far == Child(g, Other(s))
             near == Child(g, s)
         IN /\ WellLinked'
            /\ \A m \in Linked, t \in Sides : Child(m, t)' =
                 IF m = n /\ t = s THEN far ELSE IF m = c /\ t = Other(s) THEN near
                 ELSE IF m = g THEN IF t = s THEN c ELSE n
                 ELSE IF Child(m, t) = n THEN g ELSE Child(m, t)
            /\ link'[Root] = IF link[Root] = n THEN g ELSE link[Root]
            /\ link' \in [Slots(Addresses) -> Addresses \cup {NULL}]
            /\ parent' \in [Addresses -> Addresses \cup {NULL}]
<1> USE DEF Tree
<1> DEFINE c == Child(n, s)
           g == Child(c, Other(s))
           far == Child(g, Other(s))
           near == Child(g, s)
           S == SlotOf(n)
           A == <<n, s>>
           B == <<c, Other(s)>>
           G == <<g, s>>
           H == <<g, Other(s)>>
<1>1. c \in Linked /\ n # NULL /\ c # NULL /\ Linked \subseteq Addresses
  BY ChildIn, LinkedFacts
<1>2. g \in Linked /\ g # NULL
  BY <1>1, ChildIn, SidesFacts
<1>3. c # n /\ g \notin {n, c} /\ far \notin {n, c, g} /\ near \notin {n, c, g}
  BY Generations, GreatGrandchild, SidesFacts
<1>4. /\ S \in Slots(Linked) /\ A \in Slots(Linked) /\ B \in Slots(Linked)
      /\ G \in Slots(Linked) /\ H \in Slots(Linked) /\ Root \in Slots(Linked)
      /\ Slots(Linked) \subseteq Slots(Addresses)
      /\ A # Root /\ B # Root /\ G # Root /\ H # Root
  BY <1>1, <1>2, SlotFacts, SlotsFacts, SidesFacts
<1>5. link[S] = n /\ link[A] = c /\ link[B] = g /\ link[G] = near /\ link[H] = far
  BY SlotFacts DEF Child
<1>6. S[1] = parent[n] /\ A[1] = n /\ B[1] = c /\ G[1] = g /\ H[1] = g
  BY SlotFacts
<1>7. S \notin {A, B, G, H} /\ A \notin {B, G, H} /\ B \notin {G, H} /\ G # H
  BY <1>1, <1>2, <1>3, <1>5, SidesFacts
<1>8. (far # NULL => far \in Linked) /\ (near # NULL => near \in Linked)
  BY <1>2, ChildIn, SidesFacts
<1>9. link' = [link EXCEPT ![S] = g, ![A] = far, ![B] = near, ![G] = c, ![H] = n]
  BY DEF DoubleRotate
<1>10. parent' = [a \in Addresses |->
          CASE a = g -> parent[n] [] a \in {n, c} -> g
            [] a = far -> n [] a = near -> c [] OTHER -> parent[a]]
  BY DEF DoubleRotate
<1>11. link' \in [Slots(Addresses) -> Addresses \cup {NULL}]
  BY <1>1, <1>2, <1>4, <1>8, <1>9 DEF TypeOK
<1>12. parent' \in [Addresses -> Addresses \cup {NULL}]
  BY <1>1, <1>2, <1>10 DEF TypeOK
<1>13. \A x \in Slots(Linked) : link'[x] =
         IF x = S THEN g ELSE IF x = A THEN far ELSE IF x = B THEN near
         ELSE IF x = G THEN c ELSE IF x = H THEN n ELSE link[x]
  BY <1>4, <1>7, <1>9 DEF TypeOK
<1>14. \A x, y \in Slots(Linked) : link[x] = link[y] /\ link[x] # NULL => x = y
  BY DEF WellLinked
<1>15. \A x \in Slots(Linked) : link[x] # NULL => link[x] \in Linked /\ parent[link[x]] = x[1]
  BY DEF WellLinked
<1>16. \A m \in Linked : \E x \in Slots(Linked) : link[x] = m
  BY DEF WellLinked
<1>17. \A m \in Linked, t \in Sides : /\ <<m, t>> \in Slots(Linked)
                                      /\ <<m, t>> = A <=> m = n /\ t = s
                                      /\ <<m, t>> = B <=> m = c /\ t = Other(s)
                                      /\ <<m, t>> = G <=> m = g /\ t = s
                                      /\ <<m, t>> = H <=> m = g /\ t = Other(s)
  BY SlotsFacts
<1>18. \A t \in Sides : t = s \/ t = Other(s)
  BY DEF Sides, Other
<1>19. s # Other(s)
  BY SidesFacts
<1>20. far = near => far = NULL
  BY <1>4, <1>5, <1>7, <1>14
<1> HIDE DEF S, A, B, G, H, c, g, far, near
<1>21. \A a \in Addresses : parent'[a] =
         IF a = g THEN parent[n] ELSE IF a \in {n, c} THEN g
         ELSE IF a = far THEN n ELSE IF a = near THEN c ELSE parent[a]
  BY <1>3, <1>10, <1>20, TreeAssumption
<1>22. \A m \in Linked, t \in Sides : link'[<<m, t>>] =
         IF m = n /\ t = s THEN far ELSE IF m = c /\ t = Other(s) THEN near
         ELSE IF m = g THEN IF t = s THEN c ELSE n
         ELSE IF link[<<m, t>>] = n THEN g ELSE link[<<m, t>>]
  <2> TAKE m \in Linked, t \in Sides
  <2>1. <<m, t>> = S <=> link[<<m, t>>] = n
    BY <1>1, <1>4, <1>5, <1>14, <1>17
  <2>2. link'[<<m, t>>] =
          IF link[<<m, t>>] = n THEN g ELSE IF m = n /\ t = s THEN far
          ELSE IF m = c /\ t = Other(s) THEN near
          ELSE IF m = g /\ t = s THEN c ELSE IF m = g /\ t = Other(s) THEN n ELSE link[<<m, t>>]
    BY <2>1, <1>13, <1>17
  <2>3. (m = n /\ t = s) \/ (m = c /\ t = Other(s)) \/ m = g => link[<<m, t>>] # n
    BY <2>1, <1>7, <1>17, <1>18
  <2> QED
    BY <2>2, <2>3, <1>3, <1>18, <1>19
<1>23. link'[Root] = IF link[Root] = n THEN g ELSE link[Root]
  BY <1>1, <1>4, <1>5, <1>7, <1>13, <1>14
<1>24. ASSUME NEW x \in Slots(Linked), link'[x] # NULL
       PROVE  link'[x] \in Linked /\ parent'[link'[x]] = x[1]
  <2>1. CASE x \in {S, A, B, G, H}
    BY <1>24, <2>1, <1>1, <1>2, <1>3, <1>6, <1>7, <1>8, <1>13, <1>20, <1>21
  <2>2. CASE x \notin {S, A, B, G, H}
    <3>1. link'[x] = link[x] /\ link[x] \notin {n, c, g, far, near}
      BY <2>2, <1>1, <1>2, <1>4, <1>5, <1>13, <1>14, <1>24
    <3> QED
      BY <3>1, <1>1, <1>15, <1>21, <1>24
  <2> QED
    BY <2>1, <2>2
<1>25. ASSUME NEW m \in Linked PROVE \E x \in Slots(Linked) : link'[x] = m
  BY <1>4, <1>5, <1>7, <1>13, <1>16
<1>26. ASSUME NEW x \in Slots(Linked), NEW y \in Slots(Linked), link'[x] = link'[y], link'[x] # NULL
       PROVE  x = y
  BY <1>1, <1>2, <1>3, <1>4, <1>5, <1>7, <1>13, <1>14, <1>26
<1>27. Slots(Linked)' = Slots(Linked)
  BY DEF Slots, Sides, Root
<1>28. WellLinked'
  BY <1>24, <1>25, <1>26, <1>27 DEF WellLinked
<1> QED
  BY <1>11, <1>12, <1>22, <1>23, <1>28 DEF Child, c, g, far, near

\* Node_New hangs a leaf into the empty slot it is given.
LEMMA NewLinks ==
  ASSUME NEW K, NEW h, Tree(K, h), NEW a, NEW k, NEW x \in Slots(Linked), link[x] = NULL,
         Node_New(a, k, x), Linked = nodes, Linked' = nodes'
  PROVE  /\ Linked' = Linked \cup {a} /\ a \in Addresses \ Linked
         /\ WellLinked'
         /\ \A m \in Linked, t \in Sides : Child(m, t)' = IF <<m, t>> = x THEN a ELSE Child(m, t)
         /\ \A t \in Sides : Child(a, t)' = NULL
         /\ link'[Root] = IF x = Root THEN a ELSE link[Root]
         /\ link' \in [Slots(Addresses) -> Addresses \cup {NULL}]
         /\ parent' \in [Addresses -> Addresses \cup {NULL}]
         /\ data' = [data EXCEPT ![a] = k] /\ balance' = [balance EXCEPT ![a] = 0]
<1> USE DEF Tree
<1> DEFINE L == <<a, "left">>
           R == <<a, "right">>
<1>1. a \in Addresses /\ a \notin Linked /\ a # NULL /\ Linked \subseteq Addresses
      /\ Linked' = Linked \cup {a} /\ NULL \notin Linked
  BY LinkedFacts, TreeAssumption DEF Node_New
<1>2. /\ x \in Slots(Addresses) /\ Root \in Slots(Linked) /\ x # L /\ x # R /\ L # R
      /\ L # Root /\ R # Root /\ L \in Slots(Addresses) /\ R \in Slots(Addresses)
      /\ Slots(Linked) \subseteq Slots(Addresses) /\ L \notin Slots(Linked) /\ R \notin Slots(Linked)
      /\ x[1] \in Linked \cup {NULL}
  BY <1>1, SlotsFacts DEF Slots, Sides, Root
<1>3. link' = [link EXCEPT ![L] = NULL, ![R] = NULL, ![x] = a]
  BY DEF Node_New
<1>4. parent' = [parent EXCEPT ![a] = x[1]]
  BY DEF Node_New
<1>5. link' \in [Slots(Addresses) -> Addresses \cup {NULL}]
  BY <1>1, <1>2, <1>3 DEF TypeOK
<1>6. parent' \in [Addresses -> Addresses \cup {NULL}]
  BY <1>1, <1>2, <1>4 DEF TypeOK
<1>7. /\ \A y \in Slots(Linked) : link'[y] = IF y = x THEN a ELSE link[y]
      /\ link'[L] = NULL /\ link'[R] = NULL
  BY <1>2, <1>3 DEF TypeOK
<1>8. \A b \in Addresses : parent'[b] = IF b = a THEN x[1] ELSE parent[b]
  BY <1>4 DEF TypeOK
<1>9. \A y, z \in Slots(Linked) : link[y] = link[z] /\ link[y] # NULL => y = z
  BY DEF WellLinked
<1>10. \A y \in Slots(Linked) : link[y] # NULL => link[y] \in Linked /\ parent[link[y]] = y[1]
  BY DEF WellLinked
<1>11. \A m \in Linked : \E y \in Slots(Linked) : link[y] = m
  BY DEF WellLinked
<1>12. Slots(Linked)' = Slots(Linked) \cup {L, R}
  BY <1>1 DEF Slots, Sides, Root
<1>13. \A m \in Linked, t \in Sides : <<m, t>> \in Slots(Linked)
  BY SlotsFacts
<1>14. \A t \in Sides : <<a, t>> \in {L, R}
  BY DEF Sides
<1> HIDE DEF L, R
<1>15. ASSUME NEW y \in Slots(Linked) \cup {L, R}, link'[y] # NULL
       PROVE  link'[y] \in Linked' /\ parent'[link'[y]] = y[1]
  BY <1>1, <1>7, <1>8, <1>10, <1>15
<1>16. ASSUME NEW m \in Linked' PROVE \E y \in Slots(Linked) \cup {L, R} : link'[y] = m
  <2>1. CASE m = a
    BY <2>1, <1>7
  <2>2. CASE m # a
    <3>1. PICK y \in Slots(Linked) : link[y] = m
      BY <2>2, <1>1, <1>11
    <3> QED
      BY <3>1, <2>2, <1>1, <1>7
  <2> QED
    BY <2>1, <2>2
<1>17. ASSUME NEW y \in Slots(Linked) \cup {L, R}, NEW z \in Slots(Linked) \cup {L, R},
              link'[y] = link'[z], link'[y] # NULL
       PROVE  y = z
  BY <1>1, <1>7, <1>9, <1>10, <1>17
<1>18. WellLinked'
  BY <1>12, <1>15, <1>16, <1>17 DEF WellLinked
<1>19. \A m \in Linked, t \in Sides : link'[<<m, t>>] = IF <<m, t>> = x THEN a ELSE link[<<m, t>>]
  BY <1>7, <1>13
<1>20. \A t \in Sides : link'[<<a, t>>] = NULL
  BY <1>7, <1>14
<1>21. link'[Root] = IF x = Root THEN a ELSE link[Root]
  BY <1>2, <1>7
<1> QED
  BY <1>1, <1>5, <1>6, <1>18, <1>19, <1>20, <1>21 DEF Child, Node_New

\* Tree_DeleteNode takes a leaf out of its slot.
LEMMA CutLinks ==
  ASSUME NEW K, NEW h, Tree(K, h), NEW n \in Linked,
         Child(n, "left") = NULL, Child(n, "right") = NULL,
         link' = [link EXCEPT ![SlotOf(n)] = NULL], parent' = parent, Linked' = Linked \ {n}
  PROVE  /\ WellLinked'
         /\ \A m \in Linked \ {n}, t \in Sides :
              Child(m, t)' = IF Child(m, t) = n THEN NULL ELSE Child(m, t)
         /\ link'[Root] = IF link[Root] = n THEN NULL ELSE link[Root]
         /\ link' \in [Slots(Addresses) -> Addresses \cup {NULL}]
<1> USE DEF Tree
<1> DEFINE S == SlotOf(n)
           L == <<n, "left">>
           R == <<n, "right">>
<1>1. n \in Addresses /\ n # NULL /\ Linked \subseteq Addresses /\ NULL \notin Linked
  BY LinkedFacts
<1>2. /\ S \in Slots(Linked) /\ link[S] = n /\ Root \in Slots(Linked)
      /\ Slots(Linked) \subseteq Slots(Addresses) /\ L # Root /\ R # Root
  BY SlotFacts, SlotsFacts DEF Sides
<1>3. Slots(Linked)' = Slots(Linked) \ {L, R}
  BY <1>1 DEF Slots, Sides, Root
<1>4. link[L] = NULL /\ link[R] = NULL
  BY DEF Child
<1>5. S # L /\ S # R
  BY <1>1, <1>2, <1>4
<1>6. link' \in [Slots(Addresses) -> Addresses \cup {NULL}]
  BY <1>2 DEF TypeOK
<1>7. \A y \in Slots(Linked) : link'[y] = IF link[y] = n THEN NULL ELSE link[y]
  <2>1. \A y \in Slots(Linked) : link'[y] = IF y = S THEN NULL ELSE link[y]
    BY <1>2 DEF TypeOK
  <2>2. \A y \in Slots(Linked) : link[y] = n <=> y = S
    BY <1>1, <1>2 DEF WellLinked
  <2> QED
    BY <2>1, <2>2
<1>8. \A y, z \in Slots(Linked) : link[y] = link[z] /\ link[y] # NULL => y = z
  BY DEF WellLinked
<1>9. \A y \in Slots(Linked) : link[y] # NULL => link[y] \in Linked /\ parent[link[y]] = y[1]
  BY DEF WellLinked
<1>10. \A m \in Linked : \E y \in Slots(Linked) : link[y] = m
  BY DEF WellLinked
<1>11. \A m \in Linked, t \in Sides : <<m, t>> \in Slots(Linked)
  BY SlotsFacts
<1> HIDE DEF S, L, R
<1>12. ASSUME NEW m \in Linked \ {n} PROVE \E y \in Slots(Linked) \ {L, R} : link'[y] = m
  <2>1. PICK y \in Slots(Linked) : link[y] = m
    BY <1>10
  <2>2. y \notin {L, R} /\ link'[y] = m
    BY <2>1, <1>1, <1>4, <1>7
  <2> QED
    BY <2>2
<1>13. WellLinked'
  <2>1. ASSUME NEW y \in Slots(Linked) \ {L, R}, link'[y] # NULL
        PROVE  link'[y] \in Linked \ {n} /\ parent'[link'[y]] = y[1]
    BY <2>1, <1>7, <1>9
  <2>2. ASSUME NEW y \in Slots(Linked) \ {L, R}, NEW z \in Slots(Linked) \ {L, R},
               link'[y] = link'[z], link'[y] # NULL
        PROVE  y = z
    BY <2>2, <1>7, <1>8
  <2> DEFINE slots == Slots(Linked) \ {L, R}
  <2>3. /\ \A y \in slots : link'[y] # NULL => link'[y] \in Linked' /\ parent'[link'[y]] = y[1]
        /\ \A m \in Linked' : \E y \in slots : link'[y] = m
        /\ \A y, z \in slots : link'[y] = link'[z] /\ link'[y] # NULL => y = z
    BY <2>1, <2>2, <1>12
  <2>4. slots = Slots(Linked)'
    BY <1>3
  <2> HIDE DEF slots
  <2> QED
    BY <2>3, <2>4 DEF WellLinked
<1>14. \A m \in Linked, t \in Sides :
         link'[<<m, t>>] = IF link[<<m, t>>] = n THEN NULL ELSE link[<<m, t>>]
  BY <1>7, <1>11
<1>15. link'[Root] = IF link[Root] = n THEN NULL ELSE link[Root]
  BY <1>2, <1>7
<1> QED
  BY <1>6, <1>13, <1>14, <1>15 DEF Child

\* The only child of a node, which is a leaf, gives it its contents and goes.
LEMMA ReplaceLinks ==
  ASSUME NEW K, NEW h, Tree(K, h), NEW n \in Linked, NEW s \in Sides,
         Child(n, s) # NULL, Child(n, Other(s)) = NULL,
         \A t \in Sides : Child(Child(n, s), t) = NULL,
         Tree_Replace(n, Child(n, s)), Linked' = Linked \ {Child(n, s)}
  PROVE  /\ WellLinked'
         /\ \A m \in Linked \ {Child(n, s)}, t \in Sides :
              Child(m, t)' = IF m = n THEN NULL ELSE Child(m, t)
         /\ link'[Root] = link[Root]
         /\ link' \in [Slots(Addresses) -> Addresses \cup {NULL}]
         /\ parent' \in [Addresses -> Addresses \cup {NULL}]
<1> USE DEF Tree
<1> DEFINE o == Child(n, s)
<1>1. o \in Linked /\ o # n /\ Linked \subseteq Addresses /\ NULL \notin Linked
  BY ChildIn, LinkedFacts, Generations
<1>2. link' = [x \in Slots(Addresses) |->
         CASE x[1] = n -> Child(o, x[2]) [] x[1] = o -> Child(n, x[2]) [] OTHER -> link[x]]
  BY DEF Tree_Replace, TypeOK
<1>3. {Child(n, t) : t \in Sides} = {o, NULL} /\ {Child(o, t) : t \in Sides} = {NULL}
  <2>1. \A t \in Sides : t = s \/ t = Other(s)
    BY DEF Sides, Other
  <2> QED
    BY <2>1, SidesFacts
<1>4. parent' = [a \in Addresses |->
         CASE a \in {o, NULL} -> o [] a \in {NULL} -> n [] OTHER -> parent[a]]
  <2>1. parent' = [a \in Addresses |->
          CASE a \in {Child(n, t) : t \in Sides} -> o
            [] a \in {Child(o, t) : t \in Sides} -> n [] OTHER -> parent[a]]
    BY DEF Tree_Replace
  <2> HIDE DEF o
  <2> QED
    BY <2>1, <1>3
<1>5. Slots(Linked)' = {x \in Slots(Linked) : x[1] # o}
  <2>1. \A x \in Slots(Linked) : x = Root \/ \E m \in Linked, t \in Sides : x = <<m, t>>
    BY SlotsFacts
  <2>2. Slots(Linked)' = Slots(Linked \ {o})
    BY DEF Slots, Sides, Root
  <2>3. o # NULL
    BY <1>1
  <2> HIDE DEF o
  <2> QED
    BY <1>1, <2>2, <2>3 DEF Slots, Sides, Root
<1>6. /\ Root \in Slots(Linked) /\ Slots(Linked) \subseteq Slots(Addresses)
      /\ \A m \in Linked, t \in Sides : <<m, t>> \in Slots(Linked)
  BY SlotsFacts
<1>7. \A x \in Slots(Linked) : x[1] = n => x[2] \in Sides /\ x = <<n, x[2]>>
  <2>1. \A x \in Slots(Linked) : x = Root \/ \E m \in Linked, t \in Sides : x = <<m, t>>
    BY SlotsFacts
  <2>2. Root[1] # n
    BY <1>1 DEF Root
  <2> QED
    BY <2>1, <2>2
<1>8. \A x \in Slots(Linked) : x[1] # o => link'[x] = IF x[1] = n THEN NULL ELSE link[x]
  <2>1. \A t \in Sides : Child(o, t) = NULL
    OBVIOUS
  <2> HIDE DEF o
  <2> QED
    BY <2>1, <1>2, <1>6, <1>7
<1>9. /\ \A x \in Slots(Linked) : link[x] # NULL => link[x] \in Linked /\ parent[link[x]] = x[1]
      /\ \A m \in Linked : \E y \in Slots(Linked) : link[y] = m
      /\ \A x, y \in Slots(Linked) : link[x] = link[y] /\ link[x] # NULL => x = y
  BY DEF WellLinked
<1>10. \A x \in Slots(Linked) : link[x] = o => x[1] = n
  BY <1>1, <1>6, <1>9 DEF Child
<1>11. \A x \in Slots(Linked) : x[1] \in {n, o} => link[x] \in {o, NULL}
  <2>1. \A x \in Slots(Linked) : x = Root \/ \E m \in Linked, t \in Sides : x = <<m, t>>
    BY SlotsFacts
  <2>2. Root[1] # n /\ Root[1] # o
    BY <1>1 DEF Root
  <2>3. \A t \in Sides : t = s \/ t = Other(s)
    BY DEF Sides, Other
  <2> QED
    BY <2>1, <2>2, <2>3 DEF Child
<1>12. \A t \in Sides : Child(o, t) \in Addresses \cup {NULL} /\ Child(n, t) \in Addresses \cup {NULL}
  BY <1>1, ChildIn
<1>13. o # NULL /\ n # NULL
  BY <1>1
<1>14. link' \in [Slots(Addresses) -> Addresses \cup {NULL}]
  <2>1. \A x \in Slots(Addresses) : x = Root \/ (x[2] \in Sides /\ x[1] # NULL)
    BY TreeAssumption DEF Slots
  <2>2. Root[1] = NULL
    BY DEF Root
  <2> HIDE DEF o
  <2>3. \A x \in Slots(Addresses) : (x[1] = n \/ x[1] = o => x[2] \in Sides)
    BY <2>1, <2>2, <1>13
  <2>4. \A x \in Slots(Addresses) : link[x] \in Addresses \cup {NULL}
    BY DEF TypeOK
  <2> QED
    BY <2>3, <2>4, <1>2, <1>12
<1> HIDE DEF o
<1>15. parent' \in [Addresses -> Addresses \cup {NULL}]
  BY <1>1, <1>4 DEF TypeOK
<1>16. \A a \in Addresses : a # o => parent'[a] = parent[a]
  BY <1>4, TreeAssumption
<1>17. WellLinked'
  <2>1. ASSUME NEW x \in Slots(Linked), x[1] # o, link'[x] # NULL
        PROVE  link'[x] \in Linked \ {o} /\ parent'[link'[x]] = x[1]
    BY <2>1, <1>1, <1>8, <1>9, <1>10, <1>16
  <2>2. ASSUME NEW m \in Linked \ {o}
        PROVE  \E x \in Slots(Linked) : x[1] # o /\ link'[x] = m
    <3>1. PICK x \in Slots(Linked) : link[x] = m
      BY <1>9
    <3> QED
      BY <3>1, <1>1, <1>8, <1>11
  <2>3. ASSUME NEW x \in Slots(Linked), NEW y \in Slots(Linked), x[1] # o, y[1] # o,
               link'[x] = link'[y], link'[x] # NULL
        PROVE  x = y
    BY <2>3, <1>8, <1>9
  <2>4. Linked' = Linked \ {o}
    BY DEF o
  <2> QED
    BY <2>1, <2>2, <2>3, <2>4, <1>5 DEF WellLinked
<1>18. \A m \in Linked \ {o}, t \in Sides : link'[<<m, t>>] = IF m = n THEN NULL ELSE link[<<m, t>>]
  BY <1>6, <1>8
<1>19. link'[Root] = link[Root]
  BY <1>6, <1>8, <1>13 DEF Root
<1> QED
  BY <1>14, <1>15, <1>18, <1>17, <1>19 DEF o, Child

\* The right child moved into the place of the deleted node leaves every node
\* in one slot.
LEMMA MoveUpRightLinks ==
  ASSUME NEW K, NEW h, Tree(K, h), NEW n \in Linked,
         Child(n, "left") # NULL, Child(n, "right") # NULL,
         Child(Child(n, "right"), "left") = NULL,
         MoveUpRight(n), Linked' = Linked \ {n}
  PROVE  LET left == Child(n, "left")
             s == Child(n, "right")
         IN /\ WellLinked'
            /\ \A m \in Linked \ {n}, t \in Sides : Child(m, t)' =
                 IF m = s /\ t = "left" THEN left ELSE IF Child(m, t) = n THEN s ELSE Child(m, t)
            /\ link'[Root] = IF link[Root] = n THEN s ELSE link[Root]
            /\ link' \in [Slots(Addresses) -> Addresses \cup {NULL}]
            /\ parent' \in [Addresses -> Addresses \cup {NULL}]
<1> USE DEF Tree
<1> DEFINE l == Child(n, "left")
           s == Child(n, "right")
           S == SlotOf(n)
           A == <<s, "left">>
           L == <<n, "left">>
           R == <<n, "right">>
<1>1. "left" \in Sides /\ "right" \in Sides /\ Other("left") = "right"
  BY DEF Sides, Other
<1>2. l \in Linked /\ s \in Linked /\ Linked \subseteq Addresses /\ NULL \notin Linked
  BY <1>1, ChildIn, LinkedFacts
<1>3. l # n /\ s # n /\ l # s
  BY <1>1, Generations
<1>4. /\ S \in Slots(Linked) /\ A \in Slots(Linked) /\ L \in Slots(Linked) /\ R \in Slots(Linked)
      /\ Slots(Linked) \subseteq Slots(Addresses) /\ Root \in Slots(Linked)
      /\ A # Root /\ L # Root /\ R # Root
  BY <1>1, <1>2, SlotFacts, SlotsFacts
<1>5. link[S] = n /\ link[A] = NULL /\ link[L] = l /\ link[R] = s
  BY SlotFacts DEF Child
<1>6. S[1] = parent[n] /\ A[1] = s
  BY SlotFacts
<1>7. S # A /\ S # L /\ S # R /\ A # L /\ A # R
  BY <1>2, <1>3, <1>5
<1>8. link' = [link EXCEPT ![S] = s, ![A] = l]
  BY DEF MoveUpRight
<1>9. parent' = [parent EXCEPT ![s] = parent[n], ![l] = s]
  BY DEF MoveUpRight
<1>10. link' \in [Slots(Addresses) -> Addresses \cup {NULL}]
  BY <1>2, <1>4, <1>8 DEF TypeOK
<1>11. parent' \in [Addresses -> Addresses \cup {NULL}]
  BY <1>2, <1>9 DEF TypeOK
<1>12. \A x \in Slots(Linked) : link'[x] = IF x = S THEN s ELSE IF x = A THEN l ELSE link[x]
  BY <1>4, <1>7, <1>8 DEF TypeOK
<1>13. \A a \in Addresses : parent'[a] = IF a = s THEN parent[n] ELSE IF a = l THEN s ELSE parent[a]
  BY <1>2, <1>3, <1>9 DEF TypeOK
<1>14. /\ \A x \in Slots(Linked) : link[x] # NULL => link[x] \in Linked /\ parent[link[x]] = x[1]
       /\ \A m \in Linked : \E x \in Slots(Linked) : link[x] = m
       /\ \A x, y \in Slots(Linked) : link[x] = link[y] /\ link[x] # NULL => x = y
  BY DEF WellLinked
<1>15. Slots(Linked)' = Slots(Linked) \ {L, R}
  BY <1>2 DEF Slots, Sides, Root
<1>16. \A m \in Linked, t \in Sides : /\ <<m, t>> \in Slots(Linked)
                                      /\ <<m, t>> = A <=> m = s /\ t = "left"
  BY SlotsFacts
<1> HIDE DEF S, A, L, R, l, s
<1>17. \A m \in Linked, t \in Sides : link'[<<m, t>>] =
         IF m = s /\ t = "left" THEN l ELSE IF link[<<m, t>>] = n THEN s ELSE link[<<m, t>>]
  <2>1. \A x \in Slots(Linked) : x = S <=> link[x] = n
    BY <1>2, <1>4, <1>5, <1>14
  <2> TAKE m \in Linked, t \in Sides
  <2>2. <<m, t>> \in Slots(Linked) /\ (<<m, t>> = A <=> m = s /\ t = "left")
    BY <1>16
  <2>3. link'[<<m, t>>] = IF link[<<m, t>>] = n THEN s ELSE IF m = s /\ t = "left" THEN l ELSE link[<<m, t>>]
    BY <2>1, <2>2, <1>12
  <2>4. m = s /\ t = "left" => link[<<m, t>>] # n
    BY <2>1, <2>2, <1>7
  <2> QED
    BY <2>3, <2>4
<1>18. link'[Root] = IF link[Root] = n THEN s ELSE link[Root]
  BY <1>2, <1>4, <1>5, <1>12, <1>14
<1>19. ASSUME NEW x \in Slots(Linked) \ {L, R}, link'[x] # NULL
       PROVE  link'[x] \in Linked \ {n} /\ parent'[link'[x]] = x[1]
  <2>1. CASE x \in {S, A}
    BY <2>1, <1>2, <1>3, <1>6, <1>12, <1>13, <1>7
  <2>2. CASE x \notin {S, A}
    <3>1. link'[x] = link[x] /\ link[x] \notin {n, l, s}
      BY <2>2, <1>2, <1>4, <1>5, <1>12, <1>14, <1>19
    <3> QED
      BY <3>1, <1>2, <1>13, <1>14, <1>19
  <2> QED
    BY <2>1, <2>2
<1>20. ASSUME NEW m \in Linked \ {n} PROVE \E x \in Slots(Linked) \ {L, R} : link'[x] = m
  <2>1. PICK x \in Slots(Linked) : link[x] = m
    BY <1>14
  <2>2. CASE m \in {l, s}
    BY <2>2, <1>4, <1>7, <1>12
  <2>3. CASE m \notin {l, s}
    <3>1. x \notin {L, R} /\ x # S /\ x # A
      BY <2>1, <2>3, <1>2, <1>5
    <3> QED
      BY <3>1, <2>1, <1>12
  <2> QED
    BY <2>2, <2>3
<1>21. ASSUME NEW x \in Slots(Linked) \ {L, R}, NEW y \in Slots(Linked) \ {L, R},
              link'[x] = link'[y], link'[x] # NULL
       PROVE  x = y
  BY <1>2, <1>3, <1>4, <1>5, <1>7, <1>12, <1>14, <1>21
<1>22. WellLinked'
  <2> DEFINE slots == Slots(Linked) \ {L, R}
  <2>1. /\ \A y \in slots : link'[y] # NULL => link'[y] \in Linked' /\ parent'[link'[y]] = y[1]
        /\ \A m \in Linked' : \E y \in slots : link'[y] = m
        /\ \A y, z \in slots : link'[y] = link'[z] /\ link'[y] # NULL => y = z
    BY <1>19, <1>20, <1>21
  <2>2. slots = Slots(Linked)'
    BY <1>15
  <2> HIDE DEF slots
  <2> QED
    BY <2>1, <2>2 DEF WellLinked
<1> QED
  BY <1>10, <1>11, <1>17, <1>18, <1>22 DEF Child, l, s

\* So does the successor fetched from further down, whose right subtree takes
\* its old place.
LEMMA MoveUpSuccessorLinks ==
  ASSUME NEW K, NEW h, Tree(K, h), NEW n \in Linked, n = toDelete, NEW s \in Linked, s = node,
         Child(n, "left") # NULL, Child(n, "right") # NULL, s # Child(n, "right"),
         data[s] \in K[Child(n, "right")], Child(s, "left") = NULL,
         MoveUpSuccessor, Linked' = Linked \ {n}
  PROVE  LET left == Child(n, "left")
             right == Child(n, "right")
             under == Child(s, "right")
         IN /\ s \notin {n, left, right} /\ under \notin {n, left, right, s}
            /\ left \in Linked \ {n} /\ right \in Linked \ {n} /\ left # right
            /\ WellLinked'
            /\ \A m \in Linked \ {n}, t \in Sides : Child(m, t)' =
                 IF m = s THEN IF t = "left" THEN left ELSE right
                 ELSE IF Child(m, t) = s THEN under
                 ELSE IF Child(m, t) = n THEN s ELSE Child(m, t)
            /\ link'[Root] = IF link[Root] = n THEN s ELSE link[Root]
            /\ link' \in [Slots(Addresses) -> Addresses \cup {NULL}]
            /\ parent' \in [Addresses -> Addresses \cup {NULL}]
<1> USE DEF Tree
<1> DEFINE l == Child(n, "left")
           r == Child(n, "right")
           u == Child(s, "right")
           S == SlotOf(n)
           T == SlotOf(s)
           A == <<s, "left">>
           B == <<s, "right">>
           L == <<n, "left">>
           R == <<n, "right">>
<1>1. "left" \in Sides /\ "right" \in Sides /\ Other("left") = "right"
  BY DEF Sides, Other
<1>2. /\ l \in Linked /\ r \in Linked /\ Linked \subseteq Addresses /\ NULL \notin Linked
      /\ u # NULL => u \in Linked
  BY <1>1, ChildIn, LinkedFacts
<1>3. l # n /\ r # n /\ l # r /\ (u # NULL => u # s)
  BY <1>1, Generations
<1>4. s # n /\ s # r
  BY <1>1, <1>2, KeysFacts DEF KeysAt
<1>5. s # l
  <2>1. K[l] \subseteq Int /\ K[r] \subseteq Int /\ data[n] \in Int /\ data[l] \in K[l]
    BY <1>2, KeysStored, KeysFacts, LinkedFacts
  <2>2. \A j \in K[l] : j < data[n]
    BY <1>2 DEF Ordered, KeysAt
  <2>3. \A j \in K[r] : data[n] < j
    BY <1>2 DEF Ordered, KeysAt
  <2> QED
    BY <2>1, <2>2, <2>3
<1>6. u # n
  <2>1. ASSUME u = n PROVE FALSE
    <3>1. data[n] \in K[s]
      <4>1. Child(s, "right") = n /\ n # NULL
        BY <2>1, <1>2
      <4> QED
        BY <4>1, <1>1, KeysFacts DEF KeysAt
    <3>2. K[s] \subseteq K[r]
      BY <1>2, Laminar
    <3> QED
      BY <3>1, <3>2, <1>1, <1>2, KeysFacts DEF KeysAt
  <2> QED
    BY <2>1
<1>7. /\ S \in Slots(Linked) /\ T \in Slots(Linked) /\ A \in Slots(Linked) /\ B \in Slots(Linked)
      /\ L \in Slots(Linked) /\ R \in Slots(Linked)
      /\ Slots(Linked) \subseteq Slots(Addresses) /\ Root \in Slots(Linked)
      /\ A # Root /\ B # Root /\ L # Root /\ R # Root
  BY <1>1, <1>2, SlotFacts, SlotsFacts
<1>8. link[S] = n /\ link[T] = s /\ link[A] = NULL /\ link[B] = u /\ link[L] = l /\ link[R] = r
  BY SlotFacts DEF Child
<1>9. S[1] = parent[n] /\ T[1] = parent[s] /\ A[1] = s /\ B[1] = s
  BY SlotFacts
<1>10. A # B /\ L # R /\ A # L /\ A # R /\ B # L /\ B # R
  BY <1>4
<1>11. S \notin {T, A, B, L, R} /\ T \notin {A, B, L, R}
  BY <1>2, <1>3, <1>4, <1>5, <1>6, <1>8
<1>12. /\ \A x \in Slots(Linked) : link[x] # NULL => link[x] \in Linked /\ parent[link[x]] = x[1]
       /\ \A m \in Linked : \E x \in Slots(Linked) : link[x] = m
       /\ \A x, y \in Slots(Linked) : link[x] = link[y] /\ link[x] # NULL => x = y
  BY DEF WellLinked
<1>13. u # l /\ u # r /\ u # s
  BY <1>2, <1>3, <1>7, <1>8, <1>10, <1>12
<1>14. link' = [link EXCEPT ![T] = u, ![S] = s, ![A] = l, ![B] = r]
  BY DEF MoveUpSuccessor
<1>15. parent' = [a \in Addresses |->
          CASE a = s -> parent[n] [] a \in {l, r} -> s
            [] a = u -> parent[s] [] OTHER -> parent[a]]
  BY DEF MoveUpSuccessor
<1>16. link' \in [Slots(Addresses) -> Addresses \cup {NULL}]
  BY <1>2, <1>7, <1>14 DEF TypeOK
<1>17. parent' \in [Addresses -> Addresses \cup {NULL}]
  BY <1>2, <1>15 DEF TypeOK
<1>18. \A x \in Slots(Linked) : link'[x] =
         IF x = T THEN u ELSE IF x = S THEN s ELSE IF x = A THEN l ELSE IF x = B THEN r ELSE link[x]
  BY <1>7, <1>10, <1>11, <1>14 DEF TypeOK
<1>19. Slots(Linked)' = Slots(Linked) \ {L, R}
  BY <1>2 DEF Slots, Sides, Root
<1>20. \A m \in Linked, t \in Sides : /\ <<m, t>> \in Slots(Linked)
                                      /\ <<m, t>> = A <=> m = s /\ t = "left"
                                      /\ <<m, t>> = B <=> m = s /\ t = "right"
                                      /\ t = "left" \/ t = "right"
  BY SlotsFacts DEF Sides
<1> HIDE DEF S, T, A, B, L, R, l, r, u
<1>21. \A a \in Addresses : parent'[a] =
         IF a = s THEN parent[n] ELSE IF a \in {l, r} THEN s ELSE IF a = u THEN parent[s] ELSE parent[a]
  BY <1>4, <1>5, <1>13, <1>15
<1>22. \A x \in Slots(Linked) : (x = T <=> link[x] = s) /\ (x = S <=> link[x] = n)
  BY <1>2, <1>7, <1>8, <1>12
<1>23. \A m \in Linked, t \in Sides : link'[<<m, t>>] =
         IF m = s THEN IF t = "left" THEN l ELSE r
         ELSE IF link[<<m, t>>] = s THEN u ELSE IF link[<<m, t>>] = n THEN s ELSE link[<<m, t>>]
  <2> TAKE m \in Linked, t \in Sides
  <2> DEFINE x == <<m, t>>
  <2>1. x \in Slots(Linked) /\ (x = A <=> m = s /\ t = "left") /\ (x = B <=> m = s /\ t = "right")
        /\ (t = "left" \/ t = "right")
    BY <1>20
  <2>2. (x = T <=> link[x] = s) /\ (x = S <=> link[x] = n)
    BY <2>1, <1>22
  <2>3. link'[x] = IF x = T THEN u ELSE IF x = S THEN s ELSE IF x = A THEN l ELSE IF x = B THEN r ELSE link[x]
    BY <2>1, <1>18
  <2> HIDE DEF x
  <2>4. link'[x] = IF m = s THEN IF t = "left" THEN l ELSE r
                   ELSE IF link[x] = s THEN u ELSE IF link[x] = n THEN s ELSE link[x]
    <3>1. CASE m = s
      BY <2>1, <2>3, <3>1, <1>11, <1>10
    <3>2. CASE m # s
      BY <2>1, <2>2, <2>3, <3>2, <1>11
    <3> QED
      BY <3>1, <3>2
  <2> QED
    BY <2>4 DEF x
<1>24. link'[Root] = IF link[Root] = n THEN s ELSE link[Root]
  <2>1. Root # T
    <3>1. T[1] # NULL
      <4>1. ASSUME parent[s] = NULL PROVE FALSE
        <5>1. s = link[Root]
          BY <4>1, SlotFacts
        <5>2. data[n] \in K[s] /\ K[s] \subseteq K[r]
          <6>1. K[s] \subseteq K[r]
            BY <1>2, Laminar DEF r
          <6>2. KeysAt(K, link[Root]) = Stored /\ data[n] \in Stored
            BY DEF Ordered, Stored
          <6> QED
            BY <5>1, <6>1, <6>2 DEF KeysAt
        <5> QED
          BY <5>2, <1>1, <1>2, KeysFacts DEF KeysAt, r
      <4> QED
        BY <4>1, <1>9
    <3> QED
      BY <3>1 DEF Root
  <2> QED
    BY <2>1, <1>7, <1>18, <1>22
<1>25. ASSUME NEW x \in Slots(Linked) \ {L, R}, link'[x] # NULL
       PROVE  link'[x] \in Linked \ {n} /\ parent'[link'[x]] = x[1]
  <2>1. CASE x \in {S, T, A, B}
    BY <2>1, <1>25, <1>2, <1>3, <1>4, <1>5, <1>6, <1>9, <1>10, <1>11, <1>13, <1>18, <1>21
  <2>2. CASE x \notin {S, T, A, B}
    <3>1. link'[x] = link[x] /\ link[x] \notin {n, s, l, r, u}
      BY <2>2, <1>2, <1>7, <1>8, <1>12, <1>18, <1>25
    <3> QED
      BY <3>1, <1>2, <1>12, <1>21, <1>25
  <2> QED
    BY <2>1, <2>2
<1>26. ASSUME NEW m \in Linked \ {n} PROVE \E x \in Slots(Linked) \ {L, R} : link'[x] = m
  <2>1. PICK x \in Slots(Linked) : link[x] = m
    BY <1>12
  <2>2. CASE m \in {l, r, s, u}
    BY <2>2, <1>7, <1>10, <1>11, <1>18
  <2>3. CASE m \notin {l, r, s, u}
    <3>1. x \notin {L, R, S, T, A, B}
      BY <2>1, <2>3, <1>2, <1>8
    <3> QED
      BY <3>1, <2>1, <1>18
  <2> QED
    BY <2>2, <2>3
<1>27. ASSUME NEW x \in Slots(Linked) \ {L, R}, NEW y \in Slots(Linked) \ {L, R},
              link'[x] = link'[y], link'[x] # NULL
       PROVE  x = y
  <2>1. ASSUME NEW z \in Slots(Linked) \ {L, R, S, T, A, B} PROVE link[z] \notin {n, s} /\ link'[z] = link[z]
    BY <1>18, <1>22
  <2>2. ASSUME NEW z \in Slots(Linked) \ {L, R, S, T, A, B}, link[z] # NULL PROVE link[z] \notin {l, r, u}
    BY <2>2, <1>2, <1>7, <1>8, <1>12
  <2>3. /\ link'[T] = u /\ link'[S] = s /\ link'[A] = l /\ link'[B] = r
    BY <1>7, <1>10, <1>11, <1>18
  <2>4. CASE x \in {S, T, A, B} /\ y \in {S, T, A, B}
    BY <2>3, <2>4, <1>27, <1>3, <1>4, <1>5, <1>13
  <2>5. CASE x \notin {S, T, A, B} /\ y \notin {S, T, A, B}
    BY <2>1, <2>5, <1>27, <1>12
  <2>6. CASE x \in {S, T, A, B} /\ y \notin {S, T, A, B}
    BY <2>1, <2>2, <2>3, <2>6, <1>27
  <2>7. CASE x \notin {S, T, A, B} /\ y \in {S, T, A, B}
    BY <2>1, <2>2, <2>3, <2>7, <1>27
  <2> QED
    BY <2>4, <2>5, <2>6, <2>7
<1>28. WellLinked'
  <2> DEFINE slots == Slots(Linked) \ {L, R}
  <2>1. /\ \A y \in slots : link'[y] # NULL => link'[y] \in Linked' /\ parent'[link'[y]] = y[1]
        /\ \A m \in Linked' : \E y \in slots : link'[y] = m
        /\ \A y, z \in slots : link'[y] = link'[z] /\ link'[y] # NULL => y = z
    BY <1>25, <1>26, <1>27
  <2>2. slots = Slots(Linked)'
    BY <1>19
  <2> HIDE DEF slots
  <2> QED
    BY <2>1, <2>2 DEF WellLinked
<1> QED
  BY <1>2, <1>3, <1>4, <1>5, <1>6, <1>13, <1>16, <1>17, <1>23, <1>24, <1>28 DEF Child, l, r, u

-----------------------------------------------------------------------------
(* What a step does to the keys below each node. *)

\* To show the keys in order after a step, each node may be looked at from
\* whichever side is convenient.
LEMMA OrderedNext ==
  ASSUME NEW f, f = [m \in Linked' |-> f[m]],
         \A m \in Linked' : \E s \in Sides :
           f[m] = {data'[m]} \cup KeysAt(f, Child(m, s)') \cup KeysAt(f, Child(m, Other(s))'),
         \A m \in Linked', s \in Sides : \A j \in KeysAt(f, Child(m, s)') : Beyond(s, j, data'[m]),
         \A m, n \in nodes' : data'[m] = data'[n] => m = n,
         \A m \in nodes' : data'[m] \in Keys,
         KeysAt(f, link'[Root]) = {data'[m] : m \in Linked'}
  PROVE  Ordered(f)'
<1>1. \A m \in Linked' :
        f[m] = {data'[m]} \cup KeysAt(f, Child(m, "left")') \cup KeysAt(f, Child(m, "right")')
  BY DEF Sides, Other
<1>2. f = [m \in Linked' |->
        {data'[m]} \cup KeysAt(f, Child(m, "left")') \cup KeysAt(f, Child(m, "right")')]
  BY <1>1
<1>3. \A m \in Linked' : /\ \A j \in KeysAt(f, Child(m, "left")') : j < data'[m]
                         /\ \A j \in KeysAt(f, Child(m, "right")') : data'[m] < j
  BY DEF Sides, Beyond
<1> QED
  BY <1>2, <1>3 DEF Ordered, Stored, KeysAt

\* A single rotation keeps the order, and the keys below every other node.
LEMMA RotateKeys ==
  ASSUME NEW K, NEW h, Tree(K, h), NEW n \in Linked, NEW s \in Sides, Child(n, s) # NULL,
         Rotate(n, s), Linked' = Linked, nodes' = nodes, data' = data
  PROVE  \E f : /\ Ordered(f)'
                /\ \A m \in Linked \ {n, Child(n, s)} : f[m] = K[m]
<1> USE DEF Tree
<1>0. PICK o, c, inner, outer, w :
        /\ o = Other(s) /\ c = Child(n, s) /\ inner = Child(c, o)
        /\ outer = Child(c, s) /\ w = Child(n, o)
  OBVIOUS
<1>1. /\ c \in Linked /\ c # n /\ parent[c] = n /\ n # NULL /\ c # NULL /\ NULL \notin Linked
      /\ (inner # NULL => inner \in Linked) /\ (outer # NULL => outer \in Linked)
      /\ (w # NULL => w \in Linked)
  BY <1>0, ChildIn, LinkedFacts, Generations, SidesFacts
<1>2. inner \notin {n, c} /\ outer \notin {n, c} /\ w # c /\ w # n
  <2>1. o \in Sides /\ Other(o) = s
    BY <1>0, SidesFacts
  <2> QED
    BY <1>0, <1>1, <2>1, Generations
<1>3. \A m \in Linked \ {n}, t \in Sides : Child(m, t) # c
  BY <1>0, <1>1, ChildIn
<1>4. /\ o \in Sides /\ Other(o) = s /\ o # s /\ \A t \in Sides : t = s \/ t = o
      /\ \A i, j \in Int : Beyond(s, i, j) <=> Beyond(o, j, i)
      /\ \A i, j, k \in Int : Beyond(o, i, j) /\ Beyond(o, j, k) => Beyond(o, i, k)
      /\ \A i, j, k \in Int : Beyond(s, i, j) /\ Beyond(s, j, k) => Beyond(s, i, k)
  BY <1>0 DEF Sides, Other, Beyond
<1>5. /\ \A m \in Linked, t \in Sides : Child(m, t)' =
           IF m = n /\ t = s THEN inner ELSE IF m = c /\ t = o THEN n
           ELSE IF Child(m, t) = n THEN c ELSE Child(m, t)
      /\ link'[Root] = IF link[Root] = n THEN c ELSE link[Root]
  BY <1>0, RotateLinks
<1>6. PICK f : f = [m \in Linked |->
         IF m = c THEN K[n] ELSE IF m = n THEN {data[n]} \cup KeysAt(K, inner) \cup KeysAt(K, w) ELSE K[m]]
  OBVIOUS
<1>7. /\ K[n] = {data[n]} \cup K[c] \cup KeysAt(K, w)
      /\ K[c] = {data[c]} \cup KeysAt(K, inner) \cup KeysAt(K, outer)
  BY <1>0, <1>1, KeysFacts DEF KeysAt
<1>8. /\ \A j \in K[c] : Beyond(s, j, data[n])
      /\ \A j \in KeysAt(K, w) : Beyond(o, j, data[n])
      /\ \A j \in KeysAt(K, inner) : Beyond(o, j, data[c])
      /\ \A j \in KeysAt(K, outer) : Beyond(s, j, data[c])
  BY <1>0, <1>1, <1>4, KeysFacts DEF KeysAt
<1>9. /\ data[n] \in Int /\ data[c] \in Int
      /\ K[n] \subseteq Int
  BY <1>1, LinkedFacts, KeysStored
<1>10. \A m \in Linked, t \in Sides :
         /\ Child(m, t) # NULL => Child(m, t) \in Linked
         /\ \A j \in KeysAt(K, Child(m, t)) : Beyond(t, j, data[m])
         /\ K[m] = {data[m]} \cup KeysAt(K, Child(m, t)) \cup KeysAt(K, Child(m, Other(t)))
  BY ChildIn, KeysFacts
<1>11. link[Root] # c /\ (link[Root] # NULL => link[Root] \in Linked)
  <2>1. Root \in Slots(Linked)
    BY DEF Slots
  <2> QED
    BY <1>1, <2>1, SlotFacts DEF WellLinked
<1>12. KeysAt(K, link[Root]) = Stored
  BY DEF Ordered
<1>13. \A m \in Linked \ {n, c}, t \in Sides : KeysAt(f, Child(m, t)') = KeysAt(K, Child(m, t))
  BY <1>1, <1>3, <1>5, <1>6, <1>10 DEF KeysAt
<1>14. /\ KeysAt(f, Child(n, s)') = KeysAt(K, inner)
       /\ KeysAt(f, Child(n, o)') = KeysAt(K, w)
  <2>1. Child(n, s)' = inner /\ Child(n, o)' = w
    BY <1>1, <1>2, <1>4, <1>5, <1>0
  <2> QED
    BY <2>1, <1>1, <1>2, <1>6 DEF KeysAt
<1>15. /\ KeysAt(f, Child(c, s)') = KeysAt(K, outer)
       /\ KeysAt(f, Child(c, o)') = {data[n]} \cup KeysAt(K, inner) \cup KeysAt(K, w)
  <2>1. Child(c, s)' = outer /\ Child(c, o)' = n
    BY <1>1, <1>2, <1>4, <1>5, <1>0
  <2> QED
    BY <2>1, <1>1, <1>2, <1>6 DEF KeysAt
<1>16. ASSUME NEW m \in Linked
       PROVE  \E t \in Sides :
                f[m] = {data[m]} \cup KeysAt(f, Child(m, t)') \cup KeysAt(f, Child(m, Other(t))')
  <2>1. CASE m = n
    <3>1. f[n] = {data[n]} \cup KeysAt(f, Child(n, s)') \cup KeysAt(f, Child(n, o)')
      BY <1>1, <1>6, <1>14
    <3> QED
      BY <3>1, <2>1, <1>0
  <2>2. CASE m = c
    <3>1. f[c] = {data[c]} \cup KeysAt(f, Child(c, s)') \cup KeysAt(f, Child(c, o)')
      BY <1>1, <1>6, <1>7, <1>15
    <3> QED
      BY <3>1, <2>2, <1>0
  <2>3. CASE m \notin {n, c}
    <3>1. f[m] = {data[m]} \cup KeysAt(f, Child(m, s)') \cup KeysAt(f, Child(m, o)')
      BY <2>3, <1>4, <1>6, <1>10, <1>13, <1>0
    <3> QED
      BY <3>1, <1>0
  <2> QED
    BY <2>1, <2>2, <2>3
<1>17. ASSUME NEW m \in Linked, NEW t \in Sides, NEW j \in KeysAt(f, Child(m, t)')
       PROVE  Beyond(t, j, data[m])
  <2>1. CASE m = n
    BY <2>1, <1>4, <1>7, <1>8, <1>9, <1>14, <1>17
  <2>2. CASE m = c /\ t = s
    BY <2>2, <1>8, <1>15, <1>17
  <2>3. CASE m = c /\ t = o
    <3>1. Beyond(o, data[n], data[c])
      BY <1>4, <1>7, <1>8, <1>9
    <3>2. j = data[n] \/ j \in KeysAt(K, inner) \/ j \in KeysAt(K, w)
      BY <2>3, <1>15, <1>17
    <3> QED
      BY <3>1, <3>2, <2>3, <1>4, <1>7, <1>8, <1>9
  <2>4. CASE m \notin {n, c}
    BY <2>4, <1>10, <1>13, <1>17
  <2> QED
    BY <2>1, <2>2, <2>3, <2>4, <1>4
<1>18. KeysAt(f, link'[Root]) = Stored
  BY <1>1, <1>5, <1>6, <1>11, <1>12 DEF KeysAt
<1>19. /\ \A x, y \in nodes' : data'[x] = data'[y] => x = y
       /\ \A x \in nodes' : data'[x] \in Keys
  BY DEF Ordered
<1>20. Ordered(f)'
  <2>1. f = [m \in Linked' |-> f[m]]
    BY <1>6
  <2>2. \A m \in Linked' : \E t \in Sides :
          f[m] = {data'[m]} \cup KeysAt(f, Child(m, t)') \cup KeysAt(f, Child(m, Other(t))')
    BY <1>16
  <2>3. \A m \in Linked', t \in Sides : \A j \in KeysAt(f, Child(m, t)') : Beyond(t, j, data'[m])
    BY <1>17
  <2>4. KeysAt(f, link'[Root]) = {data'[m] : m \in Linked'}
    BY <1>18 DEF Stored
  <2> QED
    BY <2>1, <2>2, <2>3, <2>4, <1>19, OrderedNext
<1> QED
  BY <1>6, <1>20, <1>0

\* A double rotation keeps the order, and the keys below every other node.
LEMMA DoubleRotateKeys ==
  ASSUME NEW K, NEW h, Tree(K, h), NEW n \in Linked, NEW s \in Sides, Child(n, s) # NULL,
         Child(Child(n, s), Other(s)) # NULL,
         DoubleRotate(n, s), Linked' = Linked, nodes' = nodes, data' = data
  PROVE  \E f : /\ Ordered(f)'
                /\ \A m \in Linked \ {n, Child(n, s), Child(Child(n, s), Other(s))} : f[m] = K[m]
<1> USE DEF Tree
<1>0. PICK o, c, g, near, far, outer, w :
        /\ o = Other(s) /\ c = Child(n, s) /\ g = Child(c, o) /\ near = Child(g, s)
        /\ far = Child(g, o) /\ outer = Child(c, s) /\ w = Child(n, o)
  OBVIOUS
<1>1. /\ o \in Sides /\ Other(o) = s /\ o # s /\ \A t \in Sides : t = s \/ t = o
      /\ \A i, j \in Int : Beyond(s, i, j) <=> Beyond(o, j, i)
      /\ \A i, j, k \in Int : Beyond(o, i, j) /\ Beyond(o, j, k) => Beyond(o, i, k)
      /\ \A i, j, k \in Int : Beyond(s, i, j) /\ Beyond(s, j, k) => Beyond(s, i, k)
  BY <1>0 DEF Sides, Other, Beyond
<1>2. /\ c \in Linked /\ parent[c] = n /\ n # NULL /\ c # NULL /\ NULL \notin Linked
      /\ g # NULL /\ (outer # NULL => outer \in Linked) /\ (w # NULL => w \in Linked)
  BY <1>0, <1>1, ChildIn, LinkedFacts
<1>3. /\ g \in Linked /\ parent[g] = c
      /\ (near # NULL => near \in Linked) /\ (far # NULL => far \in Linked)
  BY <1>0, <1>1, <1>2, ChildIn
<1>4. /\ c # n /\ g \notin {n, c} /\ near \notin {n, c, g} /\ far \notin {n, c, g}
      /\ outer \notin {n, c, g} /\ w # n /\ w # c
  <2>1. c # n /\ g \notin {n, c} /\ near \notin {n, c, g} /\ far \notin {n, c, g}
    BY <1>0, <1>1, <1>2, Generations, GreatGrandchild
  <2>2. outer \notin {n, c} /\ g # outer /\ w # c
    BY <1>0, <1>1, <1>2, Generations
  <2>3. w # n
    BY <1>0, <1>1, <1>2, Generations
  <2> QED
    BY <2>1, <2>2, <2>3
<1>5. w # g
  BY <1>0, <1>1, <1>2, <1>3, <1>4, ChildIn
<1>6. \A m \in Linked, t \in Sides : (m # n => Child(m, t) # c) /\ (m # c => Child(m, t) # g)
  BY <1>2, <1>3, ChildIn
<1>7. /\ \A m \in Linked, t \in Sides : Child(m, t)' =
           IF m = n /\ t = s THEN far ELSE IF m = c /\ t = o THEN near
           ELSE IF m = g THEN IF t = s THEN c ELSE n
           ELSE IF Child(m, t) = n THEN g ELSE Child(m, t)
      /\ link'[Root] = IF link[Root] = n THEN g ELSE link[Root]
  BY <1>0, DoubleRotateLinks
<1>8. PICK f : f = [m \in Linked |->
         IF m = g THEN K[n] ELSE IF m = n THEN {data[n]} \cup KeysAt(K, far) \cup KeysAt(K, w)
         ELSE IF m = c THEN {data[c]} \cup KeysAt(K, near) \cup KeysAt(K, outer) ELSE K[m]]
  OBVIOUS
<1>9. /\ K[n] = {data[n]} \cup K[c] \cup KeysAt(K, w)
      /\ K[c] = {data[c]} \cup K[g] \cup KeysAt(K, outer)
      /\ K[g] = {data[g]} \cup KeysAt(K, near) \cup KeysAt(K, far)
  BY <1>0, <1>1, <1>2, <1>3, KeysFacts DEF KeysAt
<1>10. /\ \A j \in K[c] : Beyond(s, j, data[n])
       /\ \A j \in KeysAt(K, w) : Beyond(o, j, data[n])
       /\ \A j \in K[g] : Beyond(o, j, data[c])
       /\ \A j \in KeysAt(K, outer) : Beyond(s, j, data[c])
       /\ \A j \in KeysAt(K, near) : Beyond(s, j, data[g])
       /\ \A j \in KeysAt(K, far) : Beyond(o, j, data[g])
  BY <1>0, <1>1, <1>2, <1>3, KeysFacts DEF KeysAt
<1>11. data[n] \in Int /\ data[c] \in Int /\ data[g] \in Int /\ K[n] \subseteq Int
  BY <1>2, <1>3, LinkedFacts, KeysStored
<1>12. \A m \in Linked, t \in Sides :
         /\ Child(m, t) # NULL => Child(m, t) \in Linked
         /\ \A j \in KeysAt(K, Child(m, t)) : Beyond(t, j, data[m])
         /\ K[m] = {data[m]} \cup KeysAt(K, Child(m, t)) \cup KeysAt(K, Child(m, Other(t)))
  BY ChildIn, KeysFacts
<1>13. link[Root] # c /\ link[Root] # g /\ (link[Root] # NULL => link[Root] \in Linked)
  <2>1. Root \in Slots(Linked)
    BY DEF Slots
  <2> QED
    BY <1>2, <1>3, <2>1, SlotFacts DEF WellLinked
<1>14. KeysAt(K, link[Root]) = Stored
  BY DEF Ordered
<1>15. \A m \in Linked \ {n, c, g}, t \in Sides : KeysAt(f, Child(m, t)') = KeysAt(K, Child(m, t))
  BY <1>2, <1>3, <1>6, <1>7, <1>8, <1>12 DEF KeysAt
<1>16. /\ KeysAt(f, Child(n, s)') = KeysAt(K, far)
       /\ KeysAt(f, Child(n, o)') = KeysAt(K, w)
  <2>1. Child(n, s)' = far /\ Child(n, o)' = w
    BY <1>0, <1>1, <1>2, <1>4, <1>7
  <2> QED
    BY <2>1, <1>2, <1>3, <1>4, <1>5, <1>8 DEF KeysAt
<1>17. /\ KeysAt(f, Child(c, s)') = KeysAt(K, outer)
       /\ KeysAt(f, Child(c, o)') = KeysAt(K, near)
  <2>1. Child(c, s)' = outer /\ Child(c, o)' = near
    BY <1>0, <1>1, <1>2, <1>4, <1>7
  <2> QED
    BY <2>1, <1>2, <1>3, <1>4, <1>8 DEF KeysAt
<1>18. /\ KeysAt(f, Child(g, s)') = {data[c]} \cup KeysAt(K, near) \cup KeysAt(K, outer)
       /\ KeysAt(f, Child(g, o)') = {data[n]} \cup KeysAt(K, far) \cup KeysAt(K, w)
  <2>1. Child(g, s)' = c /\ Child(g, o)' = n
    BY <1>0, <1>1, <1>3, <1>4, <1>7
  <2> QED
    BY <2>1, <1>2, <1>3, <1>4, <1>8 DEF KeysAt
<1>19. ASSUME NEW m \in Linked
       PROVE  \E t \in Sides :
                f[m] = {data[m]} \cup KeysAt(f, Child(m, t)') \cup KeysAt(f, Child(m, Other(t))')
  <2>1. f[m] = {data[m]} \cup KeysAt(f, Child(m, s)') \cup KeysAt(f, Child(m, o)')
    <3>1. CASE m = n
      BY <3>1, <1>4, <1>8, <1>16
    <3>2. CASE m = c
      BY <3>2, <1>4, <1>8, <1>17
    <3>3. CASE m = g
      BY <3>3, <1>8, <1>9, <1>18
    <3>4. CASE m \notin {n, c, g}
      BY <3>4, <1>0, <1>1, <1>8, <1>12, <1>15
    <3> QED
      BY <3>1, <3>2, <3>3, <3>4
  <2> QED
    BY <2>1, <1>0
<1>20. ASSUME NEW m \in Linked, NEW t \in Sides, NEW j \in KeysAt(f, Child(m, t)')
       PROVE  Beyond(t, j, data[m])
  <2>1. CASE m = n
    BY <2>1, <1>1, <1>9, <1>10, <1>16, <1>20
  <2>2. CASE m = c
    BY <2>2, <1>1, <1>9, <1>10, <1>17, <1>20
  <2>3. CASE m = g /\ t = s
    <3>1. Beyond(s, data[c], data[g])
      BY <1>1, <1>9, <1>10, <1>11
    <3>2. j = data[c] \/ j \in KeysAt(K, near) \/ j \in KeysAt(K, outer)
      BY <2>3, <1>18, <1>20
    <3> QED
      BY <3>1, <3>2, <2>3, <1>1, <1>9, <1>10, <1>11
  <2>4. CASE m = g /\ t = o
    <3>1. Beyond(o, data[n], data[g])
      BY <1>1, <1>9, <1>10, <1>11
    <3>2. j = data[n] \/ j \in KeysAt(K, far) \/ j \in KeysAt(K, w)
      BY <2>4, <1>18, <1>20
    <3> QED
      BY <3>1, <3>2, <2>4, <1>1, <1>9, <1>10, <1>11
  <2>5. CASE m \notin {n, c, g}
    BY <2>5, <1>12, <1>15, <1>20
  <2> QED
    BY <2>1, <2>2, <2>3, <2>4, <2>5, <1>1
<1>21. KeysAt(f, link'[Root]) = Stored
  BY <1>2, <1>3, <1>7, <1>8, <1>13, <1>14 DEF KeysAt
<1>22. /\ \A x, y \in nodes' : data'[x] = data'[y] => x = y
       /\ \A x \in nodes' : data'[x] \in Keys
  BY DEF Ordered
<1>23. Ordered(f)'
  <2>1. f = [m \in Linked' |-> f[m]]
    BY <1>8
  <2>2. \A m \in Linked' : \E t \in Sides :
          f[m] = {data'[m]} \cup KeysAt(f, Child(m, t)') \cup KeysAt(f, Child(m, Other(t))')
    BY <1>19
  <2>3. \A m \in Linked', t \in Sides : \A j \in KeysAt(f, Child(m, t)') : Beyond(t, j, data'[m])
    BY <1>20
  <2>4. KeysAt(f, link'[Root]) = {data'[m] : m \in Linked'}
    BY <1>21 DEF Stored
  <2> QED
    BY <2>1, <2>2, <2>3, <2>4, <1>22, OrderedNext
<1> QED
  BY <1>8, <1>23, <1>0

\* What the order says at each node, with the side as a parameter.
LEMMA NodeFacts ==
  ASSUME TypeOK, WellLinked, NEW K, Ordered(K)
  PROVE  /\ \A m \in Linked, t \in Sides :
              /\ Child(m, t) # NULL => Child(m, t) \in Linked /\ parent[Child(m, t)] = m
              /\ \A j \in KeysAt(K, Child(m, t)) : Beyond(t, j, data[m])
              /\ K[m] = {data[m]} \cup KeysAt(K, Child(m, t)) \cup KeysAt(K, Child(m, Other(t)))
              /\ KeysAt(K, Child(m, t)) \subseteq K[m] /\ data[m] \notin KeysAt(K, Child(m, t))
         /\ \A m, n \in Linked : data[m] = data[n] => m = n
         /\ \A m \in Linked : data[m] \in K[m] /\ data[m] \in Int
         /\ NULL \notin Linked /\ Linked \subseteq Addresses
         /\ link[Root] # NULL => link[Root] \in Linked
         /\ KeysAt(K, link[Root]) = Stored
<1>1. Root \in Slots(Linked)
  BY DEF Slots
<1>2. \A m, n \in Linked : data[m] = data[n] => m = n
  BY LinkedFacts DEF Ordered
<1>3. \A m \in Linked : data[m] \in K[m] /\ data[m] \in Int
  BY LinkedFacts, KeysFacts
<1>4. \A m \in Linked, t \in Sides :
        Child(m, t) # NULL => Child(m, t) \in Linked /\ parent[Child(m, t)] = m
  BY ChildIn
<1>5. \A m \in Linked, t \in Sides :
        /\ \A j \in KeysAt(K, Child(m, t)) : Beyond(t, j, data[m])
        /\ K[m] = {data[m]} \cup KeysAt(K, Child(m, t)) \cup KeysAt(K, Child(m, Other(t)))
        /\ KeysAt(K, Child(m, t)) \subseteq K[m] /\ data[m] \notin KeysAt(K, Child(m, t))
  BY KeysFacts
<1>6. /\ link[Root] # NULL => link[Root] \in Linked
      /\ KeysAt(K, link[Root]) = Stored
  BY <1>1 DEF WellLinked, Ordered
<1> QED
  BY <1>2, <1>3, <1>4, <1>5, <1>6, LinkedFacts

\* A new leaf is in order with all the nodes the descent has passed.
LEMMA NewKeys ==
  ASSUME NEW K, NEW h, Tree(K, h), NEW a, NEW k \in Keys, NEW n \in Linked, NEW s \in Sides,
         Child(n, s) = NULL, Node_New(a, k, <<n, s>>), Linked = nodes, Linked' = nodes',
         Beyond(s, k, data[n]), k \notin Stored,
         \A x \in Linked \ {n} : data[n] \in K[x] =>
           k # data[x] /\ (k < data[x] <=> data[n] < data[x])
  PROVE  \E f : Ordered(f)'
<1> USE DEF Tree
<1>1. /\ Linked' = Linked \cup {a} /\ a \notin Linked /\ NULL \notin Linked /\ a # NULL
      /\ \A m \in Linked, t \in Sides : Child(m, t)' = IF <<m, t>> = <<n, s>> THEN a ELSE Child(m, t)
      /\ \A t \in Sides : Child(a, t)' = NULL
      /\ link'[Root] = link[Root] /\ data' = [data EXCEPT ![a] = k] /\ a \in Addresses
  <2>1. <<n, s>> \in Slots(Linked) /\ <<n, s>> # Root
    BY SlotsFacts
  <2> QED
    BY <2>1, NewLinks, LinkedFacts, TreeAssumption DEF Child
<1>2. \A m \in Linked' : data'[m] = IF m = a THEN k ELSE data[m]
  BY <1>1, LinkedFacts DEF TypeOK
<1>3. PICK f : f = [m \in Linked \cup {a} |->
        IF m = a THEN {k} ELSE IF data[n] \in K[m] THEN K[m] \cup {k} ELSE K[m]]
  OBVIOUS
<1>4. \A m \in Linked, t \in Sides :
         /\ Child(m, t) # NULL => Child(m, t) \in Linked
         /\ \A j \in KeysAt(K, Child(m, t)) : Beyond(t, j, data[m])
         /\ K[m] = {data[m]} \cup KeysAt(K, Child(m, t)) \cup KeysAt(K, Child(m, Other(t)))
         /\ KeysAt(K, Child(m, t)) \subseteq K[m]
  BY ChildIn, KeysFacts
<1>5. /\ \A m \in Linked : data[m] \in Int /\ (data[m] = data[n] => m = n)
      /\ k \in Int /\ data[n] \in K[n] /\ Other(s) \in Sides /\ Other(s) # s
      /\ \A t \in Sides : (t = s \/ t = Other(s)) /\ data[n] \notin KeysAt(K, Child(n, t))
  BY LinkedFacts, KeysFacts, SidesFacts, TreeAssumption DEF Ordered, Sides
<1>6. \A m \in Linked, t \in Sides : m # n \/ t # s =>
        KeysAt(f, Child(m, t)') =
          IF data[n] \in KeysAt(K, Child(m, t)) THEN KeysAt(K, Child(m, t)) \cup {k} ELSE KeysAt(K, Child(m, t))
  <2> SUFFICES ASSUME NEW m \in Linked, NEW t \in Sides, m # n \/ t # s
               PROVE  KeysAt(f, Child(m, t)') =
                        IF data[n] \in KeysAt(K, Child(m, t)) THEN KeysAt(K, Child(m, t)) \cup {k}
                        ELSE KeysAt(K, Child(m, t))
    OBVIOUS
  <2>1. PICK y : y = Child(m, t) /\ y = Child(m, t)'
    BY <1>1
  <2>2. y # NULL => y \in Linked /\ y # a
    BY <2>1, <1>1, <1>4
  <2>3. KeysAt(f, y) = IF data[n] \in KeysAt(K, y) THEN KeysAt(K, y) \cup {k} ELSE KeysAt(K, y)
    BY <2>2, <1>3 DEF KeysAt
  <2> QED
    BY <2>1, <2>3
<1>7. KeysAt(f, Child(n, s)') = {k} /\ KeysAt(K, Child(n, s)) = {}
  BY <1>1, <1>3 DEF KeysAt
<1>8. \A t \in Sides : KeysAt(f, Child(a, t)') = {}
  BY <1>1 DEF KeysAt
<1>9. ASSUME NEW m \in Linked \cup {a}
      PROVE  \E t \in Sides :
               f[m] = {data'[m]} \cup KeysAt(f, Child(m, t)') \cup KeysAt(f, Child(m, Other(t))')
  <2>1. CASE m = a
    BY <2>1, <1>1, <1>2, <1>3, <1>5, <1>8
  <2>2. CASE m = n
    <3>1. f[n] = K[n] \cup {k} /\ data'[n] = data[n]
      BY <1>1, <1>2, <1>3, <1>5
    <3>2. KeysAt(f, Child(n, Other(s))') = KeysAt(K, Child(n, Other(s)))
      BY <1>5, <1>6
    <3>3. f[n] = {data'[n]} \cup KeysAt(f, Child(n, s)') \cup KeysAt(f, Child(n, Other(s))')
      BY <3>1, <3>2, <1>4, <1>7
    <3> QED
      BY <3>3, <2>2
  <2>3. CASE m \in Linked \ {n}
    <3>1. f[m] = {data[m]} \cup KeysAt(f, Child(m, s)') \cup KeysAt(f, Child(m, Other(s))')
      <4>1. /\ K[m] = {data[m]} \cup KeysAt(K, Child(m, s)) \cup KeysAt(K, Child(m, Other(s)))
            /\ f[m] = IF data[n] \in K[m] THEN K[m] \cup {k} ELSE K[m]
            /\ data[m] # data[n]
        BY <2>3, <1>1, <1>3, <1>4, <1>5
      <4>2. \A t \in Sides : KeysAt(f, Child(m, t)') =
              IF data[n] \in KeysAt(K, Child(m, t)) THEN KeysAt(K, Child(m, t)) \cup {k} ELSE KeysAt(K, Child(m, t))
        BY <2>3, <1>6
      <4> QED
        BY <4>1, <4>2, <1>5
    <3>2. data'[m] = data[m]
      BY <2>3, <1>1, <1>2
    <3> QED
      BY <3>1, <3>2
  <2> QED
    BY <2>1, <2>2, <2>3
<1>10. ASSUME NEW m \in Linked \cup {a}, NEW t \in Sides, NEW j \in KeysAt(f, Child(m, t)')
       PROVE  Beyond(t, j, data'[m])
  <2>1. CASE m = a
    BY <2>1, <1>8, <1>10
  <2>2. CASE m = n
    <3>1. data'[n] = data[n]
      BY <1>1, <1>2
    <3>2. CASE t = s
      BY <3>1, <3>2, <2>2, <1>7, <1>10
    <3>3. CASE t # s
      BY <3>1, <3>3, <2>2, <1>4, <1>5, <1>6, <1>10
    <3> QED
      BY <3>2, <3>3
  <2>3. CASE m \in Linked \ {n}
    <3>1. data'[m] = data[m]
      BY <2>3, <1>1, <1>2
    <3>2. CASE j \in KeysAt(K, Child(m, t))
      BY <3>1, <3>2, <2>3, <1>4
    <3>3. CASE j = k /\ data[n] \in KeysAt(K, Child(m, t))
      <4>1. Beyond(t, data[n], data[m]) /\ data[n] \in K[m]
        BY <3>3, <2>3, <1>4
      <4>2. k # data[m] /\ (k < data[m] <=> data[n] < data[m])
        BY <4>1, <2>3
      <4> QED
        BY <4>1, <4>2, <3>1, <3>3, <2>3, <1>5 DEF Beyond
    <3> QED
      BY <3>2, <3>3, <2>3, <1>6, <1>10
  <2> QED
    BY <2>1, <2>2, <2>3
<1>11. KeysAt(f, link'[Root]) = {data'[m] : m \in Linked \cup {a}}
  <2>1. KeysAt(K, link[Root]) = Stored /\ data[n] \in Stored
    BY DEF Ordered, Stored
  <2>2. link[Root] \in Linked /\ K[link[Root]] = Stored
    <3>1. Root \in Slots(Linked)
      BY DEF Slots
    <3> QED
      BY <2>1, <3>1 DEF WellLinked, KeysAt
  <2>3. KeysAt(f, link'[Root]) = Stored \cup {k}
    BY <2>1, <2>2, <1>1, <1>3 DEF KeysAt
  <2>4. {data'[m] : m \in Linked \cup {a}} = Stored \cup {k}
    BY <1>1, <1>2 DEF Stored
  <2> QED
    BY <2>3, <2>4
<1>12. /\ \A x, y \in nodes' : data'[x] = data'[y] => x = y
       /\ \A x \in nodes' : data'[x] \in Keys
  BY <1>1, <1>2 DEF Ordered, Stored
<1>13. Ordered(f)'
  <2>1. f = [m \in Linked' |-> f[m]]
    BY <1>1, <1>3
  <2>2. \A m \in Linked' : \E t \in Sides :
          f[m] = {data'[m]} \cup KeysAt(f, Child(m, t)') \cup KeysAt(f, Child(m, Other(t))')
    BY <1>1, <1>9
  <2>3. \A m \in Linked', t \in Sides : \A j \in KeysAt(f, Child(m, t)') : Beyond(t, j, data'[m])
    BY <1>1, <1>10
  <2>4. KeysAt(f, link'[Root]) = {data'[m] : m \in Linked'}
    BY <1>1, <1>11
  <2> QED
    BY <2>1, <2>2, <2>3, <2>4, <1>12, OrderedNext
<1> QED
  BY <1>13

\* Without one of its leaves the tree is in order.
LEMMA CutKeys ==
  ASSUME NEW K, NEW h, Tree(K, h), NEW n \in Linked,
         Child(n, "left") = NULL, Child(n, "right") = NULL,
         link' = [link EXCEPT ![SlotOf(n)] = NULL], parent' = parent, Linked' = Linked \ {n},
         nodes' = nodes, data' = data
  PROVE  \E f : Ordered(f)'
<1> USE DEF Tree
<1>1. /\ \A m \in Linked \ {n}, t \in Sides :
           Child(m, t)' = IF Child(m, t) = n THEN NULL ELSE Child(m, t)
      /\ link'[Root] = IF link[Root] = n THEN NULL ELSE link[Root]
  BY CutLinks
<1>2. PICK f : f = [m \in Linked \ {n} |-> K[m] \ {data[n]}]
  OBVIOUS
<1>3. \A m \in Linked, t \in Sides :
         /\ Child(m, t) # NULL => Child(m, t) \in Linked
         /\ \A j \in KeysAt(K, Child(m, t)) : Beyond(t, j, data[m])
         /\ K[m] = {data[m]} \cup KeysAt(K, Child(m, t)) \cup KeysAt(K, Child(m, Other(t)))
         /\ data[m] = data[n] => m = n
         /\ Other(t) \in Sides
  BY NodeFacts, SidesFacts
<1>4. K[n] = {data[n]} /\ n # NULL
  BY <1>3, LinkedFacts DEF KeysAt, Sides, Other
<1>5. \A m \in Linked \ {n}, t \in Sides : KeysAt(f, Child(m, t)') = KeysAt(K, Child(m, t)) \ {data[n]}
  BY <1>1, <1>2, <1>3, <1>4 DEF KeysAt
<1>6. KeysAt(f, link'[Root]) = {data[m] : m \in Linked \ {n}}
  <2>1. KeysAt(K, link[Root]) = Stored
    BY DEF Ordered
  <2>2. link[Root] # NULL => link[Root] \in Linked
    <3>1. Root \in Slots(Linked)
      BY DEF Slots
    <3> QED
      BY <3>1 DEF WellLinked
  <2>3. {data[m] : m \in Linked \ {n}} = Stored \ {data[n]}
    BY <1>3, SidesFacts DEF Stored, Sides
  <2> QED
    BY <2>1, <2>2, <2>3, <1>1, <1>2, <1>4 DEF KeysAt
<1>7. Ordered(f)'
  <2>1. f = [m \in Linked' |-> f[m]]
    BY <1>2
  <2>2. \A m \in Linked' : \E t \in Sides :
          f[m] = {data'[m]} \cup KeysAt(f, Child(m, t)') \cup KeysAt(f, Child(m, Other(t))')
    <3> SUFFICES ASSUME NEW m \in Linked \ {n}, NEW t \in Sides
                 PROVE  f[m] = {data[m]} \cup KeysAt(f, Child(m, t)') \cup KeysAt(f, Child(m, Other(t))')
      BY DEF Sides
    <3>1. data[m] # data[n] /\ f[m] = K[m] \ {data[n]}
      BY <1>2, <1>3
    <3> QED
      BY <3>1, <1>3, <1>5
  <2>3. \A m \in Linked', t \in Sides : \A j \in KeysAt(f, Child(m, t)') : Beyond(t, j, data'[m])
    BY <1>3, <1>5
  <2>4. KeysAt(f, link'[Root]) = {data'[m] : m \in Linked'}
    BY <1>6
  <2>5. /\ \A x, y \in nodes' : data'[x] = data'[y] => x = y
        /\ \A x \in nodes' : data'[x] \in Keys
    BY DEF Ordered
  <2> QED
    BY <2>1, <2>2, <2>3, <2>4, <2>5, OrderedNext
<1> QED
  BY <1>7

\* The first node is in order.
LEMMA NewRootKeys ==
  ASSUME NEW K, NEW h, Tree(K, h), NEW a, NEW k \in Keys, link[Root] = NULL,
         Node_New(a, k, Root), Linked = nodes, Linked' = nodes'
  PROVE  Linked = {} /\ \E f : Ordered(f)'
<1> USE DEF Tree
<1>1. Linked = {}
  BY NodeFacts DEF Stored, KeysAt
<1>2. /\ Linked' = {a} /\ nodes' = {a} /\ a # NULL /\ a \in Addresses
      /\ \A t \in Sides : Child(a, t)' = NULL
      /\ link'[Root] = a /\ data' = [data EXCEPT ![a] = k]
  <2>1. Root \in Slots(Linked)
    BY DEF Slots
  <2> QED
    BY <1>1, <2>1, NewLinks, TreeAssumption DEF Node_New
<1>3. data'[a] = k
  BY <1>2 DEF TypeOK
<1>4. PICK f : f = [m \in {a} |-> {k}]
  OBVIOUS
<1>5. Ordered(f)'
  <2>1. f = [m \in Linked' |-> f[m]]
    BY <1>2, <1>4
  <2>2. \A m \in Linked' : \E t \in Sides :
          f[m] = {data'[m]} \cup KeysAt(f, Child(m, t)') \cup KeysAt(f, Child(m, Other(t))')
    BY <1>2, <1>3, <1>4 DEF KeysAt, Sides, Other
  <2>3. \A m \in Linked', t \in Sides : \A j \in KeysAt(f, Child(m, t)') : Beyond(t, j, data'[m])
    BY <1>2 DEF KeysAt
  <2>4. KeysAt(f, link'[Root]) = {data'[m] : m \in Linked'}
    BY <1>2, <1>3, <1>4 DEF KeysAt
  <2>5. /\ \A x, y \in nodes' : data'[x] = data'[y] => x = y
        /\ \A x \in nodes' : data'[x] \in Keys
    BY <1>2, <1>3
  <2> QED
    BY <2>1, <2>2, <2>3, <2>4, <2>5, OrderedNext
<1> QED
  BY <1>1, <1>5

\* With a node's contents replaced by its only child's the tree is in order.
LEMMA ReplaceKeys ==
  ASSUME NEW K, NEW h, Tree(K, h), NEW n \in Linked, NEW s \in Sides,
         Child(n, s) # NULL, Child(n, Other(s)) = NULL,
         \A t \in Sides : Child(Child(n, s), t) = NULL,
         Tree_Replace(n, Child(n, s)), Linked' = Linked \ {Child(n, s)}, nodes' = nodes
  PROVE  \E f : Ordered(f)'
<1> USE DEF Tree
<1>0. PICK o : o = Child(n, s)
  OBVIOUS
<1>1. /\ \A m \in Linked \ {o}, t \in Sides : Child(m, t)' = IF m = n THEN NULL ELSE Child(m, t)
      /\ link'[Root] = link[Root]
  BY <1>0, ReplaceLinks
<1>2. /\ o \in Linked /\ o # n /\ parent[o] = n /\ o # NULL
  BY <1>0, NodeFacts, Generations
<1>3. data' = [data EXCEPT ![n] = data[o], ![o] = data[n]]
  BY <1>0 DEF Tree_Replace
<1>4. \A m \in Addresses : data'[m] = IF m = n THEN data[o] ELSE IF m = o THEN data[n] ELSE data[m]
  BY <1>2, <1>3, LinkedFacts DEF TypeOK
<1>5. PICK f : f = [m \in Linked \ {o} |-> K[m] \ {data[n]}]
  OBVIOUS
<1>6. /\ \A m \in Linked, t \in Sides :
           /\ Child(m, t) # NULL => Child(m, t) \in Linked /\ parent[Child(m, t)] = m
           /\ \A j \in KeysAt(K, Child(m, t)) : Beyond(t, j, data[m])
           /\ K[m] = {data[m]} \cup KeysAt(K, Child(m, t)) \cup KeysAt(K, Child(m, Other(t)))
      /\ \A m, p \in Linked : data[m] = data[p] => m = p
      /\ NULL \notin Linked /\ Linked \subseteq Addresses
      /\ link[Root] # NULL => link[Root] \in Linked
      /\ KeysAt(K, link[Root]) = Stored
  BY NodeFacts
<1>7. K[o] = {data[o]}
  <2>1. Child(o, s) = NULL /\ Child(o, Other(s)) = NULL
    BY <1>0, SidesFacts
  <2> QED
    BY <2>1, <1>2, <1>6 DEF KeysAt
<1>8. K[n] = {data[n], data[o]}
  BY <1>0, <1>2, <1>6, <1>7 DEF KeysAt
<1>9. \A m \in Linked \ {n, o}, t \in Sides : KeysAt(f, Child(m, t)') = KeysAt(K, Child(m, t)) \ {data[n]}
  <2> TAKE m \in Linked \ {n, o}, t \in Sides
  <2>1. PICK y : y = Child(m, t)
    OBVIOUS
  <2>2. y # NULL => y \in Linked /\ parent[y] = m
    BY <2>1, <1>6
  <2>4. Child(m, t)' = y
    BY <2>1, <1>1
  <2>3. KeysAt(f, y) = KeysAt(K, y) \ {data[n]}
    BY <2>2, <1>2, <1>5 DEF KeysAt
  <2> QED
    BY <2>1, <2>3, <2>4
<1>10. \A t \in Sides : KeysAt(f, Child(n, t)') = {}
  BY <1>1, <1>2 DEF KeysAt
<1>11. KeysAt(f, link'[Root]) = {data'[m] : m \in Linked \ {o}}
  <2>1. {data'[m] : m \in Linked \ {o}} = Stored \ {data[n]}
    BY <1>2, <1>4, <1>6 DEF Stored
  <2>2. link[Root] # o
    BY <1>2, <1>6, SlotFacts
  <2> QED
    BY <2>1, <2>2, <1>1, <1>5, <1>6 DEF KeysAt
<1>12. Ordered(f)'
  <2>1. f = [m \in Linked' |-> f[m]]
    BY <1>0, <1>5
  <2>2. \A m \in Linked' : \E t \in Sides :
          f[m] = {data'[m]} \cup KeysAt(f, Child(m, t)') \cup KeysAt(f, Child(m, Other(t))')
    <3> SUFFICES ASSUME NEW m \in Linked \ {o}
                 PROVE  f[m] = {data'[m]} \cup KeysAt(f, Child(m, s)') \cup KeysAt(f, Child(m, Other(s))')
      BY <1>0
    <3>1. CASE m = n
      <4>1. KeysAt(f, Child(n, s)') = {} /\ KeysAt(f, Child(n, Other(s))') = {}
        BY <1>10, SidesFacts
      <4>2. f[n] = {data[o]} /\ data'[n] = data[o]
        BY <1>2, <1>4, <1>5, <1>6, <1>8
      <4> QED
        BY <3>1, <4>1, <4>2
    <3>2. CASE m # n
      <4>1. data'[m] = data[m] /\ data[m] # data[n] /\ f[m] = K[m] \ {data[n]}
        BY <3>2, <1>4, <1>5, <1>6
      <4>2. /\ KeysAt(f, Child(m, s)') = KeysAt(K, Child(m, s)) \ {data[n]}
            /\ KeysAt(f, Child(m, Other(s))') = KeysAt(K, Child(m, Other(s))) \ {data[n]}
        BY <3>2, <1>9, SidesFacts
      <4> QED
        BY <4>1, <4>2, <1>6
    <3> QED
      BY <3>1, <3>2
  <2>3. \A m \in Linked', t \in Sides : \A j \in KeysAt(f, Child(m, t)') : Beyond(t, j, data'[m])
    <3> SUFFICES ASSUME NEW m \in Linked \ {o}, NEW t \in Sides, NEW j \in KeysAt(f, Child(m, t)')
                 PROVE  Beyond(t, j, data'[m])
      BY <1>0
    <3>1. m # n /\ j \in KeysAt(K, Child(m, t)) /\ data'[m] = data[m]
      BY <1>4, <1>6, <1>9, <1>10
    <3> QED
      BY <3>1, <1>6
  <2>4. KeysAt(f, link'[Root]) = {data'[m] : m \in Linked'}
    BY <1>0, <1>11
  <2>5. /\ \A x, y \in nodes' : data'[x] = data'[y] => x = y
        /\ \A x \in nodes' : data'[x] \in Keys
    <3>1. n \in nodes /\ o \in nodes /\ nodes \subseteq Addresses
      BY <1>2, LinkedFacts DEF TypeOK
    <3>2. /\ \A x, y \in nodes : data[x] = data[y] => x = y
          /\ \A x \in nodes : data[x] \in Keys
      BY DEF Ordered
    <3> QED
      BY <3>1, <3>2, <1>4
  <2> QED
    BY <2>1, <2>2, <2>3, <2>4, <2>5, OrderedNext
<1> QED
  BY <1>12

\* With the right child in the place of its parent the tree is in order.
LEMMA MoveUpRightKeys ==
  ASSUME NEW K, NEW h, Tree(K, h), NEW n \in Linked,
         Child(n, "left") # NULL, Child(n, "right") # NULL,
         Child(Child(n, "right"), "left") = NULL,
         MoveUpRight(n), Linked' = Linked \ {n}
  PROVE  \E f : Ordered(f)'
<1> USE DEF Tree
<1>0. PICK l, s, u : l = Child(n, "left") /\ s = Child(n, "right") /\ u = Child(s, "right")
  OBVIOUS
<1>1. "left" \in Sides /\ "right" \in Sides /\ Other("left") = "right" /\ Other("right") = "left"
  BY DEF Sides, Other
<1>2. /\ \A m \in Linked \ {n}, t \in Sides : Child(m, t)' =
           IF m = s /\ t = "left" THEN l ELSE IF Child(m, t) = n THEN s ELSE Child(m, t)
      /\ link'[Root] = IF link[Root] = n THEN s ELSE link[Root]
  BY <1>0, MoveUpRightLinks
<1>3. data' = data /\ nodes' = nodes
  BY DEF MoveUpRight
<1>4. /\ \A m \in Linked, t \in Sides :
           /\ Child(m, t) # NULL => Child(m, t) \in Linked /\ parent[Child(m, t)] = m
           /\ \A j \in KeysAt(K, Child(m, t)) : Beyond(t, j, data[m])
           /\ K[m] = {data[m]} \cup KeysAt(K, Child(m, t)) \cup KeysAt(K, Child(m, Other(t)))
      /\ \A m, p \in Linked : data[m] = data[p] => m = p
      /\ \A m \in Linked : data[m] \in K[m] /\ data[m] \in Int
      /\ NULL \notin Linked
      /\ link[Root] # NULL => link[Root] \in Linked
      /\ KeysAt(K, link[Root]) = Stored
  BY NodeFacts
<1>5. /\ l \in Linked /\ s \in Linked /\ parent[s] = n /\ parent[l] = n
      /\ l # n /\ s # n /\ l # s /\ u # n /\ u # s /\ (u # NULL => u \in Linked)
  BY <1>0, <1>1, <1>4, Generations
<1>6. /\ K[n] = {data[n]} \cup K[l] \cup K[s]
      /\ K[s] = {data[s]} \cup KeysAt(K, u)
  <2>1. /\ K[n] = {data[n]} \cup KeysAt(K, l) \cup KeysAt(K, s)
        /\ K[s] = {data[s]} \cup KeysAt(K, NULL) \cup KeysAt(K, u)
    BY <1>0, <1>1, <1>4, <1>5
  <2> QED
    BY <2>1, <1>4, <1>5 DEF KeysAt
<1>7. /\ \A j \in K[l] : j < data[n]
      /\ \A j \in K[s] : data[n] < j
      /\ \A j \in KeysAt(K, u) : data[s] < j
      /\ K[n] \subseteq Int
  <2>1. /\ \A j \in KeysAt(K, l) : Beyond("left", j, data[n])
        /\ \A j \in KeysAt(K, s) : Beyond("right", j, data[n])
        /\ \A j \in KeysAt(K, u) : Beyond("right", j, data[s])
    BY <1>0, <1>1, <1>4, <1>5
  <2> QED
    BY <2>1, <1>4, <1>5, KeysStored DEF KeysAt, Beyond
<1>8. data[n] \notin K[l] /\ data[n] \notin K[s] /\ data[n] \notin KeysAt(K, u)
  BY <1>4, <1>6, <1>7
<1>9. PICK f : f = [m \in Linked \ {n} |-> IF m = s THEN K[n] \ {data[n]} ELSE K[m] \ {data[n]}]
  OBVIOUS
<1>10. \A m \in Linked \ {n, s}, t \in Sides : KeysAt(f, Child(m, t)') = KeysAt(K, Child(m, t)) \ {data[n]}
  <2> TAKE m \in Linked \ {n, s}, t \in Sides
  <2>1. PICK y : y = Child(m, t)
    OBVIOUS
  <2>2. y # NULL => y \in Linked /\ y # s
    BY <2>1, <1>4, <1>5
  <2>3. CASE y = n
    <3>1. Child(m, t)' = s
      BY <2>1, <2>3, <1>2
    <3> QED
      BY <3>1, <2>1, <2>3, <1>4, <1>5, <1>9 DEF KeysAt
  <2>4. CASE y # n
    <3>1. Child(m, t)' = y
      BY <2>1, <2>4, <1>2
    <3> QED
      BY <3>1, <2>1, <2>2, <2>4, <1>9 DEF KeysAt
  <2> QED
    BY <2>3, <2>4
<1>11. KeysAt(f, Child(s, "left")') = K[l] /\ KeysAt(f, Child(s, "right")') = KeysAt(K, u)
  <2>1. Child(s, "left")' = l /\ Child(s, "right")' = u
    BY <1>0, <1>1, <1>2, <1>5
  <2>2. KeysAt(f, l) = K[l] \ {data[n]} /\ K[l] \ {data[n]} = K[l]
    BY <1>4, <1>5, <1>8, <1>9 DEF KeysAt
  <2>3. KeysAt(f, u) = KeysAt(K, u) \ {data[n]} /\ KeysAt(K, u) \ {data[n]} = KeysAt(K, u)
    BY <1>5, <1>8, <1>9 DEF KeysAt
  <2> QED
    BY <2>1, <2>2, <2>3
<1>12. KeysAt(f, link'[Root]) = {data[m] : m \in Linked \ {n}}
  <2>1. {data[m] : m \in Linked \ {n}} = Stored \ {data[n]}
    BY <1>4 DEF Stored
  <2>2. link[Root] # s
    BY <1>4, <1>5, SlotFacts
  <2> QED
    BY <2>1, <2>2, <1>2, <1>4, <1>5, <1>9 DEF KeysAt
<1>13. Ordered(f)'
  <2>1. f = [m \in Linked' |-> f[m]]
    BY <1>9
  <2>2. \A m \in Linked' : \E t \in Sides :
          f[m] = {data'[m]} \cup KeysAt(f, Child(m, t)') \cup KeysAt(f, Child(m, Other(t))')
    <3> SUFFICES ASSUME NEW m \in Linked \ {n}
                 PROVE  f[m] = {data[m]} \cup KeysAt(f, Child(m, "left")') \cup KeysAt(f, Child(m, "right")')
      BY <1>1, <1>3
    <3>1. CASE m = s
      <4>1. f[s] = K[n] \ {data[n]}
        BY <1>5, <1>9
      <4>2. f[s] = {data[s]} \cup K[l] \cup KeysAt(K, u)
        BY <4>1, <1>4, <1>5, <1>6, <1>8
      <4> QED
        BY <3>1, <4>2, <1>11
    <3>2. CASE m # s
      <4>1. data[m] # data[n] /\ f[m] = K[m] \ {data[n]}
        BY <3>2, <1>4, <1>9
      <4>2. K[m] = {data[m]} \cup KeysAt(K, Child(m, "left")) \cup KeysAt(K, Child(m, "right"))
        BY <1>1, <1>4
      <4>3. /\ KeysAt(f, Child(m, "left")') = KeysAt(K, Child(m, "left")) \ {data[n]}
            /\ KeysAt(f, Child(m, "right")') = KeysAt(K, Child(m, "right")) \ {data[n]}
        BY <3>2, <1>1, <1>10
      <4> QED
        BY <4>1, <4>2, <4>3
    <3> QED
      BY <3>1, <3>2
  <2>3. \A m \in Linked', t \in Sides : \A j \in KeysAt(f, Child(m, t)') : Beyond(t, j, data'[m])
    <3> SUFFICES ASSUME NEW m \in Linked \ {n}, NEW t \in Sides, NEW j \in KeysAt(f, Child(m, t)')
                 PROVE  Beyond(t, j, data[m])
      BY <1>3
    <3>1. CASE m = s /\ t = "left"
      <4>1. j \in K[l] /\ j < data[n] /\ data[n] < data[s]
        BY <3>1, <1>4, <1>5, <1>7, <1>11
      <4>2. j \in Int /\ data[n] \in Int /\ data[s] \in Int
        BY <4>1, <1>4, <1>5, <1>6, <1>7
      <4> QED
        BY <3>1, <4>1, <4>2 DEF Beyond
    <3>2. CASE m = s /\ t = "right"
      BY <3>2, <1>7, <1>11 DEF Beyond
    <3>3. CASE m # s
      BY <3>3, <1>4, <1>10
    <3> QED
      BY <3>1, <3>2, <3>3 DEF Sides
  <2>4. KeysAt(f, link'[Root]) = {data'[m] : m \in Linked'}
    BY <1>3, <1>12
  <2>5. /\ \A x, y \in nodes' : data'[x] = data'[y] => x = y
        /\ \A x \in nodes' : data'[x] \in Keys
    BY <1>3 DEF Ordered
  <2> QED
    BY <2>1, <2>2, <2>3, <2>4, <2>5, OrderedNext
<1> QED
  BY <1>13

\* The successor is larger than all on the left of the deleted node and smaller
\* than the rest on its right: in its place it is in order.
LEMMA MoveUpSuccessorKeys ==
  ASSUME NEW K, NEW h, Tree(K, h), NEW n \in Linked, n = toDelete, NEW s \in Linked, s = node,
         Child(n, "left") # NULL, Child(n, "right") # NULL, s # Child(n, "right"),
         data[s] \in K[Child(n, "right")], Child(s, "left") = NULL,
         \A j \in K[Child(n, "right")] \ K[s], i \in K[s] : i < j,
         MoveUpSuccessor, Linked' = Linked \ {n}
  PROVE  \E f : Ordered(f)'
<1> USE DEF Tree
<1>0. PICK l, r, u, p, k, d :
        /\ l = Child(n, "left") /\ r = Child(n, "right") /\ u = Child(s, "right")
        /\ p = parent[s] /\ k = data[n] /\ d = data[s]
  OBVIOUS
<1>1. "left" \in Sides /\ "right" \in Sides /\ Other("left") = "right" /\ Other("right") = "left"
  BY DEF Sides, Other
<1>2. /\ s \notin {n, l, r} /\ u \notin {n, l, r, s}
      /\ l \in Linked \ {n} /\ r \in Linked \ {n} /\ l # r
      /\ \A m \in Linked \ {n}, t \in Sides : Child(m, t)' =
           IF m = s THEN IF t = "left" THEN l ELSE r
           ELSE IF Child(m, t) = s THEN u ELSE IF Child(m, t) = n THEN s ELSE Child(m, t)
      /\ link'[Root] = IF link[Root] = n THEN s ELSE link[Root]
  BY <1>0, MoveUpSuccessorLinks
<1>3. data' = data /\ nodes' = nodes
  BY DEF MoveUpSuccessor
<1>4. /\ \A m \in Linked, t \in Sides :
           /\ Child(m, t) # NULL => Child(m, t) \in Linked /\ parent[Child(m, t)] = m
           /\ \A j \in KeysAt(K, Child(m, t)) : Beyond(t, j, data[m])
           /\ K[m] = {data[m]} \cup KeysAt(K, Child(m, t)) \cup KeysAt(K, Child(m, Other(t)))
           /\ KeysAt(K, Child(m, t)) \subseteq K[m] /\ data[m] \notin KeysAt(K, Child(m, t))
      /\ \A m, q \in Linked : data[m] = data[q] => m = q
      /\ \A m \in Linked : data[m] \in K[m] /\ data[m] \in Int
      /\ NULL \notin Linked
      /\ link[Root] # NULL => link[Root] \in Linked
      /\ KeysAt(K, link[Root]) = Stored
  BY NodeFacts
<1>5. u # NULL => u \in Linked
  BY <1>0, <1>1, <1>4
<1>6. /\ K[n] = {k} \cup K[l] \cup K[r] /\ K[s] = {d} \cup KeysAt(K, u)
      /\ k \notin K[l] /\ k \notin K[r] /\ d \notin KeysAt(K, u)
  <2>1. /\ K[n] = {k} \cup KeysAt(K, l) \cup KeysAt(K, r)
        /\ K[s] = {d} \cup KeysAt(K, NULL) \cup KeysAt(K, u)
        /\ k \notin KeysAt(K, l) /\ k \notin KeysAt(K, r) /\ d \notin KeysAt(K, u)
    BY <1>0, <1>1, <1>4
  <2> QED
    BY <2>1, <1>2, <1>4 DEF KeysAt
<1>7. d \in K[r] /\ K[s] \subseteq K[r] /\ K[n] \subseteq Int /\ k \in Int /\ d \in Int
  <2>1. d \in K[r]
    BY <1>0
  <2>2. K[s] \subseteq K[r]
    BY <1>0, <1>2, Laminar
  <2> QED
    BY <2>1, <2>2, <1>0, <1>4, KeysStored
<1>8. /\ \A j \in K[l] : j < k
      /\ \A j \in K[r] : k < j
      /\ \A j \in KeysAt(K, u) : d < j
      /\ d \notin K[l]
  <2>1. /\ \A j \in KeysAt(K, l) : Beyond("left", j, k)
        /\ \A j \in KeysAt(K, r) : Beyond("right", j, k)
        /\ \A j \in KeysAt(K, u) : Beyond("right", j, d)
    BY <1>0, <1>1, <1>4
  <2>2. /\ \A j \in K[l] : j < k
        /\ \A j \in K[r] : k < j
        /\ \A j \in KeysAt(K, u) : d < j
    BY <2>1, <1>2, <1>4 DEF KeysAt, Beyond
  <2> QED
    BY <2>2, <1>7
<1>9. \A m \in Linked : k \in K[m] => K[n] \subseteq K[m]
  BY <1>0, Laminar
<1>10. p \in Linked /\ k \notin K[p] /\ p # n
  <2>1. d \in K[n]
    BY <1>6, <1>7
  <2>2. s # link[Root]
    <3>1. ASSUME s = link[Root] PROVE FALSE
      <4>1. K[s] = Stored /\ k \in Stored
        BY <3>1, <1>0, <1>4 DEF KeysAt, Stored
      <4> QED
        BY <4>1, <1>6, <1>7
    <3> QED
      BY <3>1
  <2>3. PICK t \in Sides : p \in Linked /\ Child(p, t) = s
    BY <2>2, <1>0, SlotFacts
  <2>4. data[p] \in K[r]
    BY <2>3, <1>0, <1>2, <1>4, <1>7, Above
  <2>5. K[p] \subseteq K[r]
    BY <2>3, <2>4, <1>2, Laminar
  <2> QED
    BY <2>3, <2>5, <1>0, <1>4, <1>6
<1>11. PICK f : f = [m \in Linked \ {n} |->
          IF m = s THEN K[n] \ {k} ELSE IF k \in K[m] THEN K[m] \ {k} ELSE K[m] \ {d}]
  OBVIOUS
<1>12. KeysAt(f, u) = K[s] \ {d}
  <2>1. k \notin KeysAt(K, u)
    BY <1>6, <1>7
  <2> QED
    BY <2>1, <1>2, <1>5, <1>6, <1>11 DEF KeysAt
<1>13. \A m \in Linked \ {n, s}, t \in Sides : KeysAt(f, Child(m, t)') =
          IF k \in K[m] THEN KeysAt(K, Child(m, t)) \ {k} ELSE KeysAt(K, Child(m, t)) \ {d}
  <2> TAKE m \in Linked \ {n, s}, t \in Sides
  <2>1. PICK y : y = Child(m, t)
    OBVIOUS
  <2>2. (y # NULL => y \in Linked /\ parent[y] = m) /\ KeysAt(K, y) \subseteq K[m]
    BY <2>1, <1>4
  <2>3. CASE y = n
    <3>1. Child(m, t)' = s
      BY <2>1, <2>3, <1>2
    <3>2. k \in K[m]
      BY <2>2, <2>3, <1>0, <1>4 DEF KeysAt
    <3>3. KeysAt(f, s) = KeysAt(K, y) \ {k}
      BY <2>3, <1>2, <1>4, <1>11 DEF KeysAt
    <3> QED
      BY <3>1, <3>2, <3>3, <2>1
  <2>4. CASE y = s
    <3>1. Child(m, t)' = u
      BY <2>1, <2>4, <1>2
    <3>2. m = p /\ k \notin K[m]
      BY <2>2, <2>4, <1>0, <1>4, <1>10
    <3>3. KeysAt(K, y) = K[s]
      BY <2>4, <1>4 DEF KeysAt
    <3> QED
      BY <3>1, <3>2, <3>3, <2>1, <1>12
  <2>5. CASE y \notin {n, s}
    <3>1. Child(m, t)' = y
      BY <2>1, <2>5, <1>2
    <3>2. KeysAt(f, y) = IF k \in KeysAt(K, y) THEN KeysAt(K, y) \ {k} ELSE KeysAt(K, y) \ {d}
      BY <2>2, <2>5, <1>11 DEF KeysAt
    <3>3. ASSUME k \in K[m], k \notin KeysAt(K, y) PROVE d \notin KeysAt(K, y)
      <4>1. PICK z : z = Child(m, Other(t))
        OBVIOUS
      <4>2. data[m] # k
        BY <1>0, <1>4
      <4>3. k \in KeysAt(K, z)
        BY <3>3, <4>1, <4>2, <2>1, <1>4
      <4>4. z # NULL /\ z \in Linked
        BY <4>1, <4>3, <1>4, SidesFacts DEF KeysAt
      <4>5. d \in KeysAt(K, z)
        BY <4>3, <4>4, <1>6, <1>7, <1>9 DEF KeysAt
      <4>6. Beyond(Other(t), d, data[m]) /\ data[m] \in Int
        BY <4>1, <4>5, <1>4, SidesFacts
      <4>7. ~Beyond(t, d, data[m])
        BY <4>6, <1>7 DEF Beyond, Other, Sides
      <4> QED
        BY <4>7, <2>1, <1>4
    <3>4. k \notin K[m] => k \notin KeysAt(K, y)
      BY <2>2
    <3> QED
      BY <3>1, <3>2, <3>3, <3>4, <2>1
  <2> QED
    BY <2>3, <2>4, <2>5
<1>14. KeysAt(f, Child(s, "left")') = K[l] /\ KeysAt(f, Child(s, "right")') = K[r] \ {d}
  <2>1. Child(s, "left")' = l /\ Child(s, "right")' = r
    BY <1>1, <1>2
  <2>2. KeysAt(f, l) = K[l] \ {d} /\ K[l] \ {d} = K[l]
    BY <1>2, <1>4, <1>6, <1>8, <1>11 DEF KeysAt
  <2>3. KeysAt(f, r) = K[r] \ {d}
    BY <1>2, <1>4, <1>6, <1>11 DEF KeysAt
  <2> QED
    BY <2>1, <2>2, <2>3
<1>15. KeysAt(f, link'[Root]) = {data[m] : m \in Linked \ {n}}
  <2>1. {data[m] : m \in Linked \ {n}} = Stored \ {k}
    BY <1>0, <1>4 DEF Stored
  <2>2. k \in Stored
    BY <1>0 DEF Stored
  <2>3. link[Root] # NULL /\ K[link[Root]] = Stored
    BY <2>2, <1>4 DEF KeysAt
  <2>4. link[Root] # s
    BY <2>2, <2>3, <1>6, <1>7
  <2> QED
    BY <2>1, <2>2, <2>3, <2>4, <1>2, <1>4, <1>11 DEF KeysAt
<1>16. Ordered(f)'
  <2>1. f = [m \in Linked' |-> f[m]]
    BY <1>11
  <2>2. \A m \in Linked' : \E t \in Sides :
          f[m] = {data'[m]} \cup KeysAt(f, Child(m, t)') \cup KeysAt(f, Child(m, Other(t))')
    <3> SUFFICES ASSUME NEW m \in Linked \ {n}
                 PROVE  f[m] = {data[m]} \cup KeysAt(f, Child(m, "left")') \cup KeysAt(f, Child(m, "right")')
      BY <1>1, <1>3
    <3>1. CASE m = s
      <4>1. f[s] = K[n] \ {k}
        BY <1>2, <1>11
      <4>2. f[s] = {d} \cup K[l] \cup (K[r] \ {d})
        BY <4>1, <1>6, <1>7
      <4> QED
        BY <3>1, <4>2, <1>0, <1>14
    <3>2. CASE m # s
      <4>1. data[m] # k /\ data[m] # d
        BY <3>2, <1>0, <1>4
      <4>2. K[m] = {data[m]} \cup KeysAt(K, Child(m, "left")) \cup KeysAt(K, Child(m, "right"))
        BY <1>1, <1>4
      <4>3. f[m] = IF k \in K[m] THEN K[m] \ {k} ELSE K[m] \ {d}
        BY <3>2, <1>11
      <4>4. /\ KeysAt(f, Child(m, "left")') =
                 IF k \in K[m] THEN KeysAt(K, Child(m, "left")) \ {k} ELSE KeysAt(K, Child(m, "left")) \ {d}
            /\ KeysAt(f, Child(m, "right")') =
                 IF k \in K[m] THEN KeysAt(K, Child(m, "right")) \ {k} ELSE KeysAt(K, Child(m, "right")) \ {d}
        BY <3>2, <1>1, <1>13
      <4> QED
        BY <4>1, <4>2, <4>3, <4>4
    <3> QED
      BY <3>1, <3>2
  <2>3. \A m \in Linked', t \in Sides : \A j \in KeysAt(f, Child(m, t)') : Beyond(t, j, data'[m])
    <3> SUFFICES ASSUME NEW m \in Linked \ {n}, NEW t \in Sides, NEW j \in KeysAt(f, Child(m, t)')
                 PROVE  Beyond(t, j, data[m])
      BY <1>3
    <3>1. CASE m = s /\ t = "left"
      <4>1. j \in K[l] /\ j < k /\ k < d
        BY <3>1, <1>7, <1>8, <1>14
      <4>2. j \in Int
        BY <4>1, <1>6, <1>7
      <4> QED
        BY <3>1, <4>1, <4>2, <1>0, <1>7 DEF Beyond
    <3>2. CASE m = s /\ t = "right"
      <4>1. j \in K[r] /\ j # d
        BY <3>2, <1>14
      <4>2. d < j
        <5>1. CASE j \in K[s]
          BY <5>1, <4>1, <1>6, <1>8
        <5>2. CASE j \notin K[s]
          BY <5>2, <4>1, <1>0, <1>6
        <5> QED
          BY <5>1, <5>2
      <4> QED
        BY <3>2, <4>2, <1>0 DEF Beyond
    <3>3. CASE m # s
      <4>1. j \in KeysAt(K, Child(m, t))
        BY <3>3, <1>13
      <4> QED
        BY <4>1, <1>4
    <3> QED
      BY <3>1, <3>2, <3>3 DEF Sides
  <2>4. KeysAt(f, link'[Root]) = {data'[m] : m \in Linked'}
    BY <1>3, <1>15
  <2>5. /\ \A x, y \in nodes' : data'[x] = data'[y] => x = y
        /\ \A x \in nodes' : data'[x] \in Keys
    BY <1>3 DEF Ordered
  <2> QED
    BY <2>1, <2>2, <2>3, <2>4, <2>5, OrderedNext
<1> QED
  BY <1>16

-----------------------------------------------------------------------------
(* What a step does to the heights. *)

\* A difference of heights, seen from a side.
Tilt(s, b) == IF s = "left" THEN -b ELSE b

\* How far a balance leans to a side.
LEMMA TiltFacts ==
  ASSUME NEW s \in Sides, NEW b \in Int
  PROVE  /\ Tilt(s, b) \in Int /\ Tilt(Other(s), b) = -Tilt(s, b)
         /\ b * Sign(s) = Tilt(s, b) /\ Tilt(s, Sign(s)) = 1 /\ Tilt(s, -Sign(s)) = -1
         /\ Tilt(s, b) = 0 <=> b = 0
         /\ b \in -1 .. 1 <=> Tilt(s, b) \in -1 .. 1
         /\ Tilt(s, b) = 1 <=> b = Sign(s)
         /\ Tilt(s, b) = -1 <=> b = -Sign(s)
<1>1. CASE s = "left"
  <2>1. Sign(s) = -1 /\ Other(s) = "right" /\ \A x : Tilt(s, x) = -x /\ Tilt(Other(s), x) = x
    BY <1>1 DEF Tilt, Other, Sign
  <2>2. b * Sign(s) = -b
    BY <2>1
  <2>3. Tilt(s, Sign(s)) = 1 /\ Tilt(s, -Sign(s)) = -1
    BY <2>1
  <2> QED
    BY <2>1, <2>2, <2>3
<1>2. CASE s = "right"
  <2>1. Sign(s) = 1 /\ Other(s) = "left" /\ Tilt(s, b) = b /\ Tilt(Other(s), b) = -b
        /\ Tilt(s, Sign(s)) = 1 /\ Tilt(s, -Sign(s)) = -1
    BY <1>2 DEF Tilt, Other, Sign
  <2>2. b * Sign(s) = b
    BY <2>1
  <2> QED
    BY <2>1, <2>2
<1> QED
  BY <1>1, <1>2 DEF Sides

\* What the balances say of the heights at each node, with the side as a
\* parameter.
LEMMA Heights ==
  ASSUME TypeOK, WellLinked, NEW K, Ordered(K), NEW h, Levelled(h)
  PROVE  /\ \A m \in Linked, t \in Sides :
              /\ HeightAt(h, Child(m, t)) \in Nat /\ (HeightAt(h, Child(m, t)) = 0 <=> Child(m, t) = NULL)
              /\ h[m] = 1 + Slack(m) + Larger(HeightAt(h, Child(m, t)), HeightAt(h, Child(m, Other(t))))
              /\ HeightAt(h, Child(m, t)) - HeightAt(h, Child(m, Other(t))) =
                   Tilt(t, balance[m] + IF m = node THEN change ELSE 0)
         /\ \A m \in Linked : h[m] \in Nat \ {0} /\ balance[m] \in -1 .. 1
         /\ h \in [Linked -> Nat] /\ change \in -1 .. 1
<1>1. h \in [Linked -> Nat] /\ change \in -1 .. 1
  BY DEF Levelled, TypeOK
<1>2. \A m \in Linked : h[m] \in Nat /\ balance[m] \in -1 .. 1
  BY <1>1, LinkedFacts DEF TypeOK
<1>3. \A m \in Linked, t \in Sides : HeightAt(h, Child(m, t)) \in Nat
  BY <1>2, ChildIn DEF HeightAt
<1>4. \A m \in Linked :
        /\ h[m] = 1 + Slack(m) + Larger(HeightAt(h, Child(m, "left")), HeightAt(h, Child(m, "right")))
        /\ HeightAt(h, Child(m, "right")) - HeightAt(h, Child(m, "left")) =
             balance[m] + IF m = node THEN change ELSE 0
  BY DEF Levelled
<1>5. \A m \in Linked : h[m] # 0
  <2> TAKE m \in Linked
  <2>1. PICK x \in Nat, y \in Nat :
          /\ h[m] = 1 + Slack(m) + Larger(x, y)
          /\ y - x = balance[m] + IF m = node THEN change ELSE 0
    BY <1>3, <1>4 DEF Sides
  <2>2. Slack(m) # -1 \/ y - x # 0
    BY <2>1 DEF Slack
  <2> QED
    BY <2>1, <2>2, SlackFacts DEF Larger
<1>6. \A m \in Linked, t \in Sides : HeightAt(h, Child(m, t)) = 0 <=> Child(m, t) = NULL
  BY <1>5, ChildIn DEF HeightAt
<1>7. ASSUME NEW m \in Linked, NEW t \in Sides
      PROVE  /\ h[m] = 1 + Slack(m) + Larger(HeightAt(h, Child(m, t)), HeightAt(h, Child(m, Other(t))))
             /\ HeightAt(h, Child(m, t)) - HeightAt(h, Child(m, Other(t))) =
                  Tilt(t, balance[m] + IF m = node THEN change ELSE 0)
  <2>1. PICK x \in Nat, y \in Nat : x = HeightAt(h, Child(m, "left")) /\ y = HeightAt(h, Child(m, "right"))
    BY <1>3 DEF Sides
  <2>2. h[m] = 1 + Slack(m) + Larger(x, y) /\ y - x = balance[m] + IF m = node THEN change ELSE 0
    BY <2>1, <1>4
  <2>3. Larger(x, y) = Larger(y, x)
    BY DEF Larger
  <2>4. CASE t = "left"
    <3>1. Other(t) = "right"
      BY <2>4 DEF Other
    <3> QED
      BY <2>1, <2>2, <2>4, <3>1, <1>1, <1>2 DEF Tilt
  <2>5. CASE t = "right"
    <3>1. Other(t) = "left"
      BY <2>5 DEF Other
    <3> QED
      BY <2>1, <2>2, <2>3, <2>5, <3>1, <1>1, <1>2 DEF Tilt
  <2> QED
    BY <2>4, <2>5 DEF Sides
<1> QED
  BY <1>1, <1>2, <1>3, <1>5, <1>6, <1>7

\* To show the heights right after a step, each node may be looked at from
\* whichever side is convenient.
LEMMA LevelledNext ==
  ASSUME NEW f, f \in [Linked' -> Nat],
         \A m \in Linked' : \A t \in Sides : HeightAt(f, Child(m, t)') \in Nat,
         \A m \in Linked' : \E t \in Sides :
           /\ f[m] = 1 + Slack(m)' + Larger(HeightAt(f, Child(m, t)'), HeightAt(f, Child(m, Other(t))'))
           /\ HeightAt(f, Child(m, t)') - HeightAt(f, Child(m, Other(t))') =
                Tilt(t, balance'[m] + IF m = node' THEN change' ELSE 0),
         \A m \in Linked' : balance'[m] \in Int, change' \in Int
  PROVE  Levelled(f)'
<1>1. ASSUME NEW m \in Linked'
      PROVE  /\ f[m] = 1 + Slack(m)' + Larger(HeightAt(f, Child(m, "left")'), HeightAt(f, Child(m, "right")'))
             /\ HeightAt(f, Child(m, "right")') - HeightAt(f, Child(m, "left")') =
                  balance'[m] + IF m = node' THEN change' ELSE 0
  <2>1. PICK x \in Nat, y \in Nat : x = HeightAt(f, Child(m, "left")') /\ y = HeightAt(f, Child(m, "right")')
    BY DEF Sides
  <2>2. PICK d \in Int : d = balance'[m] + IF m = node' THEN change' ELSE 0
    OBVIOUS
  <2>3. Larger(x, y) = Larger(y, x)
    BY DEF Larger
  <2>4. PICK t \in Sides :
          /\ f[m] = 1 + Slack(m)' + Larger(HeightAt(f, Child(m, t)'), HeightAt(f, Child(m, Other(t))'))
          /\ HeightAt(f, Child(m, t)') - HeightAt(f, Child(m, Other(t))') = Tilt(t, d)
    BY <2>2
  <2>5. CASE t = "left"
    <3>1. Other(t) = "right"
      BY <2>5 DEF Other
    <3>2. f[m] = 1 + Slack(m)' + Larger(x, y) /\ x - y = -d
      BY <2>1, <2>4, <2>5, <3>1 DEF Tilt
    <3> QED
      BY <3>2, <2>1, <2>2
  <2>6. CASE t = "right"
    <3>1. Other(t) = "left"
      BY <2>6 DEF Other
    <3>2. f[m] = 1 + Slack(m)' + Larger(x, y) /\ y - x = d
      BY <2>1, <2>3, <2>4, <2>6, <3>1 DEF Tilt
    <3> QED
      BY <3>2, <2>1, <2>2
  <2> QED
    BY <2>5, <2>6 DEF Sides
<1> QED
  BY <1>1 DEF Levelled, HeightAt

\* The heights are right if they are at every node but the one where the loop
\* stands, and there once the change in hand is added to a side.
LEMMA Passed ==
  ASSUME NEW f, f \in [Linked' -> Nat],
         \A m \in Linked', t \in Sides : HeightAt(f, Child(m, t)') \in Nat,
         \A m \in Linked' : balance'[m] \in -1 .. 1,
         NEW p, p = node',
         \A m \in Linked' \ {p} : \E t \in Sides :
           /\ f[m] = 1 + Larger(HeightAt(f, Child(m, t)'), HeightAt(f, Child(m, Other(t))'))
           /\ HeightAt(f, Child(m, t)') - HeightAt(f, Child(m, Other(t))') = Tilt(t, balance'[m]),
         \/ p \notin Linked' /\ change' = 0
         \/ \E q \in Sides, g \in {-1, 1}, x \in Nat, y \in Nat :
              /\ pc' = IF g = 1 THEN "insert_balance" ELSE "delete_balance"
              /\ change' = g * Sign(q)
              /\ HeightAt(f, Child(p, q)') = x + g /\ HeightAt(f, Child(p, Other(q))') = y
              /\ f[p] = 1 + Larger(x, y) /\ x - y = Tilt(q, balance'[p])
  PROVE  Levelled(f)'
<1>1. change' \in Int
  <2>1. \A q \in Sides, g \in {-1, 1} : g * Sign(q) \in Int
    BY DEF Sign
  <2> QED
    BY <2>1
<1>2. ASSUME NEW m \in Linked'
      PROVE  \E t \in Sides :
               /\ f[m] = 1 + Slack(m)' + Larger(HeightAt(f, Child(m, t)'), HeightAt(f, Child(m, Other(t))'))
               /\ HeightAt(f, Child(m, t)') - HeightAt(f, Child(m, Other(t))') =
                    Tilt(t, balance'[m] + IF m = node' THEN change' ELSE 0)
  <2>1. CASE m # p
    <3>1. Slack(m)' = 0
      BY <2>1 DEF Slack
    <3>2. PICK t \in Sides :
           /\ f[m] = 1 + Larger(HeightAt(f, Child(m, t)'), HeightAt(f, Child(m, Other(t))'))
           /\ HeightAt(f, Child(m, t)') - HeightAt(f, Child(m, Other(t))') = Tilt(t, balance'[m])
      BY <2>1
    <3>3. balance'[m] + (IF m = node' THEN change' ELSE 0) = balance'[m]
      BY <2>1
    <3>4. 1 + Slack(m)' = 1
      BY <3>1
    <3> QED
      BY <3>2, <3>3, <3>4
  <2>2. CASE m = p
    <3>1. PICK q \in Sides, g \in {-1, 1}, x \in Nat, y \in Nat :
              /\ pc' = IF g = 1 THEN "insert_balance" ELSE "delete_balance"
              /\ change' = g * Sign(q)
              /\ HeightAt(f, Child(p, q)') = x + g /\ HeightAt(f, Child(p, Other(q))') = y
              /\ f[p] = 1 + Larger(x, y) /\ x - y = Tilt(q, balance'[p])
      BY <2>2
    <3>2. PICK b \in -1 .. 1 : b = balance'[p]
      BY <2>2
    <3>3. change' = Tilt(q, g) /\ change' \in {-1, 1}
      BY <3>1, TiltFacts DEF Tilt
    <3>4. x - y = Tilt(q, b) /\ x + g - y = Tilt(q, b + change') /\ (b + change' = 0 <=> x + g - y = 0)
      BY <3>1, <3>2, <3>3 DEF Tilt
    <3>5. Slack(p)' = IF g = 1 THEN IF b + change' # 0 THEN -1 ELSE 0
                      ELSE IF b + change' = 0 THEN 1 ELSE 0
      BY <3>1, <3>2 DEF Slack
    <3>6. x - y \in {-1, 0, 1}
      BY <3>2, <3>4 DEF Tilt
    <3>7. 1 + Larger(x, y) = 1 + Slack(p)' + Larger(x + g, y)
      BY <3>1, <3>4, <3>5, <3>6 DEF Larger
    <3> QED
      BY <3>1, <3>2, <3>4, <3>7, <2>2
  <2> QED
    BY <2>1, <2>2
<1> QED
  BY <1>1, <1>2, LevelledNext

\* The loop has come to an end, or to the parent, with a height changed by g.
Onward(n, g) ==
  IF g = 0 \/ parent[n] = NULL THEN node' = NULL /\ change' = 0
  ELSE /\ node' = parent[n] /\ change' = g * Sign(SlotOf(n)[2])
       /\ pc' = IF g = 1 THEN "insert_balance" ELSE "delete_balance"

\* A step rearranges the nodes T where the loop stands, under one of them, z,
\* and goes on to the parent if the height has changed by g.
LEMMA Upward ==
  ASSUME NEW K, NEW h, Tree(K, h), NEW n \in Linked, n = node, Linked' = Linked, WellLinked',
         NEW T \in SUBSET Linked, n \in T, NEW z \in T, NEW f, f \in [Linked -> Nat],
         \A m \in Linked \ T : /\ f[m] = h[m] /\ balance'[m] = balance[m]
                               /\ \A t \in Sides : /\ Child(m, t)' = IF Child(m, t) = n THEN z ELSE Child(m, t)
                                                   /\ Child(m, t) = n \/ Child(m, t) \notin T,
         \A m \in T : /\ balance'[m] \in -1 .. 1
                      /\ \E t \in Sides :
                           /\ f[m] = 1 + Larger(HeightAt(f, Child(m, t)'), HeightAt(f, Child(m, Other(t))'))
                           /\ HeightAt(f, Child(m, t)') - HeightAt(f, Child(m, Other(t))') = Tilt(t, balance'[m]),
         NEW g \in {-1, 0, 1}, parent[n] # NULL => f[z] = h[n] + g /\ parent[n] \notin T, Onward(n, g)
  PROVE  Levelled(f)'
<1> USE DEF Tree, Onward
<1>1. PICK p : p = node'
  OBVIOUS
<1>2. NULL \notin Linked
  BY LinkedFacts
<1>3. \A m \in Linked, t \in Sides : HeightAt(f, Child(m, t)') \in Nat
  <2> TAKE m \in Linked, t \in Sides
  <2>1. <<m, t>> \in Slots(Linked)'
    BY DEF Slots
  <2>2. link'[<<m, t>>] # NULL => link'[<<m, t>>] \in Linked
    BY <2>1 DEF WellLinked
  <2> QED
    BY <2>2 DEF HeightAt, Child
<1>4. \A m \in Linked : balance'[m] \in -1 .. 1
  BY Heights
<1>5. /\ \A m \in Linked, t \in Sides :
           /\ HeightAt(h, Child(m, t)) \in Nat
           /\ h[m] = 1 + Slack(m) + Larger(HeightAt(h, Child(m, t)), HeightAt(h, Child(m, Other(t))))
           /\ HeightAt(h, Child(m, t)) - HeightAt(h, Child(m, Other(t))) =
                Tilt(t, balance[m] + IF m = node THEN change ELSE 0)
      /\ \A m \in Linked : balance[m] \in -1 .. 1 /\ h[m] \in Nat
  BY Heights
<1>6. ASSUME NEW m \in Linked \ T, NEW t \in Sides
      PROVE  /\ h[m] = 1 + Larger(HeightAt(h, Child(m, t)), HeightAt(h, Child(m, Other(t))))
             /\ HeightAt(h, Child(m, t)) - HeightAt(h, Child(m, Other(t))) = Tilt(t, balance[m])
  <2>1. Slack(m) = 0 /\ m # node
    BY SlackFacts
  <2>2. balance[m] + (IF m = node THEN change ELSE 0) = balance[m] /\ 1 + Slack(m) = 1
    BY <2>1, <1>5
  <2> QED
    BY <2>2, <1>5
<1>7. ASSUME NEW m \in Linked \ T, NEW t \in Sides, Child(m, t) # n
      PROVE  HeightAt(f, Child(m, t)') = HeightAt(h, Child(m, t))
  <2>1. Child(m, t)' = Child(m, t) /\ Child(m, t) \notin T
    BY <1>7
  <2>2. Child(m, t) # NULL => Child(m, t) \in Linked
    BY ChildIn
  <2> QED
    BY <2>1, <2>2 DEF HeightAt
<1>8. ASSUME NEW m \in Linked \ T, NEW t \in Sides, Child(m, t) = n
      PROVE  /\ m = parent[n] /\ HeightAt(f, Child(m, t)') = f[z] /\ f[z] = h[n] + g
             /\ HeightAt(h, Child(m, t)) = h[n]
             /\ t = SlotOf(n)[2] /\ Child(m, Other(t)) # n
  <2>1. Child(m, t)' = z
    BY <1>8
  <2>2. m = parent[n] /\ n # NULL /\ z # NULL /\ parent[n] # NULL
    BY <1>8, <1>2, ChildIn
  <2>3. <<m, t>> = SlotOf(n)
    <3>1. <<m, t>> \in Slots(Linked) /\ link[<<m, t>>] = n
      BY <1>8, SlotsFacts DEF Child
    <3>2. \A x \in Slots(Linked) : link[x] = n => x = SlotOf(n)
      BY SlotFacts
    <3> QED
      BY <3>1, <3>2
  <2>4. Child(m, Other(t)) # n
    BY <1>8, <2>2, Generations
  <2> QED
    BY <2>1, <2>2, <2>3, <2>4, <1>8 DEF HeightAt
<1>9. ASSUME NEW m \in Linked \ {p}
      PROVE  \E t \in Sides :
               /\ f[m] = 1 + Larger(HeightAt(f, Child(m, t)'), HeightAt(f, Child(m, Other(t))'))
               /\ HeightAt(f, Child(m, t)') - HeightAt(f, Child(m, Other(t))') = Tilt(t, balance'[m])
  <2>1. CASE m \in T
    BY <2>1
  <2>2. CASE m \notin T
    <3>1. ASSUME NEW t \in Sides PROVE HeightAt(f, Child(m, t)') = HeightAt(h, Child(m, t))
      <4>1. CASE Child(m, t) = n
        <5>1. g = 0
          BY <4>1, <2>2, <1>1, <1>2, <1>8
        <5> QED
          BY <5>1, <4>1, <2>2, <1>5, <1>8
      <4>2. CASE Child(m, t) # n
        BY <4>2, <2>2, <1>7
      <4> QED
        BY <4>1, <4>2
    <3>2. "left" \in Sides /\ Other("left") \in Sides
      BY DEF Sides, Other
    <3>3. /\ HeightAt(f, Child(m, "left")') = HeightAt(h, Child(m, "left"))
          /\ HeightAt(f, Child(m, Other("left"))') = HeightAt(h, Child(m, Other("left")))
      BY <3>1, <3>2
    <3> QED
      BY <3>2, <3>3, <2>2, <1>6
  <2> QED
    BY <2>1, <2>2
<1>10. \/ p \notin Linked' /\ change' = 0
       \/ \E q \in Sides, e \in {-1, 1}, x \in Nat, y \in Nat :
            /\ pc' = IF e = 1 THEN "insert_balance" ELSE "delete_balance"
            /\ change' = e * Sign(q)
            /\ HeightAt(f, Child(p, q)') = x + e /\ HeightAt(f, Child(p, Other(q))') = y
            /\ f[p] = 1 + Larger(x, y) /\ x - y = Tilt(q, balance'[p])
  <2>1. CASE g = 0 \/ parent[n] = NULL
    BY <2>1, <1>1, <1>2
  <2>2. CASE g # 0 /\ parent[n] # NULL
    <3>1. PICK q \in Sides : q = SlotOf(n)[2] /\ p \in Linked /\ Child(p, q) = n
      BY <2>2, <1>1, SlotFacts
    <3>2. p \in Linked \ T
      BY <2>2, <3>1, <1>1
    <3>3. /\ HeightAt(f, Child(p, q)') = h[n] + g /\ HeightAt(h, Child(p, q)) = h[n]
          /\ Child(p, Other(q)) # n
      BY <3>1, <3>2, <1>8
    <3>4. HeightAt(f, Child(p, Other(q))') = HeightAt(h, Child(p, Other(q)))
      BY <3>2, <3>3, <1>7, SidesFacts
    <3>5. /\ f[p] = 1 + Larger(h[n], HeightAt(h, Child(p, Other(q))))
          /\ h[n] - HeightAt(h, Child(p, Other(q))) = Tilt(q, balance'[p])
      BY <3>2, <3>3, <1>6
    <3>6. h[n] \in Nat /\ HeightAt(h, Child(p, Other(q))) \in Nat /\ g \in {-1, 1}
      BY <3>2, <2>2, <1>5, SidesFacts
    <3>7. /\ pc' = IF g = 1 THEN "insert_balance" ELSE "delete_balance"
          /\ change' = g * Sign(q)
      BY <2>2, <3>1
    <3> QED
      BY <3>1, <3>3, <3>4, <3>5, <3>6, <3>7
  <2> QED
    BY <2>1, <2>2
<1> QED
  BY <1>1, <1>3, <1>4, <1>9, <1>10, Passed

\* An iteration that only writes the balance of its node passes on to the parent
\* exactly the change of height that the parent has not counted.
LEMMA BalanceLevels ==
  ASSUME NEW K, NEW h, Tree(K, h), NEW n \in Linked, n = node, Linked' = Linked, WellLinked',
         NEW b \in -1 .. 1, b = balance[n] + change,
         link' = link, balance' = [balance EXCEPT ![n] = b],
         NEW g \in {-1, 0, 1}, g = -Slack(n), Onward(n, g)
  PROVE  \E f : Levelled(f)'
<1> USE DEF Tree
<1>1. PICK f : f = [m \in Linked |-> IF m = n THEN h[n] + g ELSE h[m]]
  OBVIOUS
<1>2. /\ \A m \in Linked, t \in Sides :
           /\ HeightAt(h, Child(m, t)) \in Nat
           /\ h[m] = 1 + Slack(m) + Larger(HeightAt(h, Child(m, t)), HeightAt(h, Child(m, Other(t))))
           /\ HeightAt(h, Child(m, t)) - HeightAt(h, Child(m, Other(t))) =
                Tilt(t, balance[m] + IF m = node THEN change ELSE 0)
      /\ \A m \in Linked : h[m] \in Nat
  BY Heights
<1>3. \A t \in Sides : /\ Child(n, t) # n /\ Child(n, t)' = Child(n, t)
                       /\ Child(n, t) # NULL => Child(n, t) \in Linked
  BY Generations, ChildIn, LinkedFacts DEF Child
<1>4. PICK x \in Nat, y \in Nat : x = HeightAt(h, Child(n, "left")) /\ y = HeightAt(h, Child(n, Other("left")))
  BY <1>2, SidesFacts DEF Sides
<1>5. h[n] = 1 + Slack(n) + Larger(x, y) /\ x - y = Tilt("left", b)
  BY <1>2, <1>4 DEF Sides
<1>6. h[n] + g = 1 + Larger(x, y) /\ Larger(x, y) \in Nat
  BY <1>5, SlackFacts DEF Larger
<1>7. /\ HeightAt(f, Child(n, "left")') = x /\ HeightAt(f, Child(n, Other("left"))') = y
  BY <1>1, <1>3, <1>4, SidesFacts DEF HeightAt, Sides
<1>8. f \in [Linked -> Nat]
  BY <1>1, <1>2, <1>6
<1>9. \A m \in Linked \ {n} : /\ f[m] = h[m] /\ balance'[m] = balance[m]
                              /\ \A t \in Sides : /\ Child(m, t)' = IF Child(m, t) = n THEN n ELSE Child(m, t)
                                                  /\ Child(m, t) = n \/ Child(m, t) \notin {n}
  BY <1>1, LinkedFacts DEF TypeOK, Child
<1>10. /\ balance'[n] = b /\ balance'[n] \in -1 .. 1
       /\ \E t \in Sides :
            /\ f[n] = 1 + Larger(HeightAt(f, Child(n, t)'), HeightAt(f, Child(n, Other(t))'))
            /\ HeightAt(f, Child(n, t)') - HeightAt(f, Child(n, Other(t))') = Tilt(t, balance'[n])
  <2>1. balance'[n] = b
    BY LinkedFacts DEF TypeOK
  <2>2. f[n] = 1 + Larger(x, y) /\ "left" \in Sides
    BY <1>1, <1>6 DEF Sides
  <2> QED
    BY <2>1, <2>2, <1>5, <1>7
<1>11. parent[n] # NULL => f[n] = h[n] + g /\ parent[n] \notin {n}
  <2>1. parent[n] # NULL => Child(parent[n], SlotOf(n)[2]) = n /\ parent[n] \in Linked /\ SlotOf(n)[2] \in Sides
    BY SlotFacts
  <2> QED
    BY <2>1, <1>1, <1>3
<1>12. Levelled(f)'
  <2>1. PICK T \in SUBSET Linked : T = {n}
    OBVIOUS
  <2>2. \A m \in T : /\ balance'[m] \in -1 .. 1
                      /\ \E t \in Sides :
                           /\ f[m] = 1 + Larger(HeightAt(f, Child(m, t)'), HeightAt(f, Child(m, Other(t))'))
                           /\ HeightAt(f, Child(m, t)') - HeightAt(f, Child(m, Other(t))') = Tilt(t, balance'[m])
    BY <1>10, <2>1
  <2>3. \A m \in Linked \ T : /\ f[m] = h[m] /\ balance'[m] = balance[m]
                              /\ \A t \in Sides : /\ Child(m, t)' = IF Child(m, t) = n THEN n ELSE Child(m, t)
                                                  /\ Child(m, t) = n \/ Child(m, t) \notin T
    BY <1>9, <2>1
  <2>4. n \in T /\ (parent[n] # NULL => f[n] = h[n] + g /\ parent[n] \notin T)
    BY <1>11, <2>1
  <2> QED
    BY <2>2, <2>3, <2>4, <1>8, Upward
<1> QED
  BY <1>12

\* A single rotation evens the node out, and so is its change of height.
LEMMA RotateLevels ==
  ASSUME NEW K, NEW h, Tree(K, h), NEW n \in Linked, n = node, Linked' = Linked,
         NEW s \in Sides, Tilt(s, balance[n] + change) = 2, Child(n, s) # NULL, Rotate(n, s),
         NEW g \in {-1, 0, 1},
         \/ balance[Child(n, s)] = Sign(s) /\ g = -1 - Slack(n)
         \/ balance[Child(n, s)] = 0 /\ Slack(n) = 0 /\ g = 0,
         Onward(n, g)
  PROVE  \E f : Levelled(f)'
<1> USE DEF Tree
<1>0. PICK o, c, inner, outer, w :
        /\ o = Other(s) /\ c = Child(n, s) /\ inner = Child(c, o)
        /\ outer = Child(c, s) /\ w = Child(n, o)
  OBVIOUS
<1>1. o \in Sides /\ Other(o) = s /\ o # s /\ \A t \in Sides : t = s \/ t = o
  BY <1>0 DEF Sides, Other
<1>2. /\ c \in Linked /\ parent[c] = n /\ n # NULL /\ c # NULL /\ NULL \notin Linked
      /\ (inner # NULL => inner \in Linked) /\ (outer # NULL => outer \in Linked)
      /\ (w # NULL => w \in Linked) /\ Linked \subseteq Addresses
  BY <1>0, <1>1, ChildIn, LinkedFacts
<1>3. c # n /\ inner \notin {n, c} /\ outer \notin {n, c} /\ w # c /\ w # n
  BY <1>0, <1>1, <1>2, Generations
<1>4. /\ WellLinked'
      /\ \A m \in Linked, t \in Sides : Child(m, t)' =
           IF m = n /\ t = s THEN inner ELSE IF m = c /\ t = o THEN n
           ELSE IF Child(m, t) = n THEN c ELSE Child(m, t)
  BY <1>0, RotateLinks
<1>5. /\ \A m \in Linked, t \in Sides :
           /\ HeightAt(h, Child(m, t)) \in Nat
           /\ h[m] = 1 + Slack(m) + Larger(HeightAt(h, Child(m, t)), HeightAt(h, Child(m, Other(t))))
           /\ HeightAt(h, Child(m, t)) - HeightAt(h, Child(m, Other(t))) =
                Tilt(t, balance[m] + IF m = node THEN change ELSE 0)
      /\ \A m \in Linked : h[m] \in Nat /\ balance[m] \in -1 .. 1
  BY Heights
<1>6. PICK x \in Nat, i \in Nat, e \in Nat :
        x = HeightAt(h, w) /\ i = HeightAt(h, inner) /\ e = HeightAt(h, outer)
  BY <1>0, <1>1, <1>2, <1>5
<1>7. h[c] = x + 2 /\ h[n] = x + 3 + Slack(n)
  <2>1. HeightAt(h, c) = h[c] /\ h[c] \in Nat
    BY <1>2, <1>5 DEF HeightAt
  <2>2. h[c] - x = Tilt(s, balance[n] + change) /\ h[n] = 1 + Slack(n) + Larger(h[c], x)
    BY <2>1, <1>0, <1>5, <1>6
  <2>3. h[c] = x + 2
    BY <2>1, <2>2
  <2>4. Larger(h[c], x) = x + 2
    BY <2>3 DEF Larger
  <2> QED
    BY <2>2, <2>3, <2>4, SlackFacts
<1>8. h[c] = 1 + Larger(e, i) /\ e - i = Tilt(s, balance[c])
  <2>1. Slack(c) = 0 /\ c # node
    BY <1>3, SlackFacts
  <2>2. balance[c] + (IF c = node THEN change ELSE 0) = balance[c] /\ 1 + Slack(c) = 1
    BY <2>1, <1>2, <1>5
  <2> QED
    BY <2>2, <1>0, <1>2, <1>5, <1>6
<1>9. PICK f : f = [m \in Linked |-> IF m = n THEN i + 1 ELSE IF m = c THEN i + 2 ELSE h[m]]
  OBVIOUS
<1>10. PICK b : /\ b = balance[c] - Sign(s)
                /\ balance' = [balance EXCEPT ![c] = b, ![n] = -b]
  BY <1>0 DEF Rotate
<1>11. /\ i >= x /\ i + 1 >= e
       /\ b \in -1 .. 1 /\ i - x = Tilt(s, -b) /\ e - (i + 1) = Tilt(s, b)
       /\ i + 2 = h[n] + g
  <2>1. CASE balance[c] = Sign(s) /\ g = -1 - Slack(n)
    <3>1. b = 0 /\ Tilt(s, b) = 0 /\ Tilt(s, -b) = 0 /\ Tilt(s, balance[c]) = 1
      BY <2>1, <1>10, TiltFacts, SidesFacts DEF Tilt
    <3>2. e = i + 1
      BY <3>1, <1>8
    <3>3. i = x
      BY <3>2, <1>7, <1>8 DEF Larger
    <3> QED
      BY <3>1, <3>2, <3>3, <2>1, <1>7, SlackFacts
  <2>2. CASE balance[c] = 0 /\ Slack(n) = 0 /\ g = 0
    <3>1. b = -Sign(s) /\ b \in -1 .. 1 /\ Tilt(s, b) = -1 /\ Tilt(s, -b) = 1 /\ Tilt(s, balance[c]) = 0
      <4>1. Sign(s) \in {-1, 1} /\ Tilt(s, Sign(s)) = 1 /\ Tilt(s, -Sign(s)) = -1 /\ Tilt(s, 0) = 0
        BY TiltFacts, SidesFacts
      <4>2. b = -Sign(s) /\ -b = Sign(s)
        BY <2>2, <1>10, <4>1
      <4> QED
        BY <2>2, <4>1, <4>2
    <3>2. e = i
      BY <3>1, <1>8
    <3>3. i = x + 1
      BY <3>2, <1>7, <1>8 DEF Larger
    <3> QED
      BY <3>1, <3>2, <3>3, <2>2, <1>7
  <2> QED
    BY <2>1, <2>2, <1>0
<1>12. /\ balance'[n] = -b /\ balance'[c] = b
       /\ \A m \in Linked \ {n, c} : balance'[m] = balance[m]
  BY <1>2, <1>3, <1>10 DEF TypeOK
<1>13. /\ Child(n, s)' = inner /\ Child(n, o)' = w /\ Child(c, s)' = outer /\ Child(c, o)' = n
  BY <1>0, <1>1, <1>2, <1>3, <1>4
<1>14. /\ HeightAt(f, Child(n, s)') = i /\ HeightAt(f, Child(n, o)') = x
       /\ HeightAt(f, Child(c, s)') = e /\ HeightAt(f, Child(c, o)') = i + 1
  BY <1>2, <1>3, <1>6, <1>9, <1>13 DEF HeightAt
<1>15. PICK T \in SUBSET Linked : T = {n, c}
  BY <1>2
<1>16. \A m \in T : /\ balance'[m] \in -1 .. 1
                    /\ \E t \in Sides :
                         /\ f[m] = 1 + Larger(HeightAt(f, Child(m, t)'), HeightAt(f, Child(m, Other(t))'))
                         /\ HeightAt(f, Child(m, t)') - HeightAt(f, Child(m, Other(t))') = Tilt(t, balance'[m])
  <2>1. /\ f[n] = 1 + Larger(HeightAt(f, Child(n, s)'), HeightAt(f, Child(n, o)'))
        /\ HeightAt(f, Child(n, s)') - HeightAt(f, Child(n, o)') = Tilt(s, balance'[n])
        /\ balance'[n] \in -1 .. 1
    <3>1. Larger(i, x) = i /\ f[n] = i + 1
      BY <1>9, <1>11 DEF Larger
    <3> QED
      BY <3>1, <1>11, <1>12, <1>14
  <2>2. /\ f[c] = 1 + Larger(HeightAt(f, Child(c, s)'), HeightAt(f, Child(c, o)'))
        /\ HeightAt(f, Child(c, s)') - HeightAt(f, Child(c, o)') = Tilt(s, balance'[c])
        /\ balance'[c] \in -1 .. 1
    <3>1. Larger(e, i + 1) = i + 1 /\ f[c] = i + 2
      BY <1>2, <1>3, <1>9, <1>11 DEF Larger
    <3> QED
      BY <3>1, <1>11, <1>12, <1>14
  <2> QED
    BY <2>1, <2>2, <1>0, <1>15
<1>17. \A m \in Linked \ T : /\ f[m] = h[m] /\ balance'[m] = balance[m]
                             /\ \A t \in Sides : /\ Child(m, t)' = IF Child(m, t) = n THEN c ELSE Child(m, t)
                                                 /\ Child(m, t) = n \/ Child(m, t) \notin T
  <2>1. \A m \in Linked \ {n}, t \in Sides : Child(m, t) # c
    BY <1>2, ChildIn
  <2> QED
    BY <2>1, <1>4, <1>9, <1>12, <1>15
<1>18. n \in T /\ c \in T /\ (parent[n] # NULL => f[c] = h[n] + g /\ parent[n] \notin T)
  <2>1. parent[n] # NULL => \E t \in Sides : Child(parent[n], t) = n /\ parent[n] \in Linked
    BY SlotFacts
  <2>2. \A t \in Sides : Child(n, t) # n /\ Child(c, t) # n
    <3>1. Child(n, s) # n /\ Child(n, o) # n /\ Child(c, s) # n /\ Child(c, o) # n
      BY <1>0, <1>3
    <3> QED
      BY <3>1, <1>1
  <2> QED
    BY <2>1, <2>2, <1>2, <1>3, <1>9, <1>11, <1>15
<1>19. f \in [Linked -> Nat]
  BY <1>5, <1>9
<1> QED
  BY <1>4, <1>16, <1>17, <1>18, <1>19, Upward

\* The node that a double rotation brings up is there.
LEMMA InnerThere ==
  ASSUME NEW K, NEW h, Tree(K, h), NEW n \in Linked, n = node,
         NEW s \in Sides, Child(n, s) # NULL, balance[Child(n, s)] = -Sign(s)
  PROVE  Child(Child(n, s), Other(s)) # NULL
<1> USE DEF Tree
<1>1. PICK c \in Linked : c = Child(n, s) /\ c # n
  BY ChildIn, Generations
<1>2. PICK e \in Nat, i \in Nat :
        /\ e = HeightAt(h, Child(c, s)) /\ i = HeightAt(h, Child(c, Other(s)))
        /\ (i = 0 <=> Child(c, Other(s)) = NULL)
        /\ e - i = Tilt(s, balance[c] + IF c = node THEN change ELSE 0)
  BY <1>1, Heights, SidesFacts
<1>3. balance[c] + (IF c = node THEN change ELSE 0) = -Sign(s)
  BY <1>1, SidesFacts
<1>4. Tilt(s, -Sign(s)) = -1
  BY TiltFacts, SidesFacts
<1> QED
  BY <1>1, <1>2, <1>3, <1>4

\* A double rotation evens the node out, and so is its change of height.
LEMMA DoubleRotateLevels ==
  ASSUME NEW K, NEW h, Tree(K, h), NEW n \in Linked, n = node, Linked' = Linked,
         NEW s \in Sides, Tilt(s, balance[n] + change) = 2, Child(n, s) # NULL,
         balance[Child(n, s)] = -Sign(s), DoubleRotate(n, s),
         NEW g \in {-1, 0, 1}, g = -1 - Slack(n), Onward(n, g)
  PROVE  \E f : Levelled(f)'
<1> USE DEF Tree
<1>0. PICK o, c, q, near, far, outer, w :
        /\ o = Other(s) /\ c = Child(n, s) /\ q = Child(c, o) /\ near = Child(q, s)
        /\ far = Child(q, o) /\ outer = Child(c, s) /\ w = Child(n, o)
  OBVIOUS
<1>1. o \in Sides /\ Other(o) = s /\ o # s /\ \A t \in Sides : t = s \/ t = o
  BY <1>0 DEF Sides, Other
<1>2. /\ c \in Linked /\ parent[c] = n /\ n # NULL /\ c # NULL /\ NULL \notin Linked
      /\ q # NULL /\ (outer # NULL => outer \in Linked) /\ (w # NULL => w \in Linked)
      /\ Linked \subseteq Addresses
  BY <1>0, <1>1, ChildIn, LinkedFacts, InnerThere
<1>3. /\ q \in Linked /\ parent[q] = c
      /\ (near # NULL => near \in Linked) /\ (far # NULL => far \in Linked)
  BY <1>0, <1>1, <1>2, ChildIn
<1>4. /\ c # n /\ q \notin {n, c} /\ near \notin {n, c, q} /\ far \notin {n, c, q}
      /\ outer \notin {n, c, q} /\ w # n /\ w # c /\ w # q
  <2>1. c # n /\ q \notin {n, c} /\ near \notin {n, c, q} /\ far \notin {n, c, q}
    BY <1>0, <1>1, <1>2, Generations, GreatGrandchild
  <2>2. outer \notin {n, c} /\ q # outer /\ w # c
    BY <1>0, <1>1, <1>2, Generations
  <2>3. w # n
    BY <1>0, <1>1, <1>2, Generations
  <2>4. w # q
    BY <2>1, <1>0, <1>1, <1>2, <1>3, ChildIn
  <2> QED
    BY <2>1, <2>2, <2>3, <2>4
<1>5. /\ WellLinked'
      /\ \A m \in Linked, t \in Sides : Child(m, t)' =
           IF m = n /\ t = s THEN far ELSE IF m = c /\ t = o THEN near
           ELSE IF m = q THEN IF t = s THEN c ELSE n
           ELSE IF Child(m, t) = n THEN q ELSE Child(m, t)
  BY <1>0, <1>2, DoubleRotateLinks
<1>6. /\ \A m \in Linked, t \in Sides :
           /\ HeightAt(h, Child(m, t)) \in Nat
           /\ h[m] = 1 + Slack(m) + Larger(HeightAt(h, Child(m, t)), HeightAt(h, Child(m, Other(t))))
           /\ HeightAt(h, Child(m, t)) - HeightAt(h, Child(m, Other(t))) =
                Tilt(t, balance[m] + IF m = node THEN change ELSE 0)
      /\ \A m \in Linked : h[m] \in Nat /\ balance[m] \in -1 .. 1
  BY Heights
<1>7. PICK x \in Nat, e \in Nat, u \in Nat, v \in Nat :
        /\ x = HeightAt(h, w) /\ e = HeightAt(h, outer)
        /\ u = HeightAt(h, near) /\ v = HeightAt(h, far)
  BY <1>0, <1>1, <1>2, <1>3, <1>6
<1>8. h[c] = x + 2 /\ h[n] = x + 3 + Slack(n)
  <2>1. HeightAt(h, c) = h[c] /\ h[c] \in Nat
    BY <1>2, <1>6 DEF HeightAt
  <2>2. h[c] - x = Tilt(s, balance[n] + change) /\ h[n] = 1 + Slack(n) + Larger(h[c], x)
    BY <2>1, <1>0, <1>6, <1>7
  <2>3. h[c] = x + 2
    BY <2>1, <2>2
  <2>4. Larger(h[c], x) = x + 2
    BY <2>3 DEF Larger
  <2> QED
    BY <2>2, <2>3, <2>4, SlackFacts
<1>9. \A m \in {c, q} : /\ 1 + Slack(m) = 1
                        /\ balance[m] + (IF m = node THEN change ELSE 0) = balance[m]
  <2>1. \A m \in {c, q} : m \in Linked /\ m # node /\ Slack(m) = 0
    BY <1>2, <1>3, <1>4, SlackFacts
  <2> QED
    BY <2>1, <1>6
<1>10. h[q] = x + 1 /\ e = x
  <2>1. HeightAt(h, q) = h[q] /\ h[q] \in Nat
    BY <1>3, <1>2, <1>6 DEF HeightAt
  <2>2. h[c] = 1 + Larger(e, h[q]) /\ e - h[q] = Tilt(s, balance[c])
    BY <2>1, <1>0, <1>2, <1>6, <1>7, <1>9
  <2>3. Tilt(s, balance[c]) = -1
    BY <1>0, TiltFacts, SidesFacts
  <2> QED
    BY <2>1, <2>2, <2>3, <1>8 DEF Larger
<1>11. PICK b \in -1 .. 1 : b = Tilt(s, balance[q]) /\ b = balance[q] * Sign(s)
  BY <1>3, <1>6, TiltFacts DEF Tilt
<1>12. u - v = b /\ Larger(u, v) = x
  <2>1. h[q] = 1 + Larger(u, v) /\ u - v = Tilt(s, balance[q])
    BY <1>0, <1>3, <1>6, <1>7, <1>9
  <2>2. Larger(u, v) \in Nat
    BY DEF Larger
  <2> QED
    BY <2>1, <2>2, <1>10, <1>11
<1>13. PICK f : f = [m \in Linked |->
          IF m = n THEN x + 1 ELSE IF m = c THEN x + 1 ELSE IF m = q THEN x + 2 ELSE h[m]]
  OBVIOUS
<1>14. /\ balance'[n] = IF b > 0 THEN -Sign(s) ELSE 0
       /\ balance'[c] = IF b < 0 THEN Sign(s) ELSE 0
       /\ balance'[q] = 0
       /\ \A m \in Linked \ {n, c, q} : balance'[m] = balance[m]
  <2>1. balance' = [balance EXCEPT ![n] = IF b > 0 THEN -Sign(s) ELSE 0,
                                   ![c] = IF b < 0 THEN Sign(s) ELSE 0,
                                   ![q] = 0]
    BY <1>0, <1>11 DEF DoubleRotate
  <2> QED
    BY <2>1, <1>2, <1>3, <1>4 DEF TypeOK
<1>15. /\ Sign(s) \in {-1, 1} /\ Tilt(s, Sign(s)) = 1 /\ Tilt(s, -Sign(s)) = -1 /\ Tilt(s, 0) = 0
  BY TiltFacts, SidesFacts
<1>16. /\ v - x = Tilt(s, balance'[n]) /\ balance'[n] \in -1 .. 1 /\ Larger(v, x) = x
       /\ x - u = Tilt(s, balance'[c]) /\ balance'[c] \in -1 .. 1 /\ Larger(x, u) = x
       /\ 0 = Tilt(s, balance'[q]) /\ balance'[q] \in -1 .. 1
  <2>1. CASE b > 0
    <3>1. v = x - 1 /\ u = x
      BY <2>1, <1>12 DEF Larger
    <3> QED
      BY <3>1, <2>1, <1>14, <1>15 DEF Larger
  <2>2. CASE b = 0
    <3>1. v = x /\ u = x
      BY <2>2, <1>12 DEF Larger
    <3> QED
      BY <3>1, <2>2, <1>14, <1>15 DEF Larger
  <2>3. CASE b < 0
    <3>1. v = x /\ u = x - 1
      BY <2>3, <1>12 DEF Larger
    <3> QED
      BY <3>1, <2>3, <1>14, <1>15 DEF Larger
  <2> QED
    BY <2>1, <2>2, <2>3
<1>17. /\ Child(n, s)' = far /\ Child(n, o)' = w /\ Child(c, s)' = outer /\ Child(c, o)' = near
       /\ Child(q, s)' = c /\ Child(q, o)' = n
  BY <1>0, <1>1, <1>2, <1>3, <1>4, <1>5
<1>18. /\ HeightAt(f, Child(n, s)') = v /\ HeightAt(f, Child(n, o)') = x
       /\ HeightAt(f, Child(c, s)') = x /\ HeightAt(f, Child(c, o)') = u
       /\ HeightAt(f, Child(q, s)') = x + 1 /\ HeightAt(f, Child(q, o)') = x + 1
  BY <1>2, <1>3, <1>4, <1>7, <1>10, <1>13, <1>17 DEF HeightAt
<1>19. PICK T \in SUBSET Linked : T = {n, c, q}
  BY <1>2, <1>3
<1>20. f[n] = x + 1 /\ f[c] = x + 1 /\ f[q] = x + 2
  BY <1>2, <1>3, <1>4, <1>13
<1>21. \A m \in T : /\ balance'[m] \in -1 .. 1
                    /\ \E t \in Sides :
                         /\ f[m] = 1 + Larger(HeightAt(f, Child(m, t)'), HeightAt(f, Child(m, Other(t))'))
                         /\ HeightAt(f, Child(m, t)') - HeightAt(f, Child(m, Other(t))') = Tilt(t, balance'[m])
  <2>1. /\ f[n] = 1 + Larger(HeightAt(f, Child(n, s)'), HeightAt(f, Child(n, o)'))
        /\ HeightAt(f, Child(n, s)') - HeightAt(f, Child(n, o)') = Tilt(s, balance'[n])
    BY <1>16, <1>18, <1>20
  <2>2. /\ f[c] = 1 + Larger(HeightAt(f, Child(c, s)'), HeightAt(f, Child(c, o)'))
        /\ HeightAt(f, Child(c, s)') - HeightAt(f, Child(c, o)') = Tilt(s, balance'[c])
    BY <1>16, <1>18, <1>20
  <2>3. /\ f[q] = 1 + Larger(HeightAt(f, Child(q, s)'), HeightAt(f, Child(q, o)'))
        /\ HeightAt(f, Child(q, s)') - HeightAt(f, Child(q, o)') = Tilt(s, balance'[q])
    BY <1>16, <1>18, <1>20 DEF Larger
  <2> QED
    BY <2>1, <2>2, <2>3, <1>0, <1>16, <1>19
<1>22. \A m \in Linked \ T : /\ f[m] = h[m] /\ balance'[m] = balance[m]
                             /\ \A t \in Sides : /\ Child(m, t)' = IF Child(m, t) = n THEN q ELSE Child(m, t)
                                                 /\ Child(m, t) = n \/ Child(m, t) \notin T
  <2>1. \A m \in Linked \ {n, c}, t \in Sides : Child(m, t) # c /\ Child(m, t) # q
    BY <1>2, <1>3, ChildIn
  <2> QED
    BY <2>1, <1>5, <1>13, <1>14, <1>19
<1>23. n \in T /\ q \in T /\ (parent[n] # NULL => f[q] = h[n] + g /\ parent[n] \notin T)
  <2>1. parent[n] # NULL => \E t \in Sides : Child(parent[n], t) = n /\ parent[n] \in Linked
    BY SlotFacts
  <2>2. \A t \in Sides : Child(n, t) # n /\ Child(c, t) # n /\ Child(q, t) # n
    <3>1. /\ Child(n, s) # n /\ Child(n, o) # n /\ Child(c, s) # n /\ Child(c, o) # n
          /\ Child(q, s) # n /\ Child(q, o) # n
      BY <1>0, <1>4
    <3> QED
      BY <3>1, <1>1
  <2>3. f[q] = h[n] + g
    BY <1>8, <1>20, SlackFacts
  <2> QED
    BY <2>1, <2>2, <2>3, <1>19
<1>24. f \in [Linked -> Nat]
  BY <1>6, <1>13
<1> QED
  BY <1>5, <1>21, <1>22, <1>23, <1>24, Upward

\* Heights after a step are natural numbers, that of a missing child too.
LEMMA NaturalNext ==
  ASSUME WellLinked', NEW f, f \in [Linked' -> Nat]
  PROVE  \A m \in Linked', t \in Sides : HeightAt(f, Child(m, t)') \in Nat
<1> TAKE m \in Linked', t \in Sides
<1>1. <<m, t>> \in Slots(Linked)'
  BY DEF Slots
<1>2. link'[<<m, t>>] # NULL => link'[<<m, t>>] \in Linked'
  BY <1>1 DEF WellLinked
<1> QED
  BY <1>2 DEF HeightAt, Child

\* While nothing is being rebalanced, heights and balances are what they say.
LEMMA Settled ==
  ASSUME NEW K, NEW h, Tree(K, h), pc \notin {"insert_balance", "delete_balance"}, change = 0
  PROVE  /\ \A m \in Linked, t \in Sides :
              /\ HeightAt(h, Child(m, t)) \in Nat /\ (HeightAt(h, Child(m, t)) = 0 <=> Child(m, t) = NULL)
              /\ h[m] = 1 + Larger(HeightAt(h, Child(m, t)), HeightAt(h, Child(m, Other(t))))
              /\ HeightAt(h, Child(m, t)) - HeightAt(h, Child(m, Other(t))) = Tilt(t, balance[m])
         /\ \A m \in Linked : h[m] \in Nat \ {0} /\ balance[m] \in -1 .. 1
<1>1. /\ \A m \in Linked, t \in Sides :
           /\ HeightAt(h, Child(m, t)) \in Nat /\ (HeightAt(h, Child(m, t)) = 0 <=> Child(m, t) = NULL)
           /\ h[m] = 1 + Slack(m) + Larger(HeightAt(h, Child(m, t)), HeightAt(h, Child(m, Other(t))))
           /\ HeightAt(h, Child(m, t)) - HeightAt(h, Child(m, Other(t))) =
                Tilt(t, balance[m] + IF m = node THEN change ELSE 0)
      /\ \A m \in Linked : h[m] \in Nat \ {0} /\ balance[m] \in -1 .. 1
  BY Heights DEF Tree
<1>2. \A m \in Linked : 1 + Slack(m) = 1 /\ balance[m] + (IF m = node THEN change ELSE 0) = balance[m]
  BY <1>1, SlackFacts
<1> QED
  BY <1>1, <1>2

\* A new leaf makes its parent's subtree one higher at most: what the loop of
\* Tree_InsertBalance has in hand.
LEMMA NewLevels ==
  ASSUME NEW K, NEW h, Tree(K, h), pc \notin {"insert_balance", "delete_balance"}, change = 0,
         NEW a, NEW k, NEW n \in Linked, NEW s \in Sides,
         Child(n, s) = NULL, Node_New(a, k, <<n, s>>), Linked = nodes, Linked' = nodes',
         node' = n, pc' = "insert_balance", change' = Sign(s)
  PROVE  \E f : Levelled(f)' /\ f[a] = 1
<1> USE DEF Tree
<1>1. /\ Linked' = Linked \cup {a} /\ a \notin Linked /\ NULL \notin Linked /\ a # NULL
      /\ \A m \in Linked, t \in Sides : Child(m, t)' = IF m = n /\ t = s THEN a ELSE Child(m, t)
      /\ \A t \in Sides : Child(a, t)' = NULL
      /\ balance' = [balance EXCEPT ![a] = 0] /\ a \in Addresses /\ Linked \subseteq Addresses
      /\ WellLinked'
  <2>1. <<n, s>> \in Slots(Linked) /\ <<n, s>> # Root /\ link[<<n, s>>] = NULL
    BY SlotsFacts DEF Child
  <2>2. \A m, t : <<m, t>> = <<n, s>> <=> m = n /\ t = s
    OBVIOUS
  <2> QED
    BY <2>1, <2>2, NewLinks, LinkedFacts, TreeAssumption
<1>2. /\ \A m \in Linked, t \in Sides :
           /\ HeightAt(h, Child(m, t)) \in Nat /\ (HeightAt(h, Child(m, t)) = 0 <=> Child(m, t) = NULL)
           /\ h[m] = 1 + Larger(HeightAt(h, Child(m, t)), HeightAt(h, Child(m, Other(t))))
           /\ HeightAt(h, Child(m, t)) - HeightAt(h, Child(m, Other(t))) = Tilt(t, balance[m])
      /\ \A m \in Linked : h[m] \in Nat \ {0} /\ balance[m] \in -1 .. 1
  BY Settled
<1>3. \A m \in Linked : balance'[m] = balance[m]
  BY <1>1 DEF TypeOK
<1>4. balance'[a] = 0
  BY <1>1 DEF TypeOK
<1>5. PICK f : f = [m \in Linked \cup {a} |-> IF m = a THEN 1 ELSE h[m]]
  OBVIOUS
<1>6. f \in [Linked' -> Nat]
  BY <1>1, <1>2, <1>5
<1>7. \A m \in Linked, t \in Sides :
        HeightAt(f, Child(m, t)') = IF m = n /\ t = s THEN 1 ELSE HeightAt(h, Child(m, t))
  <2> TAKE m \in Linked, t \in Sides
  <2>1. Child(m, t) # NULL => Child(m, t) \in Linked
    BY ChildIn
  <2>2. CASE m = n /\ t = s
    BY <2>2, <1>1, <1>5 DEF HeightAt
  <2>3. CASE ~(m = n /\ t = s)
    <3>1. Child(m, t)' = Child(m, t)
      BY <2>3, <1>1
    <3> QED
      BY <3>1, <2>1, <2>3, <1>1, <1>5 DEF HeightAt
  <2> QED
    BY <2>2, <2>3
<1>8. ASSUME NEW m \in Linked' \ {n}
      PROVE  \E t \in Sides :
               /\ f[m] = 1 + Larger(HeightAt(f, Child(m, t)'), HeightAt(f, Child(m, Other(t))'))
               /\ HeightAt(f, Child(m, t)') - HeightAt(f, Child(m, Other(t))') = Tilt(t, balance'[m])
  <2>1. CASE m = a
    <3>1. HeightAt(f, Child(a, s)') = 0 /\ HeightAt(f, Child(a, Other(s))') = 0
      BY <1>1, SidesFacts DEF HeightAt
    <3>2. f[a] = 1 /\ Tilt(s, balance'[a]) = 0
      BY <1>4, <1>5, TiltFacts
    <3> QED
      BY <3>1, <3>2, <2>1 DEF Larger
  <2>2. CASE m # a
    <3>1. /\ HeightAt(f, Child(m, s)') = HeightAt(h, Child(m, s))
          /\ HeightAt(f, Child(m, Other(s))') = HeightAt(h, Child(m, Other(s)))
          /\ f[m] = h[m] /\ balance'[m] = balance[m] /\ m \in Linked
      BY <2>2, <1>1, <1>3, <1>5, <1>7, SidesFacts
    <3> QED
      BY <3>1, <1>2
  <2> QED
    BY <2>1, <2>2
<1>9. PICK y \in Nat : y = HeightAt(h, Child(n, Other(s)))
  BY <1>2, SidesFacts
<1>10. /\ HeightAt(f, Child(n, s)') = 0 + 1 /\ HeightAt(f, Child(n, Other(s))') = y
       /\ f[n] = 1 + Larger(0, y) /\ 0 - y = Tilt(s, balance'[n])
  <2>1. HeightAt(h, Child(n, s)) = 0
    BY <1>2
  <2>2. /\ f[n] = h[n] /\ balance'[n] = balance[n]
    BY <1>1, <1>3, <1>5
  <2> QED
    BY <2>1, <2>2, <1>2, <1>7, <1>9, SidesFacts
<1>11. change' = 1 * Sign(s)
  BY SidesFacts
<1>12. \A m \in Linked' : balance'[m] \in -1 .. 1
  BY <1>1, <1>2, <1>3, <1>4
<1>13. \A m \in Linked', t \in Sides : HeightAt(f, Child(m, t)') \in Nat
  BY <1>1, <1>6, NaturalNext
<1>14. \E q \in Sides, g \in {-1, 1}, x \in Nat, z \in Nat :
         /\ pc' = IF g = 1 THEN "insert_balance" ELSE "delete_balance"
         /\ change' = g * Sign(q)
         /\ HeightAt(f, Child(n, q)') = x + g /\ HeightAt(f, Child(n, Other(q))') = z
         /\ f[n] = 1 + Larger(x, z) /\ x - z = Tilt(q, balance'[n])
  BY <1>9, <1>10, <1>11
<1>15. Levelled(f)'
  BY <1>6, <1>8, <1>12, <1>13, <1>14, Passed
<1> QED
  BY <1>5, <1>15

\* The first node has height one.
LEMMA NewRootLevels ==
  ASSUME NEW K, NEW h, Tree(K, h), NEW a, NEW k, link[Root] = NULL,
         Node_New(a, k, Root), Linked = {}, Linked = nodes, Linked' = nodes', node' = NULL, change' = 0
  PROVE  \E f : Levelled(f)'
<1> USE DEF Tree
<1>1. /\ Linked' = {a} /\ a # NULL /\ a \in Addresses
      /\ \A t \in Sides : Child(a, t)' = NULL
      /\ balance' = [balance EXCEPT ![a] = 0]
  <2>1. Root \in Slots(Linked)
    BY DEF Slots
  <2> QED
    BY <2>1, NewLinks, TreeAssumption DEF Node_New
<1>2. balance'[a] = 0
  BY <1>1 DEF TypeOK
<1>3. PICK f : f = [m \in {a} |-> 1]
  OBVIOUS
<1>4. Slack(a)' = 0
  BY <1>1 DEF Slack
<1>5. \A t \in Sides : HeightAt(f, Child(a, t)') = 0
  BY <1>1 DEF HeightAt
<1>6. Levelled(f)'
  BY <1>1, <1>2, <1>3, <1>4, <1>5 DEF Levelled, Larger, Sides, HeightAt
<1> QED
  BY <1>6

\* Cutting a leaf makes its parent's subtree one lower at most: what the loop of
\* Tree_DeleteBalance has in hand.
LEMMA CutLevels ==
  ASSUME NEW K, NEW h, Tree(K, h), pc \notin {"insert_balance", "delete_balance"}, change = 0,
         NEW n \in Linked, Child(n, "left") = NULL, Child(n, "right") = NULL,
         link' = [link EXCEPT ![SlotOf(n)] = NULL], parent' = parent,
         \A m \in Linked \ {n} : balance'[m] = balance[m],
         \A m : m \in Linked' <=> m \in Linked /\ m # n, NEW g \in {-1, 1}, g = -1, Onward(n, g)
  PROVE  \E f : Levelled(f)'
<1> USE DEF Tree
<1>1. /\ WellLinked'
      /\ \A m \in Linked \ {n}, t \in Sides :
           Child(m, t)' = IF Child(m, t) = n THEN NULL ELSE Child(m, t)
  <2>1. Linked' = Linked \ {n}
    OBVIOUS
  <2> QED
    BY <2>1, CutLinks
<1>2. /\ \A m \in Linked, t \in Sides :
           /\ HeightAt(h, Child(m, t)) \in Nat /\ (HeightAt(h, Child(m, t)) = 0 <=> Child(m, t) = NULL)
           /\ h[m] = 1 + Larger(HeightAt(h, Child(m, t)), HeightAt(h, Child(m, Other(t))))
           /\ HeightAt(h, Child(m, t)) - HeightAt(h, Child(m, Other(t))) = Tilt(t, balance[m])
      /\ \A m \in Linked : h[m] \in Nat \ {0} /\ balance[m] \in -1 .. 1
  BY Settled
<1>3. h[n] = 1
  <2>1. "left" \in Sides /\ "right" \in Sides /\ Other("left") = "right"
    BY DEF Sides, Other
  <2>2. HeightAt(h, Child(n, "left")) = 0 /\ HeightAt(h, Child(n, "right")) = 0
    BY <2>1, <1>2
  <2> QED
    BY <2>1, <2>2, <1>2 DEF Larger
<1>4. PICK f : f = [m \in Linked \ {n} |-> h[m]]
  OBVIOUS
<1>5. f \in [Linked' -> Nat]
  BY <1>2, <1>4
<1>6. PICK p : p = node'
  OBVIOUS
<1>7. NULL \notin Linked /\ n # NULL
  BY LinkedFacts
<1>8. ASSUME NEW m \in Linked \ {n}, NEW t \in Sides, Child(m, t) # n
      PROVE  HeightAt(f, Child(m, t)') = HeightAt(h, Child(m, t))
  <2>1. Child(m, t)' = Child(m, t)
    BY <1>8, <1>1
  <2>2. Child(m, t) # NULL => Child(m, t) \in Linked
    BY ChildIn
  <2> QED
    BY <2>1, <2>2, <1>4, <1>8 DEF HeightAt
<1>9. ASSUME NEW m \in Linked \ {n}, m # p, NEW t \in Sides PROVE Child(m, t) # n
  <2>1. ASSUME Child(m, t) = n PROVE FALSE
    <3>1. parent[n] = m /\ m # NULL
      BY <2>1, <1>7, ChildIn
    <3> QED
      BY <3>1, <1>6, <1>9 DEF Onward
  <2> QED
    BY <2>1
<1>10. ASSUME NEW m \in Linked' \ {p}
       PROVE  \E t \in Sides :
                /\ f[m] = 1 + Larger(HeightAt(f, Child(m, t)'), HeightAt(f, Child(m, Other(t))'))
                /\ HeightAt(f, Child(m, t)') - HeightAt(f, Child(m, Other(t))') = Tilt(t, balance'[m])
  <2>1. "left" \in Sides /\ Other("left") \in Sides /\ m \in Linked \ {n} /\ m # p
    BY DEF Sides, Other
  <2>2. /\ HeightAt(f, Child(m, "left")') = HeightAt(h, Child(m, "left"))
        /\ HeightAt(f, Child(m, Other("left"))') = HeightAt(h, Child(m, Other("left")))
    BY <2>1, <1>8, <1>9
  <2>3. f[m] = h[m] /\ balance'[m] = balance[m]
    BY <2>1, <1>4
  <2> QED
    BY <2>1, <2>2, <2>3, <1>2
<1>11. \/ p \notin Linked' /\ change' = 0
       \/ \E q \in Sides, e \in {-1, 1}, x \in Nat, y \in Nat :
            /\ pc' = IF e = 1 THEN "insert_balance" ELSE "delete_balance"
            /\ change' = e * Sign(q)
            /\ HeightAt(f, Child(p, q)') = x + e /\ HeightAt(f, Child(p, Other(q))') = y
            /\ f[p] = 1 + Larger(x, y) /\ x - y = Tilt(q, balance'[p])
  <2>1. CASE parent[n] = NULL
    BY <2>1, <1>6, <1>7 DEF Onward
  <2>2. CASE parent[n] # NULL
    <3>1. PICK q \in Sides : q = SlotOf(n)[2] /\ p \in Linked /\ Child(p, q) = n /\ p = parent[n]
      BY <2>2, <1>6, SlotFacts DEF Onward
    <3>2. p # n /\ Child(p, Other(q)) # n
      BY <3>1, <1>7, Generations
    <3>3. HeightAt(f, Child(p, q)') = 0 /\ HeightAt(h, Child(p, q)) = 1
      BY <3>1, <3>2, <1>1, <1>3, <1>7 DEF HeightAt
    <3>4. PICK y \in Nat : y = HeightAt(h, Child(p, Other(q))) /\ HeightAt(f, Child(p, Other(q))') = y
      BY <3>1, <3>2, <1>2, <1>8, SidesFacts
    <3>5. /\ f[p] = 1 + Larger(1, y) /\ 1 - y = Tilt(q, balance'[p])
      BY <3>1, <3>2, <3>3, <3>4, <1>2, <1>4
    <3>6. pc' = "delete_balance" /\ change' = g * Sign(q) /\ g # 1 /\ 0 = 1 + g
      BY <2>2, <3>1 DEF Onward
    <3>7. /\ pc' = IF g = 1 THEN "insert_balance" ELSE "delete_balance"
          /\ HeightAt(f, Child(p, q)') = 1 + g
      BY <3>3, <3>6
    <3> QED
      BY <3>4, <3>5, <3>6, <3>7
  <2> QED
    BY <2>1, <2>2
<1>12. \A m \in Linked' : balance'[m] \in -1 .. 1
  BY <1>2
<1>13. \A m \in Linked', t \in Sides : HeightAt(f, Child(m, t)') \in Nat
  BY <1>1, <1>5, NaturalNext
<1>14. Levelled(f)'
  BY <1>5, <1>6, <1>10, <1>11, <1>12, <1>13, Passed
<1> QED
  BY <1>14

\* An only child is a leaf.
LEMMA OnlyLeaf ==
  ASSUME NEW K, NEW h, Tree(K, h), pc \notin {"insert_balance", "delete_balance"}, change = 0,
         NEW n \in Linked, NEW s \in Sides, Child(n, s) # NULL, Child(n, Other(s)) = NULL
  PROVE  /\ \A t \in Sides : Child(Child(n, s), t) = NULL
         /\ h[n] = 2 /\ balance[Child(n, s)] = 0
<1> USE DEF Tree
<1>1. /\ \A m \in Linked, t \in Sides :
           /\ HeightAt(h, Child(m, t)) \in Nat /\ (HeightAt(h, Child(m, t)) = 0 <=> Child(m, t) = NULL)
           /\ h[m] = 1 + Larger(HeightAt(h, Child(m, t)), HeightAt(h, Child(m, Other(t))))
           /\ HeightAt(h, Child(m, t)) - HeightAt(h, Child(m, Other(t))) = Tilt(t, balance[m])
      /\ \A m \in Linked : h[m] \in Nat \ {0} /\ balance[m] \in -1 .. 1
  BY Settled
<1>2. PICK c \in Linked : c = Child(n, s)
  BY ChildIn
<1>3. h[c] = 1 /\ h[n] = 2
  <2>1. HeightAt(h, Child(n, s)) = h[c] /\ HeightAt(h, Child(n, Other(s))) = 0 /\ Other(s) \in Sides
    BY <1>1, <1>2, SidesFacts DEF HeightAt
  <2>2. h[c] - 0 = Tilt(s, balance[n]) /\ h[n] = 1 + Larger(h[c], 0)
    BY <2>1, <1>1
  <2>3. Tilt(s, balance[n]) \in -1 .. 1
    BY <1>1, TiltFacts
  <2>4. h[c] \in Nat \ {0}
    BY <1>1, <1>2
  <2> QED
    BY <2>2, <2>3, <2>4 DEF Larger
<1>4. ASSUME NEW t \in Sides PROVE Child(c, t) = NULL /\ Tilt(t, balance[c]) = 0
  <2>1. PICK x \in Nat, y \in Nat :
          /\ x = HeightAt(h, Child(c, t)) /\ y = HeightAt(h, Child(c, Other(t)))
          /\ (x = 0 <=> Child(c, t) = NULL)
          /\ h[c] = 1 + Larger(x, y) /\ x - y = Tilt(t, balance[c])
    BY <1>1, <1>2, SidesFacts
  <2> QED
    BY <2>1, <1>3 DEF Larger
<1>5. balance[c] = 0
  <2>1. balance[c] \in Int /\ Tilt(s, balance[c]) = 0
    BY <1>1, <1>2, <1>4
  <2> QED
    BY <2>1, TiltFacts
<1> QED
  BY <1>2, <1>3, <1>4, <1>5

\* With its only child gone, a node has become a leaf, one lower.
LEMMA ReplaceLevels ==
  ASSUME NEW K, NEW h, Tree(K, h), pc \notin {"insert_balance", "delete_balance"}, change = 0,
         NEW n \in Linked, NEW s \in Sides, Child(n, s) # NULL, Child(n, Other(s)) = NULL,
         Tree_Replace(n, Child(n, s)), Linked' = Linked \ {Child(n, s)},
         node' = n, pc' = "delete_balance", change' = 0
  PROVE  balance'[n] = 0 /\ \E f : Levelled(f)'
<1> USE DEF Tree
<1>0. PICK o : o = Child(n, s)
  OBVIOUS
<1>1. /\ \A t \in Sides : Child(o, t) = NULL
      /\ h[n] = 2 /\ balance[o] = 0
  BY <1>0, OnlyLeaf
<1>2. /\ o \in Linked /\ parent[o] = n /\ o # n /\ NULL \notin Linked /\ o # NULL /\ Linked \subseteq Addresses
  BY <1>0, ChildIn, Generations, LinkedFacts
<1>3. /\ WellLinked'
      /\ \A m \in Linked \ {o}, t \in Sides : Child(m, t)' = IF m = n THEN NULL ELSE Child(m, t)
  BY <1>0, <1>1, ReplaceLinks
<1>4. /\ balance'[n] = 0 /\ \A m \in Linked \ {n, o} : balance'[m] = balance[m]
  <2>1. balance' = [balance EXCEPT ![n] = balance[o], ![o] = balance[n]]
    BY <1>0 DEF Tree_Replace
  <2> QED
    BY <2>1, <1>1, <1>2 DEF TypeOK
<1>5. /\ \A m \in Linked, t \in Sides :
           /\ HeightAt(h, Child(m, t)) \in Nat
           /\ h[m] = 1 + Larger(HeightAt(h, Child(m, t)), HeightAt(h, Child(m, Other(t))))
           /\ HeightAt(h, Child(m, t)) - HeightAt(h, Child(m, Other(t))) = Tilt(t, balance[m])
      /\ \A m \in Linked : h[m] \in Nat \ {0} /\ balance[m] \in -1 .. 1
  BY Settled
<1>6. PICK f : f = [m \in Linked \ {o} |-> h[m]]
  OBVIOUS
<1>7. Linked' = Linked \ {o} /\ f \in [Linked' -> Nat]
  BY <1>0, <1>5, <1>6
<1>8. ASSUME NEW m \in Linked \ {n, o}, NEW t \in Sides
      PROVE  HeightAt(f, Child(m, t)') = HeightAt(h, Child(m, t))
  <2>1. Child(m, t)' = Child(m, t) /\ Child(m, t) # o
    BY <1>2, <1>3, ChildIn
  <2>2. Child(m, t) # NULL => Child(m, t) \in Linked
    BY ChildIn
  <2> QED
    BY <2>1, <2>2, <1>6 DEF HeightAt
<1>9. Slack(n)' = 1
  BY <1>4 DEF Slack
<1>10. ASSUME NEW m \in Linked \ {o}
       PROVE  \E t \in Sides :
                /\ f[m] = 1 + Slack(m)' + Larger(HeightAt(f, Child(m, t)'), HeightAt(f, Child(m, Other(t))'))
                /\ HeightAt(f, Child(m, t)') - HeightAt(f, Child(m, Other(t))') =
                     Tilt(t, balance'[m] + IF m = node' THEN change' ELSE 0)
  <2>1. CASE m = n
    <3>1. HeightAt(f, Child(n, s)') = 0 /\ HeightAt(f, Child(n, Other(s))') = 0
      BY <1>2, <1>3, SidesFacts DEF HeightAt
    <3>2. f[n] = 2 /\ balance'[n] + (IF n = node' THEN change' ELSE 0) = 0 /\ Tilt(s, 0) = 0
      BY <1>1, <1>2, <1>4, <1>6, TiltFacts
    <3> QED
      BY <3>1, <3>2, <2>1, <1>9 DEF Larger
  <2>2. CASE m # n
    <3>1. /\ HeightAt(f, Child(m, s)') = HeightAt(h, Child(m, s))
          /\ HeightAt(f, Child(m, Other(s))') = HeightAt(h, Child(m, Other(s)))
      BY <2>2, <1>8, SidesFacts
    <3>2. f[m] = h[m] /\ balance'[m] + (IF m = node' THEN change' ELSE 0) = balance[m]
      BY <2>2, <1>4, <1>5, <1>6
    <3>3. 1 + Slack(m)' = 1
      BY <2>2 DEF Slack
    <3> QED
      BY <3>1, <3>2, <3>3, <1>5
  <2> QED
    BY <2>1, <2>2
<1>11. \A m \in Linked' : balance'[m] \in Int
  BY <1>4, <1>5, <1>7
<1>12. \A m \in Linked', t \in Sides : HeightAt(f, Child(m, t)') \in Nat
  BY <1>3, <1>7, NaturalNext
<1>13. Levelled(f)'
  BY <1>7, <1>10, <1>11, <1>12, LevelledNext
<1> QED
  BY <1>4, <1>13

\* The right child, moved up with the deleted node's balance, has the right side
\* one lower.
LEMMA MoveUpRightLevels ==
  ASSUME NEW K, NEW h, Tree(K, h), pc \notin {"insert_balance", "delete_balance"}, change = 0,
         NEW n \in Linked, Child(n, "left") # NULL, Child(n, "right") # NULL,
         Child(Child(n, "right"), "left") = NULL,
         MoveUpRight(n), Linked' = Linked \ {n}
  PROVE  \E f : Levelled(f)'
<1> USE DEF Tree
<1>0. PICK s, left : s = Child(n, "right") /\ left = Child(n, "left")
  OBVIOUS
<1>1. /\ "left" \in Sides /\ "right" \in Sides /\ Other("right") = "left" /\ Other("left") = "right"
      /\ "left" # "right" /\ Sign("right") = 1
  BY DEF Sides, Other, Sign
<1>2. /\ s \in Linked /\ left \in Linked /\ s # n /\ left # n /\ s # left
      /\ parent[s] = n /\ NULL \notin Linked /\ s # NULL /\ left # NULL /\ Linked \subseteq Addresses
  BY <1>0, <1>1, ChildIn, Generations, LinkedFacts
<1>3. /\ WellLinked'
      /\ \A m \in Linked \ {n}, t \in Sides : Child(m, t)' =
           IF m = s /\ t = "left" THEN left ELSE IF Child(m, t) = n THEN s ELSE Child(m, t)
  BY <1>0, MoveUpRightLinks
<1>4. /\ balance'[s] = balance[n] /\ \A m \in Linked \ {n, s} : balance'[m] = balance[m]
      /\ node' = s /\ pc' = "delete_balance"
  <2>1. balance' = [balance EXCEPT ![s] = balance[n]]
    BY <1>0 DEF MoveUpRight
  <2> QED
    BY <2>1, <1>0, <1>2 DEF TypeOK, MoveUpRight, At
<1>5. /\ \A m \in Linked, t \in Sides :
           /\ HeightAt(h, Child(m, t)) \in Nat
           /\ h[m] = 1 + Larger(HeightAt(h, Child(m, t)), HeightAt(h, Child(m, Other(t))))
           /\ HeightAt(h, Child(m, t)) - HeightAt(h, Child(m, Other(t))) = Tilt(t, balance[m])
      /\ \A m \in Linked : h[m] \in Nat \ {0} /\ balance[m] \in -1 .. 1
  BY Settled
<1>6. PICK f : f = [m \in Linked \ {n} |-> IF m = s THEN h[n] ELSE h[m]]
  OBVIOUS
<1>7. f \in [Linked' -> Nat]
  BY <1>5, <1>6
<1>8. ASSUME NEW m \in Linked \ {n}, NEW t \in Sides, m # s \/ t # "left"
      PROVE  HeightAt(f, Child(m, t)') = HeightAt(h, Child(m, t))
  <2>1. Child(m, t) # NULL => Child(m, t) \in Linked /\ parent[Child(m, t)] = m
    BY ChildIn
  <2>2. CASE Child(m, t) = n
    <3>1. Child(m, t)' = s
      BY <2>2, <1>3, <1>8
    <3> QED
      BY <3>1, <2>2, <1>2, <1>6 DEF HeightAt
  <2>3. CASE Child(m, t) # n
    <3>1. Child(m, t)' = Child(m, t)
      BY <2>3, <1>3, <1>8
    <3>2. Child(m, t) # s
      BY <2>1, <1>2
    <3> QED
      BY <3>1, <3>2, <2>1, <2>3, <1>6 DEF HeightAt
  <2> QED
    BY <2>2, <2>3
<1>9. ASSUME NEW m \in Linked' \ {s}
      PROVE  \E t \in Sides :
               /\ f[m] = 1 + Larger(HeightAt(f, Child(m, t)'), HeightAt(f, Child(m, Other(t))'))
               /\ HeightAt(f, Child(m, t)') - HeightAt(f, Child(m, Other(t))') = Tilt(t, balance'[m])
  <2>1. /\ HeightAt(f, Child(m, "left")') = HeightAt(h, Child(m, "left"))
        /\ HeightAt(f, Child(m, "right")') = HeightAt(h, Child(m, "right"))
    BY <1>1, <1>8
  <2>2. f[m] = h[m] /\ balance'[m] = balance[m]
    BY <1>4, <1>6
  <2> QED
    BY <2>1, <2>2, <1>1, <1>5
<1>10. PICK x \in Nat, y \in Nat : x = h[s] /\ y = h[left]
  BY <1>2, <1>5
<1>11. HeightAt(f, Child(s, "right")') = x - 1
  <2>1. PICK u \in Nat : u = HeightAt(h, Child(s, "right"))
    BY <1>1, <1>2, <1>5
  <2>2. HeightAt(h, Child(s, "left")) = 0
    BY <1>0 DEF HeightAt
  <2>3. x = 1 + Larger(u, 0)
    BY <2>1, <2>2, <1>1, <1>2, <1>5, <1>10
  <2> QED
    BY <2>1, <2>3, <1>1, <1>2, <1>8 DEF Larger
<1>12. HeightAt(f, Child(s, "left")') = y
  <2>1. Child(s, "left")' = left
    BY <1>1, <1>2, <1>3
  <2> QED
    BY <2>1, <1>2, <1>6, <1>10 DEF HeightAt
<1>13. f[s] = 1 + Larger(x, y) /\ x - y = Tilt("right", balance'[s])
  <2>1. HeightAt(h, Child(n, "right")) = x /\ HeightAt(h, Child(n, "left")) = y
    BY <1>0, <1>2, <1>10 DEF HeightAt
  <2>2. h[n] = 1 + Larger(x, y) /\ x - y = Tilt("right", balance[n])
    BY <2>1, <1>1, <1>5
  <2> QED
    BY <2>2, <1>2, <1>4, <1>6
<1>14. PICK g \in {-1, 1} : g = -1
  OBVIOUS
<1>15. /\ pc' = IF g = 1 THEN "insert_balance" ELSE "delete_balance"
       /\ change' = g * Sign("right") /\ x - 1 = x + g
  BY <1>1, <1>4, <1>14 DEF MoveUpRight
<1>16. \E q \in Sides, e \in {-1, 1}, u \in Nat, v \in Nat :
         /\ pc' = IF e = 1 THEN "insert_balance" ELSE "delete_balance"
         /\ change' = e * Sign(q)
         /\ HeightAt(f, Child(s, q)') = u + e /\ HeightAt(f, Child(s, Other(q))') = v
         /\ f[s] = 1 + Larger(u, v) /\ u - v = Tilt(q, balance'[s])
  BY <1>1, <1>10, <1>11, <1>12, <1>13, <1>15
<1>17. \A m \in Linked' : balance'[m] \in -1 .. 1
  BY <1>4, <1>5
<1>18. \A m \in Linked', t \in Sides : HeightAt(f, Child(m, t)') \in Nat
  BY <1>3, <1>7, NaturalNext
<1>19. Levelled(f)'
  BY <1>4, <1>7, <1>9, <1>16, <1>17, <1>18, Passed
<1> QED
  BY <1>19

\* The successor, moved up with the deleted node's balance, has left its old
\* parent's left side one lower.
LEMMA MoveUpSuccessorLevels ==
  ASSUME NEW K, NEW h, Tree(K, h), pc = "successor", change = 0,
         NEW n \in Linked, n = toDelete, NEW s \in Linked, s = node,
         Child(n, "left") # NULL, Child(n, "right") # NULL, s # Child(n, "right"),
         data[s] \in K[Child(n, "right")], Child(s, "left") = NULL,
         \A j \in K[Child(n, "right")] \ K[s], i \in K[s] : i < j,
         MoveUpSuccessor, Linked' = Linked \ {n}
  PROVE  parent[s] \in Linked' /\ \E f : Levelled(f)'
<1> USE DEF Tree
<1>0. PICK left, right, under, p :
        /\ left = Child(n, "left") /\ right = Child(n, "right")
        /\ under = Child(s, "right") /\ p = parent[s]
  OBVIOUS
<1>1. /\ "left" \in Sides /\ "right" \in Sides /\ Other("right") = "left" /\ Other("left") = "right"
      /\ "left" # "right" /\ Sign("left") = -1
  BY DEF Sides, Other, Sign
<1>2. /\ s \notin {n, left, right} /\ under \notin {n, left, right, s}
      /\ left \in Linked \ {n} /\ right \in Linked \ {n} /\ left # right
      /\ WellLinked'
      /\ \A m \in Linked \ {n}, t \in Sides : Child(m, t)' =
           IF m = s THEN IF t = "left" THEN left ELSE right
           ELSE IF Child(m, t) = s THEN under
           ELSE IF Child(m, t) = n THEN s ELSE Child(m, t)
  BY <1>0, MoveUpSuccessorLinks
<1>3. /\ NULL \notin Linked /\ s # NULL /\ Linked \subseteq Addresses
      /\ under # NULL => under \in Linked
  BY <1>0, <1>1, ChildIn, LinkedFacts
<1>4. /\ balance'[s] = balance[n] /\ \A m \in Linked \ {n, s} : balance'[m] = balance[m]
      /\ node' = p /\ pc' = "delete_balance" /\ change' = 1
  <2>1. balance' = [balance EXCEPT ![s] = balance[n]]
    BY DEF MoveUpSuccessor
  <2> QED
    BY <2>1, <1>0, <1>2, <1>3 DEF TypeOK, MoveUpSuccessor, At
<1>5. /\ \A m \in Linked, t \in Sides :
           /\ HeightAt(h, Child(m, t)) \in Nat
           /\ h[m] = 1 + Larger(HeightAt(h, Child(m, t)), HeightAt(h, Child(m, Other(t))))
           /\ HeightAt(h, Child(m, t)) - HeightAt(h, Child(m, Other(t))) = Tilt(t, balance[m])
      /\ \A m \in Linked : h[m] \in Nat \ {0} /\ balance[m] \in -1 .. 1
  BY Settled
<1>6. /\ p \in Linked /\ p # n /\ p # s /\ Child(p, "left") = s /\ Child(p, "right") # s
  <2>1. s # link[Root]
    <3>1. ASSUME s = link[Root] PROVE FALSE
      <4>1. KeysAt(K, s) = Stored /\ data[right] \in Stored /\ data[right] \in K[right]
        BY <3>1, <1>2, KeysFacts DEF Ordered, Stored
      <4>2. data[right] \in K[s]
        BY <4>1, <1>3 DEF KeysAt
      <4>3. K[right] \subseteq K[s] /\ K[s] \subseteq K[right]
        BY <4>2, <1>0, <1>2, Laminar
      <4>4. KeysAt(K, left) \subseteq Stored /\ data[left] \in KeysAt(K, left)
        BY <1>2, <1>3, KeysStored, KeysFacts DEF KeysAt
      <4>5. data[left] \in KeysAt(K, Child(n, "right"))
        BY <4>1, <4>3, <4>4, <1>0, <1>2, <1>3 DEF KeysAt
      <4>6. data[left] < data[n] /\ data[n] < data[left] /\ data[n] \in Int /\ data[left] \in Int
        BY <4>4, <4>5, <1>0, <1>2, LinkedFacts DEF Ordered
      <4> QED
        BY <4>6
    <3> QED
      BY <3>1
  <2>2. PICK q \in Sides : p \in Linked /\ Child(p, q) = s
    BY <2>1, <1>0, SlotFacts
  <2>3. data[p] \in K[right]
    BY <2>2, <1>0, <1>2, <1>3, Above
  <2>4. data[s] \in K[s] /\ data[p] \notin K[s]
    BY <2>2, <1>3, KeysFacts DEF KeysAt
  <2>5. data[s] < data[p] /\ data[s] \in Int /\ data[p] \in Int
    BY <2>2, <2>3, <2>4, <1>0, LinkedFacts
  <2>6. q = "left"
    <3>1. q = "right" => data[p] < data[s]
      BY <2>2, <2>4, <1>3 DEF Ordered, KeysAt
    <3> QED
      BY <3>1, <2>5 DEF Sides
  <2>7. p # n
    BY <2>2, <2>6, <1>0, <1>2
  <2>8. p # s /\ Child(p, "right") # s
    BY <2>2, <2>6, <1>1, <1>3, Generations
  <2> QED
    BY <2>2, <2>6, <2>7, <2>8
<1>7. PICK f : f = [m \in Linked \ {n} |-> IF m = s THEN h[n] ELSE h[m]]
  OBVIOUS
<1>8. f \in [Linked' -> Nat]
  BY <1>5, <1>7
<1>9. ASSUME NEW m \in Linked \ {n, s}, NEW t \in Sides, m # p \/ t # "left"
      PROVE  HeightAt(f, Child(m, t)') = HeightAt(h, Child(m, t))
  <2>1. Child(m, t) # NULL => Child(m, t) \in Linked /\ parent[Child(m, t)] = m
    BY ChildIn
  <2>2. Child(m, t) # s
    BY <2>1, <1>0, <1>3, <1>6, <1>9 DEF Sides
  <2>3. CASE Child(m, t) = n
    <3>1. Child(m, t)' = s
      BY <2>2, <2>3, <1>2, <1>9
    <3> QED
      BY <3>1, <2>3, <1>2, <1>3, <1>7 DEF HeightAt
  <2>4. CASE Child(m, t) # n
    <3>1. Child(m, t)' = Child(m, t)
      BY <2>2, <2>4, <1>2, <1>9
    <3> QED
      BY <3>1, <2>1, <2>2, <2>4, <1>7 DEF HeightAt
  <2> QED
    BY <2>3, <2>4
<1>10. HeightAt(f, Child(s, "left")') = HeightAt(h, left) /\ HeightAt(f, Child(s, "right")') = HeightAt(h, right)
  <2>1. Child(s, "left")' = left /\ Child(s, "right")' = right
    BY <1>1, <1>2
  <2> QED
    BY <2>1, <1>2, <1>7 DEF HeightAt
<1>11. ASSUME NEW m \in Linked' \ {p}
       PROVE  \E t \in Sides :
                /\ f[m] = 1 + Larger(HeightAt(f, Child(m, t)'), HeightAt(f, Child(m, Other(t))'))
                /\ HeightAt(f, Child(m, t)') - HeightAt(f, Child(m, Other(t))') = Tilt(t, balance'[m])
  <2>1. CASE m = s
    <3>1. f[s] = h[n] /\ balance'[s] = balance[n]
      BY <1>2, <1>4, <1>7
    <3> QED
      BY <3>1, <2>1, <1>0, <1>1, <1>5, <1>10
  <2>2. CASE m # s
    <3>1. /\ HeightAt(f, Child(m, "left")') = HeightAt(h, Child(m, "left"))
          /\ HeightAt(f, Child(m, "right")') = HeightAt(h, Child(m, "right"))
      BY <2>2, <1>1, <1>9
    <3>2. f[m] = h[m] /\ balance'[m] = balance[m]
      BY <2>2, <1>4, <1>7
    <3> QED
      BY <3>1, <3>2, <1>1, <1>5
  <2> QED
    BY <2>1, <2>2
<1>12. PICK x \in Nat, y \in Nat : x = h[s] /\ y = HeightAt(h, Child(p, "right"))
  BY <1>1, <1>5, <1>6
<1>13. HeightAt(f, Child(p, "left")') = x - 1
  <2>1. PICK u \in Nat : u = HeightAt(h, under)
    BY <1>0, <1>1, <1>5
  <2>2. HeightAt(h, Child(s, "left")) = 0
    BY DEF HeightAt
  <2>3. x = 1 + Larger(0, u)
    BY <2>1, <2>2, <1>0, <1>1, <1>5, <1>12
  <2>4. Child(p, "left")' = under
    BY <1>1, <1>2, <1>6
  <2>5. HeightAt(f, under) = u
    BY <2>1, <1>2, <1>3, <1>7 DEF HeightAt
  <2> QED
    BY <2>1, <2>3, <2>4, <2>5 DEF Larger
<1>14. HeightAt(f, Child(p, "right")') = y
  BY <1>1, <1>6, <1>9, <1>12
<1>15. f[p] = 1 + Larger(x, y) /\ x - y = Tilt("left", balance'[p])
  <2>1. HeightAt(h, Child(p, "left")) = x
    BY <1>3, <1>6, <1>12 DEF HeightAt
  <2>2. f[p] = h[p] /\ balance'[p] = balance[p]
    BY <1>4, <1>6, <1>7
  <2> QED
    BY <2>1, <2>2, <1>1, <1>5, <1>6, <1>12
<1>16. PICK g \in {-1, 1} : g = -1
  OBVIOUS
<1>17. /\ pc' = IF g = 1 THEN "insert_balance" ELSE "delete_balance"
       /\ change' = g * Sign("left") /\ x - 1 = x + g
  BY <1>1, <1>4, <1>16
<1>18. \E q \in Sides, e \in {-1, 1}, u \in Nat, v \in Nat :
         /\ pc' = IF e = 1 THEN "insert_balance" ELSE "delete_balance"
         /\ change' = e * Sign(q)
         /\ HeightAt(f, Child(p, q)') = u + e /\ HeightAt(f, Child(p, Other(q))') = v
         /\ f[p] = 1 + Larger(u, v) /\ u - v = Tilt(q, balance'[p])
  BY <1>1, <1>12, <1>13, <1>14, <1>15, <1>17
<1>19. \A m \in Linked' : balance'[m] \in -1 .. 1
  BY <1>4, <1>5
<1>20. \A m \in Linked', t \in Sides : HeightAt(f, Child(m, t)') \in Nat
  BY <1>2, <1>8, NaturalNext
<1>21. Levelled(f)'
  BY <1>4, <1>8, <1>11, <1>18, <1>19, <1>20, Passed
<1> QED
  BY <1>0, <1>6, <1>21

-----------------------------------------------------------------------------
(* Steps that only look.  Fits is the inductive invariant with the keys and *)
(* the heights left open.                                                   *)

Fits == \E f, g : TypeOK /\ WellLinked /\ Ordered(f) /\ Levelled(g) /\ InLoop(f, g)

\* Functions that fit are the ones IInv speaks of.
LEMMA FitsIInv == Fits => IInv
BY Canonical DEF Fits, IInv, TheOnly

\* The same after a step.
LEMMA FitsNext == (Fits => IInv)'
BY FitsIInv, PTL

\* Order and links depend on the links, parents and keys only.
LEMMA SameTree ==
  ASSUME NEW K, NEW h, Tree(K, h), UNCHANGED <<link, parent, data>>,
         nodes' \subseteq nodes, Linked' = Linked
  PROVE  /\ WellLinked' /\ Ordered(K)' /\ Stored' = Stored
         /\ \A n, s : Child(n, s)' = Child(n, s)
<1> USE DEF Tree
<1>1. Stored' = Stored
  BY DEF Stored
<1>2. WellLinked'
  BY DEF WellLinked
<1>3. \A n, s : Child(n, s)' = Child(n, s)
  BY DEF Child
<1>4. Ordered(K)'
  <2>1. KeysAt(K, link'[Root]) = Stored'
    BY <1>1 DEF Ordered
  <2> QED
    BY <1>3, <2>1 DEF Ordered, KeysAt
<1> QED
  BY <1>1, <1>2, <1>3, <1>4

\* Heights depend on the links and balances only, outside the two rebalancing
\* loops.
LEMMA SameLevels ==
  ASSUME NEW K, NEW h, Tree(K, h), UNCHANGED <<link, balance>>, Linked' = Linked,
         pc \notin {"insert_balance", "delete_balance"},
         pc' \notin {"insert_balance", "delete_balance"}, change = 0, change' = 0
  PROVE  Levelled(h)'
<1> USE DEF Tree
<1>1. \A n : Slack(n) = 0 /\ Slack(n)' = 0
  BY DEF Slack
<1>2. \A n \in Linked : (IF n = node THEN change ELSE 0) = 0 /\ (IF n = node' THEN change' ELSE 0) = 0
  OBVIOUS
<1>3. h = [n \in Linked |->
            1 + 0 + Larger(HeightAt(h, Child(n, "left")), HeightAt(h, Child(n, "right")))]
  BY <1>1 DEF Levelled
<1>4. \A n, s : Child(n, s)' = Child(n, s)
  BY DEF Child
<1>5. h = [n \in Linked' |->
            1 + Slack(n)' + Larger(HeightAt(h, Child(n, "left")'), HeightAt(h, Child(n, "right")'))]
  BY <1>1, <1>3, <1>4
<1>6. \A n \in Linked :
        HeightAt(h, Child(n, "right")') - HeightAt(h, Child(n, "left")') =
          balance'[n] + IF n = node' THEN change' ELSE 0
  BY <1>2, <1>4 DEF Levelled
<1> QED
  BY <1>5, <1>6 DEF Levelled, HeightAt

\* A step of a call that only looks leaves all of it.
LEMMA Unmoved ==
  ASSUME NEW K, NEW h, Tree(K, h), UNCHANGED <<nodes, fields>>,
         pc \notin {"insert_balance", "delete_balance", "free"},
         pc' \notin {"insert_balance", "delete_balance", "free"}, change = 0, change' = 0
  PROVE  /\ Linked = nodes /\ Linked' = Linked /\ Stored' = Stored
         /\ WellLinked' /\ Ordered(K)' /\ Levelled(h)'
         /\ \A n, s : Child(n, s)' = Child(n, s)
<1>1. Linked = nodes /\ Linked' = Linked
  BY DEF Linked
<1>2. UNCHANGED <<link, parent, data, balance>> /\ nodes' \subseteq nodes
  BY DEF fields
<1>3. WellLinked' /\ Ordered(K)' /\ Stored' = Stored /\ \A n, s : Child(n, s)' = Child(n, s)
  BY <1>1, <1>2, SameTree
<1>4. Levelled(h)'
  BY <1>1, <1>2, SameLevels
<1> QED
  BY <1>1, <1>3, <1>4

\* Between calls and in the loops that only look, nothing is out of place.
LEMMA Looking ==
  ASSUME IInv, pc \notin {"insert_balance", "delete_balance", "free"}
  PROVE  /\ change = 0 /\ Linked = nodes
         /\ \E K, h : Tree(K, h) /\ InLoop(K, h)
<1>1. change = 0
  BY DEF IInv, TypeOK, InLoop, InIdle, InDescent, InSuccessor, InDown, InClimb
<1> QED
  BY <1>1 DEF IInv, Tree, Linked

\* Two nodes, each below the other, are one.
LEMMA Mutual ==
  ASSUME NEW K, NEW h, Tree(K, h), NEW x \in Linked, NEW y \in Linked,
         data[x] \in K[y], data[y] \in K[x]
  PROVE  x = y
<1> USE DEF Tree
<1>1. ASSUME x # y PROVE FALSE
  <2>1. data[y] # data[x]
    BY <1>1, LinkedFacts DEF Ordered
  <2>2. PICK s \in Sides : data[y] \in KeysAt(K, Child(x, s))
    <3>1. data[y] \in KeysAt(K, Child(x, "left")) \/ data[y] \in KeysAt(K, Child(x, "right"))
      BY <2>1 DEF Ordered
    <3> QED
      BY <3>1 DEF Sides
  <2>3. Child(x, s) # NULL /\ Child(x, s) \in Linked /\ data[y] \in K[Child(x, s)]
    BY <2>2, ChildIn DEF KeysAt
  <2>4. K[y] \subseteq K[Child(x, s)]
    BY <2>3, Laminar
  <2>5. data[x] \in KeysAt(K, Child(x, s))
    BY <2>3, <2>4 DEF KeysAt
  <2> QED
    BY <2>5, KeysFacts
<1> QED
  BY <1>1

\* A call ends without a change to the tree.
LEMMA Returns ==
  ASSUME IInv, pc \notin {"insert_balance", "delete_balance", "free"},
         UNCHANGED <<nodes, fields>>, Done
  PROVE  Fits'
<1>1. change = 0
  BY Looking
<1>2. PICK K, h : Tree(K, h)
  BY Looking
<1>3. /\ pc' = "idle" /\ op' = "none" /\ key' = NULL /\ side' = NULL /\ node' = NULL
      /\ change' = 0 /\ toDelete' = NULL
  BY DEF Done, At
<1>4. WellLinked' /\ Ordered(K)' /\ Levelled(h)'
  BY <1>1, <1>2, <1>3, Unmoved
<1>5. TypeOK'
  BY <1>2, <1>3 DEF Tree, TypeOK, fields
<1>6. InLoop(K, h)'
  BY <1>3 DEF InLoop, InIdle
<1> QED
  BY <1>4, <1>5, <1>6 DEF Fits

\* A call is answered at once.
LEMMA Answered ==
  ASSUME IInv, pc = "idle",
         UNCHANGED <<nodes, fields, pc, call, node, change, toDelete>>
  PROVE  Fits'
<1>1. change = 0
  BY Looking
<1>2. PICK K, h : Tree(K, h) /\ InLoop(K, h)
  BY Looking
<1>3. /\ WellLinked' /\ Ordered(K)' /\ Levelled(h)' /\ Linked' = Linked /\ Stored' = Stored
      /\ \A n, s : Child(n, s)' = Child(n, s)
  BY <1>1, <1>2, Unmoved
<1>4. TypeOK'
  BY <1>2 DEF Tree, TypeOK, fields, call
<1>5. InLoop(K, h)'
  BY <1>2 DEF InLoop, InIdle, call
<1> QED
  BY <1>3, <1>4, <1>5 DEF Fits

\* At the root, every key is below.
LEMMA RootFacts ==
  ASSUME NEW K, NEW h, Tree(K, h), link[Root] # NULL
  PROVE  /\ link[Root] \in Linked /\ K[link[Root]] = Stored
         /\ \A n \in Linked \ {link[Root]} : data[link[Root]] \notin K[n]
<1> USE DEF Tree
<1>1. link[Root] \in Linked /\ K[link[Root]] = Stored
  BY NodeFacts DEF KeysAt
<1>2. \A n \in Linked : data[n] \in Stored
  BY DEF Stored
<1> QED
  BY <1>1, <1>2, Mutual

\* A call that begins with a loop: it is enough that the loop's place is right.
LEMMA StartFits ==
  ASSUME IInv, NEW o, NEW k, NEW s, NEW n, NEW loop, Start(o, k, s, n, loop),
         n \in Linked, o \in {"search", "insert", "first", "next"},
         loop \in {"search", "insert", "down", "climb"},
         k \in Keys \cup {NULL}, s \in Sides \cup {NULL},
         NEW K, NEW h, Tree(K, h),
         InLoop(K, h)'
  PROVE  Fits'
<1>1. /\ pc = "idle" /\ pc' = loop /\ op' = o /\ key' = k /\ side' = s /\ node' = n
      /\ UNCHANGED <<nodes, fields>> /\ change' = change /\ toDelete' = toDelete
  BY DEF Start, Begin, At
<1>2. change = 0 /\ Linked = nodes
  BY <1>1, Looking
<1>3. WellLinked' /\ Ordered(K)' /\ Levelled(h)'
  BY <1>1, <1>2, Unmoved
<1>4. n \in Addresses
  BY LinkedFacts DEF Tree
<1>5. TypeOK'
  BY <1>1, <1>4 DEF Tree, TypeOK, fields
<1> QED
  BY <1>3, <1>5 DEF Fits

\* At the root a descent is right, because every key is below it.
LEMMA DescentStarts ==
  ASSUME IInv, NEW o \in {"search", "insert"}, NEW k \in Keys, Start(o, k, NULL, link[Root], o)
  PROVE  Fits'
<1>1. /\ pc = "idle" /\ pc' = o /\ op' = o /\ key' = k /\ side' = NULL /\ node' = link[Root]
      /\ UNCHANGED <<nodes, fields>> /\ change' = change /\ link[Root] # NULL
  BY DEF Start, Begin, At
<1>2. PICK K, h : Tree(K, h)
  BY <1>1, Looking
<1>3. change = 0 /\ Linked = nodes
  BY <1>1, Looking
<1>4. Linked' = Linked /\ Stored' = Stored /\ \A n, s : Child(n, s)' = Child(n, s)
  BY <1>1, <1>2, <1>3, Unmoved
<1>5. InDescent(K)'
  BY <1>1, <1>2, <1>3, <1>4, RootFacts DEF InDescent, fields
<1>6. InLoop(K, h)'
  BY <1>1, <1>5 DEF InLoop
<1> QED
  BY <1>1, <1>2, <1>6, RootFacts, StartFits

\* Tree_SearchNode, called.
LEMMA SearchNodeFits ==
  ASSUME IInv, NEW k \in Keys, Tree_SearchNode(k)
  PROVE  Fits'
<1>1. CASE Start("search", k, NULL, link[Root], "search")
  BY <1>1, DescentStarts
<1>2. CASE ~Start("search", k, NULL, link[Root], "search")
  <2>1. pc = "idle" /\ UNCHANGED <<nodes, fields, pc, call, node, change, toDelete>>
    BY <1>2 DEF Tree_SearchNode, Empty
  <2> QED
    BY <2>1, Answered
<1> QED
  BY <1>1, <1>2

\* Tree_FirstNode and Tree_LastNode, called.
LEMMA OutermostFits ==
  ASSUME IInv, NEW s \in Sides, Outermost(s)
  PROVE  Fits'
<1>1. CASE Start("first", NULL, s, link[Root], "down")
  <2>1. /\ pc = "idle" /\ pc' = "down" /\ op' = "first" /\ key' = NULL /\ side' = s /\ node' = link[Root]
        /\ UNCHANGED <<nodes, fields>> /\ change' = change /\ link[Root] # NULL
    BY <1>1 DEF Start, Begin, At
  <2>2. PICK K, h : Tree(K, h)
    BY <2>1, Looking
  <2>3. change = 0 /\ Linked = nodes
    BY <2>1, Looking
  <2>4. Linked' = Linked /\ Stored' = Stored
    BY <2>1, <2>2, <2>3, Unmoved
  <2>5. Stored' \ K[node'] = {}
    BY <2>1, <2>2, <2>4, RootFacts
  <2>6. InDown(K)'
    BY <2>1, <2>2, <2>3, <2>4, <2>5, RootFacts DEF InDown
  <2>7. InLoop(K, h)'
    BY <2>1, <2>6 DEF InLoop
  <2> QED
    BY <1>1, <2>1, <2>2, <2>7, RootFacts, StartFits
<1>2. CASE ~Start("first", NULL, s, link[Root], "down")
  <2>1. pc = "idle" /\ UNCHANGED <<nodes, fields, pc, call, node, change, toDelete>>
    BY <1>2 DEF Outermost, Empty
  <2> QED
    BY <2>1, Answered
<1> QED
  BY <1>1, <1>2

\* The two children of a node and their keys, seen from a side.
LEMMA SideFacts ==
  ASSUME NEW K, NEW h, Tree(K, h), NEW n \in Linked, NEW s \in Sides
  PROVE  /\ Child(n, s) # NULL =>
              /\ Child(n, s) \in Linked /\ Child(n, s) # n /\ K[Child(n, s)] \subseteq K[n]
              /\ data[Child(n, s)] \in K[Child(n, s)]
              /\ \A i \in K[Child(n, s)] : i \in Int /\ Beyond(s, i, data[n])
         /\ \A j \in K[n] :
              \/ j = data[n]
              \/ Child(n, s) # NULL /\ j \in K[Child(n, s)]
              \/ Child(n, Other(s)) # NULL /\ j \in K[Child(n, Other(s))] /\ Beyond(Other(s), j, data[n])
         /\ K[n] \subseteq Stored /\ Stored \subseteq Int /\ data[n] \in K[n]
<1> USE DEF Tree
<1>1. /\ Child(n, s) # NULL => Child(n, s) \in Linked
      /\ \A t \in Sides : \A j \in KeysAt(K, Child(n, t)) : Beyond(t, j, data[n])
      /\ K[n] = {data[n]} \cup KeysAt(K, Child(n, s)) \cup KeysAt(K, Child(n, Other(s)))
      /\ KeysAt(K, Child(n, s)) \subseteq K[n]
      /\ \A m \in Linked : data[m] \in K[m]
  BY NodeFacts
<1>2. K[n] \subseteq Stored /\ Stored \subseteq Int
  BY KeysStored
<1>3. Child(n, s) # n /\ Other(s) \in Sides
  <2>1. Child(n, s) # NULL => Child(n, s) # n
    BY Generations
  <2> QED
    BY <2>1, SidesFacts, LinkedFacts
<1> QED
  BY <1>1, <1>2, <1>3 DEF KeysAt

\* An iteration of Tree_SearchNode or Tree_Insert that goes down: the key, if
\* stored, is below the child it goes to, and no node passed tells them apart.
LEMMA DescendFits ==
  ASSUME IInv, Descend
  PROVE  Fits'
<1>1. PICK s \in Sides, c \in {Child(node, t) : t \in Sides} :
        /\ s = Toward(key, node) /\ c = Child(node, s) /\ c # NULL
        /\ pc \in {"search", "insert"} /\ data[node] # key /\ node' = c
        /\ UNCHANGED <<nodes, fields, pc, call, change, toDelete>>
  BY DEF Descend, Toward, Sides
<1>2. PICK K, h : Tree(K, h) /\ InLoop(K, h)
  BY <1>1, Looking
<1>3. change = 0 /\ Linked = nodes
  BY <1>1, Looking
<1>4. /\ WellLinked' /\ Ordered(K)' /\ Levelled(h)'
      /\ Linked' = Linked /\ Stored' = Stored /\ \A n, t : Child(n, t)' = Child(n, t)
  BY <1>1, <1>2, <1>3, Unmoved
<1>5. /\ op = pc /\ key \in Keys /\ key \in Int /\ side = NULL /\ node \in Linked
      /\ key \in Stored => key \in K[node]
      /\ \A n \in Linked \ {node} : data[node] \in K[n] =>
           key # data[n] /\ (key < data[n] <=> data[node] < data[n])
  BY <1>1, <1>2, TreeAssumption DEF InLoop, InDescent
<1>6. /\ c \in Linked /\ c # node /\ data[c] \in K[c] /\ K[c] \subseteq K[node]
      /\ data[c] \in Int /\ Beyond(s, data[c], data[node]) /\ data[node] \in Int /\ data[node] \in K[node]
  BY <1>1, <1>2, <1>5, SideFacts
<1>7. Beyond(s, key, data[node])
  BY <1>1, <1>5, <1>6 DEF Toward, Beyond
<1>8. key \in Stored => key \in K[c]
  <2>1. key \in K[node] =>
          \/ key = data[node] \/ key \in K[c] \/ Beyond(Other(s), key, data[node])
    BY <1>1, <1>2, <1>5, SideFacts
  <2>2. ~Beyond(Other(s), key, data[node])
    BY <1>5, <1>6, <1>7 DEF Beyond, Other, Sides
  <2> QED
    BY <2>1, <2>2, <1>1, <1>5
<1>9. ASSUME NEW n \in Linked \ {c}, data[c] \in K[n]
      PROVE  key # data[n] /\ (key < data[n] <=> data[c] < data[n])
  <2>1. data[node] \in K[n]
    BY <1>1, <1>2, <1>5, <1>9, Above
  <2>2. CASE n = node
    BY <2>2, <1>1, <1>5, <1>6, <1>7 DEF Beyond
  <2>3. CASE n # node
    <3>1. key # data[n] /\ (key < data[n] <=> data[node] < data[n])
      BY <2>1, <2>3, <1>5
    <3>2. data[node] # data[n] /\ data[n] \in Int
      BY <2>3, <1>2, <1>5, LinkedFacts DEF Tree, Ordered
    <3>3. PICK t \in Sides : Child(n, t) # NULL /\ data[node] \in K[Child(n, t)]
      <4>1. "left" \in Sides /\ Other("left") \in Sides
        BY DEF Sides, Other
      <4> QED
        BY <4>1, <2>1, <3>2, <1>2, SideFacts
    <3>4. K[node] \subseteq K[Child(n, t)]
      BY <3>3, <1>2, <1>5, SideFacts, Laminar
    <3>5. Beyond(t, data[node], data[n]) /\ Beyond(t, data[c], data[n])
      BY <3>3, <3>4, <1>2, <1>6, SideFacts
    <3> QED
      BY <3>1, <3>2, <3>5, <1>6 DEF Beyond, Sides
  <2> QED
    BY <2>2, <2>3
<1>10. InLoop(K, h)'
  <2>1. InDescent(K)'
    BY <1>1, <1>3, <1>4, <1>5, <1>6, <1>8, <1>9 DEF InDescent, call, fields
  <2> QED
    BY <2>1, <1>1 DEF InLoop
<1>11. TypeOK'
  <2>1. c \in Addresses
    BY <1>2, <1>6, LinkedFacts DEF Tree
  <2> QED
    BY <2>1, <1>1, <1>2 DEF Tree, TypeOK, fields, call
<1> QED
  BY <1>4, <1>10, <1>11 DEF Fits

\* Their returns.
LEMMA FoundFits ==
  ASSUME IInv, Found \/ NotFound
  PROVE  Fits'
<1>1. pc \in {"search", "insert"} /\ UNCHANGED <<nodes, fields>> /\ Done
  BY DEF Found, NotFound, Return
<1> QED
  BY <1>1, Returns

\* Tree_NextNode and Tree_PrevNode, called.
LEMMA NeighbourFits ==
  ASSUME IInv, NEW n \in Addresses, NEW s \in Sides, Neighbour(n, s)
  PROVE  Fits'
<1>1. /\ pc = "idle" /\ pc' \in {"down", "climb"} /\ op' = "next" /\ key' = data[n] /\ side' = s
      /\ UNCHANGED <<nodes, fields>> /\ change' = change /\ toDelete' = toDelete /\ n \in nodes
      /\ \/ pc' = "down" /\ node' = Child(n, s) /\ Child(n, s) # NULL
            /\ Start("next", data[n], s, Child(n, s), "down")
         \/ pc' = "climb" /\ node' = n /\ Child(n, s) = NULL
            /\ Start("next", data[n], s, n, "climb")
  BY DEF Neighbour, Start, Begin, At
<1>2. PICK K, h : Tree(K, h)
  BY <1>1, Looking
<1>3. change = 0 /\ Linked = nodes /\ n \in Linked
  BY <1>1, Looking
<1>4. Linked' = Linked /\ Stored' = Stored
  BY <1>1, <1>2, <1>3, Unmoved
<1>5. /\ data[n] \in Stored /\ data[n] \in Keys /\ data[n] \in Int /\ data[n] \in K[n]
      /\ K[n] \subseteq Stored /\ Stored \subseteq Int
  BY <1>2, <1>3, LinkedFacts, SideFacts DEF Tree, Stored
<1>6. CASE pc' = "down"
  <2>1. PICK c : c = Child(n, s)
    OBVIOUS
  <2>2. /\ c \in Linked /\ node' = c /\ K[c] \subseteq K[n]
        /\ \A i \in K[c] : i \in Int /\ Beyond(s, i, data[n])
    BY <2>1, <1>1, <1>2, <1>3, <1>6, SideFacts
  <2>3. ASSUME NEW j \in Stored \ K[c], NEW i \in K[c], Beyond(s, j, data[n])
        PROVE  Beyond(Other(s), i, j)
    <3>1. j \notin K[n]
      <4>1. j \in K[n] => j = data[n] \/ Beyond(Other(s), j, data[n])
        BY <2>1, <2>3, <1>2, <1>3, SideFacts
      <4> QED
        BY <4>1, <2>3, <1>5, BeyondFacts
    <3>2. PICK t \in Sides : \A z \in K[n] : Beyond(t, j, z)
      BY <3>1, <2>3, <1>2, <1>3, Outside
    <3>3. Beyond(t, j, data[n]) /\ Beyond(t, j, i)
      BY <3>2, <2>2, <2>3, <1>5
    <3> QED
      <4>1. t = s \/ t = Other(s)
        BY DEF Sides, Other
      <4>2. i \in Int /\ j \in Int
        BY <2>2, <2>3, <1>5
      <4> QED
        BY <4>1, <4>2, <3>3, <2>3, <1>5, BeyondFacts
  <2>4. InDown(K)'
    BY <2>2, <2>3, <1>1, <1>3, <1>4, <1>5 DEF InDown
  <2>5. InLoop(K, h)'
    BY <2>4, <1>6 DEF InLoop
  <2> QED
    BY <2>1, <2>2, <2>5, <1>1, <1>2, <1>5, <1>6, StartFits
<1>7. CASE pc' = "climb"
  <2>1. ASSUME NEW j \in K[n] PROVE ~Beyond(s, j, data[n])
    <3>1. j = data[n] \/ Beyond(Other(s), j, data[n])
      BY <2>1, <1>1, <1>2, <1>3, <1>7, SideFacts
    <3> QED
      BY <3>1, <1>5, BeyondFacts
  <2>2. InClimb(K)'
    BY <2>1, <1>1, <1>3, <1>4, <1>5, <1>7 DEF InClimb
  <2>3. InLoop(K, h)'
    BY <2>2, <1>7 DEF InLoop
  <2> QED
    BY <2>3, <1>1, <1>2, <1>3, <1>5, <1>7, StartFits
<1> QED
  BY <1>1, <1>6, <1>7

\* A loop goes on to another node and changes nothing else.
LEMMA MovesOn ==
  ASSUME IInv, pc \in {"successor", "down", "climb"},
         UNCHANGED <<nodes, fields, pc, call, change, toDelete>>,
         node' \in Linked, NEW K, NEW h, Tree(K, h), InLoop(K, h)'
  PROVE  Fits'
<1>1. change = 0 /\ Linked = nodes
  BY Looking
<1>2. WellLinked' /\ Ordered(K)' /\ Levelled(h)'
  BY <1>1, Unmoved
<1>3. node' \in Addresses
  BY LinkedFacts DEF Tree
<1>4. TypeOK'
  BY <1>3 DEF Tree, TypeOK, fields, call
<1> QED
  BY <1>2, <1>4 DEF Fits

\* An iteration of a walk down: what is left behind lies on the far side.
LEMMA DownFits ==
  ASSUME IInv, Down
  PROVE  Fits'
<1>1. PICK s, c : s = (IF op = "first" THEN side ELSE Other(side)) /\ c = Child(node, s)
  OBVIOUS
<1>2. pc = "down" /\ UNCHANGED <<nodes, fields>>
  BY DEF Down
<1>3. CASE c = NULL
  <2>1. Done
    BY <1>1, <1>3 DEF Down, Return
  <2> QED
    BY <2>1, <1>2, Returns
<1>4. CASE c # NULL
  <2>1. node' = c /\ UNCHANGED <<nodes, fields, pc, call, change, toDelete>>
    BY <1>1, <1>2, <1>4 DEF Down
  <2>2. PICK K, h : Tree(K, h) /\ InLoop(K, h)
    BY <1>2, Looking
  <2>3. change = 0 /\ Linked = nodes
    BY <1>2, Looking
  <2>4. Linked' = Linked /\ Stored' = Stored
    BY <1>2, <2>1, <2>2, <2>3, Unmoved
  <2>5. /\ op \in {"first", "next"} /\ side \in Sides /\ node \in Linked /\ s \in Sides
        /\ op = "first" => key = NULL
        /\ op = "next" => key \in Stored /\ \A i \in K[node] : Beyond(side, i, key)
        /\ \A j \in Stored \ K[node], i \in K[node] :
             op = "first" \/ Beyond(side, j, key) => Beyond(s, i, j)
    BY <1>1, <1>2, <2>2, SidesFacts DEF InLoop, InDown
  <2>6. /\ c \in Linked /\ K[c] \subseteq K[node] /\ data[node] \in Int
        /\ \A i \in K[c] : i \in Int /\ Beyond(s, i, data[node])
        /\ Stored \subseteq Int
    BY <1>1, <1>4, <2>2, <2>5, SideFacts, LinkedFacts DEF Tree
  <2>7. ASSUME NEW j \in Stored \ K[c], NEW i \in K[c], op = "first" \/ Beyond(side, j, key)
        PROVE  Beyond(s, i, j)
    <3>1. CASE j \in K[node]
      <4>1. j = data[node] \/ Beyond(Other(s), j, data[node])
        BY <3>1, <2>7, <1>1, <2>2, <2>5, SideFacts
      <4>2. Beyond(s, i, data[node]) /\ i \in Int /\ j \in Int
        BY <2>6, <2>7
      <4> QED
        BY <4>1, <4>2, <2>5, <2>6 DEF Beyond, Other, Sides
    <3>2. CASE j \notin K[node]
      BY <3>2, <2>5, <2>6, <2>7
    <3> QED
      BY <3>1, <3>2
  <2>8. op = "next" => \A i \in K[c] : Beyond(side, i, key)
    BY <2>5, <2>6
  <2>9. /\ op' = op /\ key' = key /\ side' = side /\ change' = 0 /\ pc' = "down"
        /\ s = (IF op' = "first" THEN side' ELSE Other(side'))
    BY <1>1, <1>2, <2>1, <2>3 DEF call
  <2>10. InDown(K)'
    BY <2>1, <2>4, <2>5, <2>6, <2>7, <2>8, <2>9 DEF InDown
  <2>11. InLoop(K, h)'
    BY <2>9, <2>10 DEF InLoop
  <2> QED
    BY <1>2, <2>1, <2>2, <2>6, <2>11, MovesOn
<1> QED
  BY <1>3, <1>4

\* An iteration of a walk up: nothing below is beyond the node the walk left.
LEMMA ClimbFits ==
  ASSUME IInv, Climb
  PROVE  Fits'
<1>1. pc = "climb" /\ UNCHANGED <<nodes, fields>>
  BY DEF Climb
<1>2. PICK p : p = parent[node]
  OBVIOUS
<1>3. CASE ~(p # NULL /\ Child(p, side) = node)
  <2>1. Done
    BY <1>2, <1>3 DEF Climb, Return
  <2> QED
    BY <2>1, <1>1, Returns
<1>4. CASE p # NULL /\ Child(p, side) = node
  <2>1. node' = p /\ UNCHANGED <<nodes, fields, pc, call, change, toDelete>>
    BY <1>1, <1>2, <1>4 DEF Climb
  <2>2. PICK K, h : Tree(K, h) /\ InLoop(K, h)
    BY <1>1, Looking
  <2>3. change = 0 /\ Linked = nodes
    BY <1>1, Looking
  <2>4. Linked' = Linked /\ Stored' = Stored
    BY <1>1, <2>1, <2>2, <2>3, Unmoved
  <2>5. /\ op = "next" /\ side \in Sides /\ node \in Linked
        /\ key \in K[node] /\ \A j \in K[node] : ~Beyond(side, j, key)
    BY <1>1, <2>2 DEF InLoop, InClimb
  <2>6. p \in Linked /\ node # NULL
    BY <1>2, <1>4, <2>2, <2>5, SlotFacts, LinkedFacts DEF Tree
  <2>7. /\ K[node] \subseteq K[p] /\ Beyond(side, key, data[p]) /\ K[p] \subseteq Stored /\ Stored \subseteq Int
        /\ data[p] \in Int /\ key \in Int
    BY <1>4, <2>2, <2>5, <2>6, SideFacts, LinkedFacts DEF Tree
  <2>8. ASSUME NEW j \in K[p] PROVE ~Beyond(side, j, key)
    <3>1. j = data[p] \/ j \in K[node] \/ Beyond(Other(side), j, data[p])
      BY <1>4, <2>2, <2>5, <2>6, <2>8, SideFacts
    <3>2. j \in Int
      BY <2>7, <2>8
    <3> QED
      BY <3>1, <3>2, <2>5, <2>7 DEF Beyond, Other, Sides
  <2>9. op' = op /\ key' = key /\ side' = side /\ change' = 0 /\ pc' = "climb"
    BY <1>1, <2>1, <2>3 DEF call
  <2>10. InClimb(K)'
    BY <2>1, <2>4, <2>5, <2>6, <2>7, <2>8, <2>9 DEF InClimb
  <2>11. InLoop(K, h)'
    BY <2>9, <2>10 DEF InLoop
  <2> QED
    BY <1>1, <2>1, <2>2, <2>6, <2>11, MovesOn
<1> QED
  BY <1>3, <1>4

\* Tree_DeleteNode sets out for the successor.
LEMMA SeekSuccessorFits ==
  ASSUME IInv, NEW n \in Addresses, SeekSuccessor(n)
  PROVE  Fits'
<1>1. PICK r : r = Child(n, "right")
  OBVIOUS
<1>2. /\ pc = "idle" /\ pc' = "successor" /\ op' = "delete" /\ key' = data[n] /\ side' = NULL
      /\ n \in nodes /\ toDelete' = n /\ node' = r /\ change' = change
      /\ Child(n, "left") # NULL /\ r # NULL /\ Child(r, "left") # NULL
      /\ UNCHANGED <<nodes, fields>>
  BY <1>1 DEF SeekSuccessor, BeginDelete, Begin, At
<1>3. PICK K, h : Tree(K, h)
  BY <1>2, Looking
<1>4. change = 0 /\ Linked = nodes /\ n \in Linked
  BY <1>2, Looking
<1>5. /\ WellLinked' /\ Ordered(K)' /\ Levelled(h)' /\ Linked' = Linked
      /\ \A m, t : Child(m, t)' = Child(m, t)
  BY <1>2, <1>3, <1>4, Unmoved
<1>6. r \in Linked
  BY <1>1, <1>2, <1>3, <1>4, ChildIn DEF Tree, Sides
<1>7. Child(toDelete, "right")' = r /\ Child(toDelete, "left")' # NULL /\ Child(node, "left")' # NULL
  BY <1>1, <1>2 DEF Child, fields
<1>8. InDelete'
  BY <1>2 DEF InDelete, fields
<1>9. K[r] \ K[r] = {}
  OBVIOUS
<1>10. InSuccessor(K)'
  BY <1>2, <1>4, <1>5, <1>6, <1>7, <1>8, <1>9 DEF InSuccessor
<1>11. InLoop(K, h)'
  BY <1>2, <1>10 DEF InLoop
<1>12. TypeOK'
  <2>1. r \in Addresses /\ data[n] \in Keys
    BY <1>3, <1>4, <1>6, LinkedFacts DEF Tree
  <2> QED
    BY <2>1, <1>2, <1>3 DEF Tree, TypeOK, fields
<1> QED
  BY <1>5, <1>11, <1>12 DEF Fits

\* An iteration of that search: what is left behind is larger.
LEMMA GoLeftFits ==
  ASSUME IInv, GoLeft
  PROVE  Fits'
<1>1. PICK c, r : c = Child(node, "left") /\ r = Child(toDelete, "right")
  OBVIOUS
<1>2. pc = "successor" /\ c # NULL /\ node' = c /\ UNCHANGED <<nodes, fields, pc, call, change, toDelete>>
  BY <1>1 DEF GoLeft
<1>3. PICK K, h : Tree(K, h) /\ InLoop(K, h)
  BY <1>2, Looking
<1>4. change = 0 /\ Linked = nodes
  BY <1>2, Looking
<1>5. /\ Linked' = Linked /\ \A m, t : Child(m, t)' = Child(m, t)
  BY <1>2, <1>3, <1>4, Unmoved
<1>6. /\ InDelete /\ Child(toDelete, "left") # NULL /\ r # NULL
      /\ node \in Linked /\ K[node] \subseteq K[r]
      /\ \A j \in K[r] \ K[node], i \in K[node] : i < j
  BY <1>1, <1>2, <1>3 DEF InLoop, InSuccessor
<1>7. "left" \in Sides /\ "right" \in Sides
  BY DEF Sides
<1>8. /\ c \in Linked /\ c # node /\ K[c] \subseteq K[node] /\ data[c] \in K[c]
      /\ \A i \in K[c] : i \in Int /\ i < data[node]
      /\ data[node] \in Int /\ data[node] \in K[node] /\ K[node] \subseteq Int
  BY <1>1, <1>2, <1>3, <1>6, <1>7, SideFacts, LinkedFacts DEF Tree, Beyond
<1>9. c # r
  <2>1. data[node] \in K[r] /\ data[c] \in K[node]
    BY <1>6, <1>8
  <2> QED
    BY <2>1, <1>3, <1>6, <1>8, Mutual
<1>10. ASSUME NEW j \in K[r] \ K[c], NEW i \in K[c] PROVE i < j
  <2>1. CASE j \in K[node]
    <3>1. j = data[node] \/ Beyond("right", j, data[node])
      BY <2>1, <1>1, <1>3, <1>6, <1>7, <1>10, SideFacts DEF Other
    <3>2. j \in Int /\ i \in Int /\ i < data[node]
      BY <2>1, <1>8
    <3> QED
      BY <3>1, <3>2, <1>8 DEF Beyond
  <2>2. CASE j \notin K[node]
    BY <2>2, <1>6, <1>8, <1>10
  <2> QED
    BY <2>1, <2>2
<1>11. Child(toDelete, "right")' = r /\ Child(toDelete, "left")' # NULL
  BY <1>1, <1>2, <1>6 DEF Child, fields
<1>12. InDelete'
  BY <1>2, <1>6 DEF InDelete, fields, call
<1>13. K[c] \subseteq K[r]
  BY <1>6, <1>8
<1>14. change' = 0 /\ c \in Linked'
  BY <1>2, <1>4, <1>5, <1>8
<1>15. InSuccessor(K)'
  BY <1>2, <1>6, <1>9, <1>10, <1>11, <1>12, <1>13, <1>14 DEF InSuccessor
<1>16. InLoop(K, h)'
  BY <1>2, <1>15 DEF InLoop
<1> QED
  BY <1>2, <1>3, <1>8, <1>16, MovesOn

-----------------------------------------------------------------------------
(* Steps that change the tree. *)

\* Node_free, the end of a deletion.
LEMMA NodeFreeFits ==
  ASSUME IInv, Node_free
  PROVE  Fits'
<1>1. /\ pc = "free" /\ nodes' = nodes \ {toDelete} /\ UNCHANGED <<link, parent, data, balance>>
      /\ pc' = "idle" /\ op' = "none" /\ key' = NULL /\ side' = NULL /\ node' = NULL
      /\ change' = 0 /\ toDelete' = NULL
  BY DEF Node_free, Return, Done, At, fields
<1>2. PICK K, h : Tree(K, h) /\ InLoop(K, h)
  BY DEF IInv, Tree
<1>3. change = 0
  BY <1>1, <1>2 DEF InLoop
<1>4. Linked' = Linked
  BY <1>1 DEF Linked
<1>5. WellLinked' /\ Ordered(K)'
  BY <1>1, <1>2, <1>4, SameTree
<1>6. Levelled(h)'
  BY <1>1, <1>2, <1>3, <1>4, SameLevels
<1>7. TypeOK'
  BY <1>1, <1>2 DEF Tree, TypeOK
<1>8. InLoop(K, h)'
  BY <1>1 DEF InLoop, InIdle
<1> QED
  BY <1>5, <1>6, <1>7, <1>8 DEF Fits

\* A node is made: what Node_New does to the types.
LEMMA NewTypes ==
  ASSUME TypeOK, NEW a, NEW k \in Keys, NEW x, Node_New(a, k, x),
         link' \in [Slots(Addresses) -> Addresses \cup {NULL}],
         parent' \in [Addresses -> Addresses \cup {NULL}]
  PROVE  /\ nodes' \subseteq Addresses
         /\ data' \in [Addresses -> Keys \cup {NULL}]
         /\ balance' \in [Addresses -> -1 .. 1]
<1>1. 0 \in -1 .. 1
  OBVIOUS
<1> QED
  BY <1>1 DEF TypeOK, Node_New

\* Tree_Insert, called.
LEMMA InsertFits ==
  ASSUME IInv, NEW k \in Keys, Tree_Insert(k)
  PROVE  Fits'
<1>1. CASE Start("insert", k, NULL, link[Root], "insert")
  BY <1>1, DescentStarts
<1>2. CASE ~Start("insert", k, NULL, link[Root], "insert")
  <2>1. PICK a \in Addresses :
          /\ Node_New(a, k, Root) /\ pc = "idle" /\ link[Root] = NULL
          /\ UNCHANGED <<pc, call, node, change, toDelete>>
    BY <1>2 DEF Tree_Insert, Empty
  <2>2. PICK K, h : Tree(K, h) /\ InLoop(K, h)
    BY <2>1, Looking
  <2>3. /\ change = 0 /\ Linked = nodes /\ Linked' = nodes' /\ Root \in Slots(Linked)
    BY <2>1, Looking DEF Linked, Slots
  <2>4. InIdle
    BY <2>1, <2>2 DEF InLoop
  <2>5. /\ WellLinked'
        /\ link' \in [Slots(Addresses) -> Addresses \cup {NULL}]
        /\ parent' \in [Addresses -> Addresses \cup {NULL}]
    BY <2>1, <2>2, <2>3, NewLinks
  <2>6. Linked = {} /\ \E f : Ordered(f)'
    BY <2>1, <2>2, <2>3, NewRootKeys
  <2>7. \E g : Levelled(g)'
    BY <2>1, <2>2, <2>3, <2>4, <2>6, NewRootLevels DEF InIdle
  <2>8. TypeOK'
    BY <2>1, <2>2, <2>5, NewTypes DEF Tree, TypeOK, call
  <2>9. \A f, g : InLoop(f, g)'
    BY <2>1, <2>4 DEF InLoop, InIdle, call
  <2> QED
    BY <2>5, <2>6, <2>7, <2>8, <2>9 DEF Fits
<1> QED
  BY <1>1, <1>2

\* Tree_Insert adds a leaf, for a key that is not stored.
LEMMA InsertLeafFits ==
  ASSUME IInv, InsertLeaf
  PROVE  /\ Fits' /\ key \notin Stored /\ op = "insert" /\ side = NULL
<1>1. PICK s \in Sides, a \in Addresses :
        /\ s = Toward(key, node) /\ Child(node, s) = NULL /\ data[node] # key
        /\ Node_New(a, key, <<node, s>>)
        /\ pc = "insert" /\ pc' = "insert_balance" /\ change' = Sign(s)
        /\ UNCHANGED <<op, key, side, node, toDelete>>
  BY DEF InsertLeaf, Toward, Sides, call, Node_New
<1>2. PICK K, h : Tree(K, h) /\ InLoop(K, h)
  BY <1>1, Looking
<1>3. change = 0 /\ Linked = nodes /\ Linked' = nodes'
  BY <1>1, Looking DEF Linked
<1>4. /\ op = "insert" /\ key \in Keys /\ key \in Int /\ side = NULL /\ node \in Linked
      /\ key \in Stored => key \in K[node]
      /\ \A n \in Linked \ {node} : data[node] \in K[n] =>
           key # data[n] /\ (key < data[n] <=> data[node] < data[n])
  BY <1>1, <1>2, TreeAssumption DEF InLoop, InDescent
<1>5. Beyond(s, key, data[node]) /\ data[node] \in Int
  <2>1. data[node] \in Int
    BY <1>2, <1>4, LinkedFacts DEF Tree
  <2> QED
    BY <2>1, <1>1, <1>4 DEF Toward, Beyond
<1>6. key \notin Stored
  <2>1. key \in K[node] => Beyond(Other(s), key, data[node])
    BY <1>1, <1>2, <1>4, SideFacts
  <2> QED
    BY <2>1, <1>4, <1>5, BeyondFacts
<1>7. PICK n \in Linked : n = node
  BY <1>4
<1>8. <<n, s>> \in Slots(Linked) /\ link[<<n, s>>] = NULL
  BY <1>1, <1>2, <1>7, SlotsFacts DEF Tree, Child
<1>9. /\ Linked' = Linked \cup {a} /\ a \in Addresses \ Linked /\ WellLinked'
      /\ \A m \in Linked, t \in Sides : Child(m, t)' = IF <<m, t>> = <<n, s>> THEN a ELSE Child(m, t)
      /\ link' \in [Slots(Addresses) -> Addresses \cup {NULL}]
      /\ parent' \in [Addresses -> Addresses \cup {NULL}]
  BY <1>1, <1>2, <1>3, <1>7, <1>8, NewLinks
<1>10. PICK f : Ordered(f)'
  BY <1>1, <1>2, <1>3, <1>4, <1>5, <1>6, <1>7, NewKeys
<1>11. PICK g : Levelled(g)' /\ g[a] = 1
  BY <1>1, <1>2, <1>3, <1>7, NewLevels
<1>12. InLoop(f, g)'
  <2>1. change' # 0 /\ Deep(change') = s
    BY <1>1 DEF Sign, Deep, Sides
  <2>2. Child(n, s)' = a /\ a # NULL /\ n \in Linked'
    BY <1>9, TreeAssumption
  <2>3. Child(node, Deep(change))' = a
    BY <2>1, <2>2, <1>1, <1>7 DEF Child
  <2>4. InInsertBalance(g)'
    BY <2>1, <2>2, <2>3, <1>1, <1>4, <1>7, <1>11 DEF InInsertBalance
  <2> QED
    BY <2>4, <1>1 DEF InLoop
<1>13. TypeOK'
  <2>1. change' \in -1 .. 1
    BY <1>1 DEF Sign, Sides
  <2> QED
    BY <2>1, <1>1, <1>2, <1>4, <1>9, NewTypes DEF Tree, TypeOK
<1>14. Fits'
  BY <1>9, <1>10, <1>11, <1>12, <1>13 DEF Fits
<1> QED
  BY <1>4, <1>6, <1>14

\* A node off balance by two has a deep child.
LEMMA DeepFacts ==
  ASSUME NEW K, NEW h, Tree(K, h), node \in Linked, NEW b, b = balance[node] + change, Abs(b) = 2
  PROVE  /\ Deep(b) \in Sides /\ Tilt(Deep(b), b) = 2
         /\ Child(node, Deep(b)) # NULL /\ Child(node, Deep(b)) \in Linked
         /\ h[Child(node, Deep(b))] > 1
         /\ change # 0 /\ Deep(b) = Deep(change)
         /\ balance[Child(node, Deep(b))] \in -1 .. 1
<1> USE DEF Tree
<1>1. balance[node] \in -1 .. 1 /\ change \in -1 .. 1
  BY Heights
<1>2. b \in -2 .. 2 /\ change # 0 /\ Deep(b) = Deep(change)
  BY <1>1 DEF Abs, Deep
<1>3. PICK s \in Sides : s = Deep(b)
  BY DEF Deep, Sides
<1>4. Tilt(s, b) = 2
  BY <1>2, <1>3 DEF Tilt, Deep, Abs
<1>5. PICK x \in Nat, y \in Nat :
        /\ x = HeightAt(h, Child(node, s)) /\ y = HeightAt(h, Child(node, Other(s)))
        /\ x = 0 <=> Child(node, s) = NULL
        /\ x - y = Tilt(s, balance[node] + IF node = node THEN change ELSE 0)
  BY <1>3, SidesFacts, Heights
<1>6. x - y = 2
  BY <1>4, <1>5
<1>7. Child(node, s) # NULL /\ h[Child(node, s)] > 1
  BY <1>5, <1>6 DEF HeightAt
<1>8. Child(node, s) \in Linked
  BY <1>7, ChildIn
<1>9. balance[Child(node, s)] \in -1 .. 1
  BY <1>8, Heights
<1> QED
  BY <1>2, <1>3, <1>4, <1>7, <1>8, <1>9

\* No balance leaves -1 .. 1 in a single rotation of a child that does not lean
\* inwards.
LEMMA RotateTypes ==
  ASSUME TypeOK, NEW n \in Addresses, NEW s \in Sides, NEW c \in Addresses, c = Child(n, s), c # n,
         Rotate(n, s), balance[c] \in {0, Sign(s)}
  PROVE  balance' \in [Addresses -> -1 .. 1]
<1>1. PICK b : b = balance[c] - Sign(s)
  OBVIOUS
<1>2. b \in -1 .. 1 /\ -b \in -1 .. 1
  BY <1>1 DEF Sign
<1>3. balance' = [balance EXCEPT ![c] = b, ![n] = -b]
  BY <1>1 DEF Rotate
<1> QED
  BY <1>2, <1>3 DEF TypeOK

\* Nor in a double rotation.
LEMMA DoubleRotateTypes ==
  ASSUME TypeOK, NEW n, NEW s \in Sides, DoubleRotate(n, s)
  PROVE  balance' \in [Addresses -> -1 .. 1]
<1>1. PICK c, g, x, y :
        /\ balance' = [balance EXCEPT ![n] = x, ![c] = y, ![g] = 0]
        /\ x = (IF balance[g] * Sign(s) > 0 THEN -Sign(s) ELSE 0)
        /\ y = (IF balance[g] * Sign(s) < 0 THEN Sign(s) ELSE 0)
  BY DEF DoubleRotate
<1>2. x \in -1 .. 1 /\ y \in -1 .. 1 /\ 0 \in -1 .. 1
  <2>1. Sign(s) \in {-1, 1}
    BY SidesFacts
  <2>2. -Sign(s) \in -1 .. 1 /\ Sign(s) \in -1 .. 1 /\ 0 \in -1 .. 1
    BY <2>1
  <2>3. x \in {-Sign(s), 0} /\ y \in {Sign(s), 0}
    BY <1>1
  <2> QED
    BY <2>2, <2>3
<1> QED
  BY <1>1, <1>2 DEF TypeOK

\* An iteration of Tree_InsertBalance: both heights and the case that calls for
\* each rotation.
LEMMA InsertBalanceFits ==
  ASSUME IInv, Tree_InsertBalance
  PROVE  Fits'
<1>1. PICK b, s : b = balance[node] + change /\ s = Deep(b)
  OBVIOUS
<1>2. pc = "insert_balance" /\ nodes' = nodes /\ data' = data
  BY DEF Tree_InsertBalance
<1>3. PICK K, h : Tree(K, h) /\ InLoop(K, h)
  BY DEF IInv, Tree
<1>4. PICK n \in Linked : n = node
  BY <1>2, <1>3 DEF InLoop, InInsertBalance
<1>5. /\ op = "insert" /\ change # 0
      /\ Child(n, Deep(change)) # NULL
      /\ balance[Child(n, Deep(change))] = 0 => h[Child(n, Deep(change))] = 1
  BY <1>2, <1>3, <1>4 DEF InLoop, InInsertBalance
<1>6. b \in Int /\ Linked = nodes /\ Linked \subseteq Addresses /\ NULL \notin Linked
      /\ change \in {-1, 1} /\ n \in Addresses
  <2>1. balance[n] \in -1 .. 1 /\ change \in -1 .. 1
    BY <1>3, Heights DEF Tree
  <2>2. Linked \subseteq Addresses /\ NULL \notin Linked
    BY <1>3, LinkedFacts DEF Tree
  <2> QED
    BY <2>1, <2>2, <1>1, <1>2, <1>4, <1>5 DEF Linked
<1>7. Done => /\ pc' = "idle" /\ op' = "none" /\ key' = NULL /\ side' = NULL /\ node' = NULL
              /\ change' = 0 /\ toDelete' = NULL
  BY DEF Done, At
<1>8. Done => \A f, g : InLoop(f, g)'
  BY <1>7 DEF InLoop, InIdle
<1>9. CASE Abs(b) < 2
  <2>1. /\ balance' = [balance EXCEPT ![n] = b] /\ UNCHANGED <<link, parent>>
        /\ IF b = 0 THEN Done ELSE Up(n, 1, pc, Done)
    BY <1>1, <1>4, <1>6, <1>9 DEF Tree_InsertBalance, Abs
  <2>2. b \in -1 .. 1
    BY <1>6, <1>9 DEF Abs
  <2>3. PICK g \in {0, 1} : g = -Slack(n) /\ (b = 0 <=> g = 0)
    <3>1. PICK z \in {-1, 0} : z = Slack(n) /\ (b = 0 <=> z = 0)
      BY <1>1, <1>2, <1>4 DEF Slack
    <3>2. -z \in {0, 1} /\ (z = 0 <=> -z = 0)
      OBVIOUS
    <3> QED
      BY <3>1, <3>2
  <2>4. /\ Onward(n, g) /\ Linked' = Linked
        /\ \/ Done
           \/ /\ b # 0 /\ parent[n] # NULL /\ node' = parent[n] /\ pc' = pc
              /\ change' = Sign(SlotOf(n)[2]) /\ UNCHANGED <<call, toDelete>>
    <3>1. CASE b = 0
      BY <3>1, <2>1, <2>3, <1>2, <1>6, <1>7 DEF Onward, Linked
    <3>2. CASE b # 0
      <4>1. g = 1 /\ Up(n, 1, pc, Done)
        BY <3>2, <2>1, <2>3
      <4>2. Onward(n, 1)
        BY <4>1, <1>2, <1>7 DEF Up, Onward, At
      <4>3. \/ Done
            \/ /\ parent[n] # NULL /\ node' = parent[n] /\ pc' = pc
               /\ change' = 1 * Sign(SlotOf(n)[2]) /\ UNCHANGED <<call, toDelete>>
        BY <4>1 DEF Up, At
      <4>4. 1 * Sign(SlotOf(n)[2]) = Sign(SlotOf(n)[2])
        BY DEF Sign
      <4>5. Linked' = Linked
        BY <4>3, <1>2, <1>6, <1>7 DEF Linked
      <4> QED
        BY <4>1, <4>2, <4>3, <4>4, <4>5, <3>2
    <3> QED
      BY <3>1, <3>2
  <2>5. WellLinked' /\ Ordered(K)' /\ \A m, t : Child(m, t)' = Child(m, t)
    BY <2>1, <2>4, <1>2, <1>3, SameTree
  <2>6. PICK f : Levelled(f)'
    <3>1. g \in {-1, 0, 1} /\ link' = link
      BY <2>1
    <3> QED
      BY <3>1, <2>1, <2>2, <2>3, <2>4, <2>5, <1>1, <1>3, <1>4, BalanceLevels
  <2>7. balance'[n] = b
    BY <2>1, <1>3, <1>6 DEF Tree, TypeOK
  <2>8. CASE Done
    <3>1. balance' \in [Addresses -> -1 .. 1]
      BY <2>1, <2>2, <1>3 DEF Tree, TypeOK
    <3>2. link' = link /\ parent' = parent
      BY <2>1
    <3>3. TypeOK'
      BY <2>8, <3>1, <3>2, <1>2, <1>3, <1>7 DEF Tree, TypeOK
    <3> QED
      BY <2>5, <2>6, <2>8, <3>3, <1>8 DEF Fits
  <2>9. CASE ~Done
    <3>1. PICK p, q :
            /\ p = parent[n] /\ q = SlotOf(n)[2] /\ p # NULL /\ b # 0 /\ node' = p /\ pc' = pc
            /\ change' = Sign(q) /\ UNCHANGED <<call, toDelete>>
      BY <2>4, <2>9
    <3>2. p \in Linked /\ q \in Sides /\ Child(p, q) = n
      BY <3>1, <1>3, SlotFacts DEF Tree
    <3>3. change' # 0 /\ Deep(change') = q /\ change' \in -1 .. 1
      BY <3>1, <3>2 DEF Sign, Deep, Sides
    <3>4. Child(node, Deep(change))' = n
      <4>1. Child(p, q)' = n
        BY <2>5, <3>2
      <4> QED
        BY <4>1, <3>1, <3>3 DEF Child
    <3>5. InInsertBalance(f)'
      BY <2>4, <2>7, <3>1, <3>2, <3>3, <3>4, <1>5, <1>6 DEF InInsertBalance, call
    <3>6. InLoop(K, f)'
      BY <3>1, <3>5, <1>2 DEF InLoop
    <3>7. TypeOK'
      BY <2>1, <2>2, <3>1, <3>2, <3>3, <1>2, <1>3, <1>6 DEF Tree, TypeOK, call
    <3> QED
      BY <2>5, <2>6, <3>6, <3>7 DEF Fits
  <2> QED
    BY <2>8, <2>9
<1>10. CASE ~(Abs(b) < 2)
  <2>1. /\ Abs(b) = 2 /\ Done
        /\ IF balance[Child(n, s)] = Sign(s) THEN Rotate(n, s) ELSE DoubleRotate(n, s)
    BY <1>1, <1>4, <1>10 DEF Tree_InsertBalance
  <2>2. PICK c \in Linked : c = Child(n, s)
    BY <2>1, <1>1, <1>3, <1>4, DeepFacts
  <2>3. /\ s \in Sides /\ Tilt(s, b) = 2 /\ c # NULL /\ h[c] > 1 /\ s = Deep(change)
        /\ balance[c] \in -1 .. 1
    BY <2>1, <2>2, <1>1, <1>3, <1>4, DeepFacts
  <2>4. balance[c] # 0
    <3>1. h[c] # 1
      BY <2>2, <2>3, <1>3 DEF Tree, Levelled
    <3> QED
      BY <3>1, <2>2, <2>3, <1>5
  <2>5. Linked' = Linked
    BY <2>1, <1>2, <1>6, <1>7 DEF Linked
  <2>6. PICK g \in {-1, 0, 1} : g = -1 - Slack(n) /\ g = 0
    <3>1. Slack(n) = -1
      <4>1. b # 0
        BY <2>1 DEF Abs
      <4> QED
        BY <4>1, <1>1, <1>2, <1>4 DEF Slack
    <3> QED
      BY <3>1
  <2>7. Onward(n, g)
    BY <2>1, <2>6, <1>7 DEF Onward
  <2>8. c # n /\ c \in Addresses
    BY <2>2, <2>3, <1>3, <1>6, Generations
  <2>9. CASE balance[c] = Sign(s)
    <3>1. Rotate(n, s)
      BY <2>1, <2>2, <2>9
    <3>2. /\ WellLinked'
          /\ link' \in [Slots(Addresses) -> Addresses \cup {NULL}]
          /\ parent' \in [Addresses -> Addresses \cup {NULL}]
      BY <3>1, <2>2, <2>3, <2>5, <1>3, RotateLinks
    <3>3. \E f : Ordered(f)'
      BY <3>1, <2>2, <2>3, <2>5, <1>2, <1>3, RotateKeys
    <3>4. \E f : Levelled(f)'
      BY <3>1, <2>2, <2>3, <2>5, <2>6, <2>7, <2>9, <1>1, <1>3, <1>4, RotateLevels
    <3>5. balance' \in [Addresses -> -1 .. 1]
      BY <3>1, <2>2, <2>3, <2>8, <2>9, <1>3, <1>6, RotateTypes DEF Tree
    <3>6. TypeOK'
      BY <3>2, <3>5, <2>1, <1>2, <1>3, <1>7 DEF Tree, TypeOK
    <3> QED
      BY <2>1, <3>2, <3>3, <3>4, <3>6, <1>8 DEF Fits
  <2>10. CASE balance[c] # Sign(s)
    <3>1. DoubleRotate(n, s) /\ balance[c] = -Sign(s)
      BY <2>1, <2>2, <2>3, <2>4, <2>10 DEF Sign, Sides
    <3>2. Child(c, Other(s)) # NULL
      BY <3>1, <2>2, <2>3, <1>3, <1>4, InnerThere
    <3>3. /\ WellLinked'
          /\ link' \in [Slots(Addresses) -> Addresses \cup {NULL}]
          /\ parent' \in [Addresses -> Addresses \cup {NULL}]
      BY <3>1, <3>2, <2>2, <2>3, <2>5, <1>3, DoubleRotateLinks
    <3>4. \E f : Ordered(f)'
      BY <3>1, <3>2, <2>2, <2>3, <2>5, <1>2, <1>3, DoubleRotateKeys
    <3>5. \E f : Levelled(f)'
      BY <3>1, <2>2, <2>3, <2>5, <2>6, <2>7, <1>1, <1>3, <1>4, DoubleRotateLevels
    <3>6. balance' \in [Addresses -> -1 .. 1]
      BY <3>1, <2>3, <1>3, DoubleRotateTypes DEF Tree
    <3>7. TypeOK'
      BY <3>3, <3>6, <2>1, <1>2, <1>3, <1>7 DEF Tree, TypeOK
    <3> QED
      BY <2>1, <3>3, <3>4, <3>5, <3>7, <1>8 DEF Fits
  <2> QED
    BY <2>9, <2>10
<1> QED
  BY <1>9, <1>10

\* How an iteration of the loop of Tree_DeleteBalance ends: g is what the
\* height of the node has changed by.
Ends(n, g) ==
  \/ g = 0 /\ Free
  \/ g # 0 /\ Up(n, g, pc, Free)

\* How an iteration of Tree_DeleteBalance ends: at Node_free, or one level up.
LEMMA EndsFacts ==
  ASSUME NEW K, NEW h, Tree(K, h), InDelete, pc = "delete_balance", nodes' = nodes, data' = data,
         NEW n \in Linked, NEW g \in {-1, 0}, Ends(n, g)
  PROVE  /\ Onward(n, g) /\ Linked' = Linked
         /\ \A f, e : InLoop(f, e)'
         /\ pc' \in {"free", "delete_balance"} /\ node' \in Addresses \cup {NULL} /\ change' \in -1 .. 1
         /\ UNCHANGED <<op, key, side, toDelete>>
<1>1. CASE Free
  <2>1. pc' = "free" /\ node' = NULL /\ change' = 0 /\ UNCHANGED <<op, key, side, toDelete>>
    BY <1>1 DEF Free, At, call
  <2>2. Linked' = Linked
    BY <2>1 DEF Linked
  <2>3. InDelete'
    BY <2>1 DEF InDelete
  <2>4. \A f, e : InLoop(f, e)'
    BY <2>1, <2>3 DEF InLoop
  <2>5. g = 0 \/ parent[n] = NULL
    <3>1. g = 0 \/ (g # 0 /\ Up(n, g, pc, Free))
      BY DEF Ends
    <3>2. CASE parent[n] # NULL /\ g # 0
      <4>1. At(pc, parent[n])
        BY <3>1, <3>2 DEF Up
      <4> QED
        BY <4>1, <2>1 DEF At
    <3> QED
      BY <3>2
  <2> QED
    BY <2>1, <2>2, <2>4, <2>5 DEF Onward
<1>2. CASE ~Free
  <2>1. g = -1 /\ Up(n, g, pc, Free) /\ parent[n] # NULL
    BY <1>2 DEF Ends, Up
  <2>2. PICK p, q : p = parent[n] /\ q = SlotOf(n)[2]
    OBVIOUS
  <2>3. p \in Linked /\ q \in Sides
    BY <2>1, <2>2, SlotFacts DEF Tree
  <2>4. /\ node' = p /\ pc' = "delete_balance" /\ UNCHANGED <<op, key, side, toDelete>>
        /\ change' = g * Sign(q)
    BY <2>1, <2>2 DEF Up, At, call
  <2>5. Sign(q) \in {-1, 1}
    BY <2>3, SidesFacts
  <2>6. g * Sign(q) \in {-1, 1}
    BY <2>1, <2>5
  <2>7. Linked' = Linked
    BY <2>4 DEF Linked
  <2>8. InDelete'
    BY <2>4 DEF InDelete
  <2>9. change' \in {-1, 1}
    BY <2>4, <2>6
  <2>10. InDeleteBalance'
    BY <2>3, <2>4, <2>7, <2>8, <2>9 DEF InDeleteBalance
  <2>11. \A f, e : InLoop(f, e)'
    BY <2>4, <2>10 DEF InLoop
  <2>12. p \in Addresses
    BY <2>3, LinkedFacts DEF Tree
  <2>13. Onward(n, g)
    BY <2>1, <2>2, <2>4 DEF Onward
  <2> QED
    BY <2>4, <2>7, <2>9, <2>11, <2>12, <2>13
<1> QED
  BY <1>1, <1>2

\* An iteration of Tree_DeleteBalance.
LEMMA DeleteBalanceFits ==
  ASSUME IInv, Tree_DeleteBalance
  PROVE  Fits'
<1>1. PICK b, s : b = balance[node] + change /\ s = Deep(b)
  OBVIOUS
<1>2. pc = "delete_balance" /\ nodes' = nodes /\ data' = data
  BY DEF Tree_DeleteBalance
<1>3. PICK K, h : Tree(K, h) /\ InLoop(K, h)
  BY DEF IInv, Tree
<1>4. PICK n \in Linked : n = node
  BY <1>2, <1>3 DEF InLoop, InDeleteBalance
<1>5. InDelete
  BY <1>2, <1>3 DEF InLoop, InDeleteBalance
<1>6. /\ b \in Int /\ Linked \subseteq Addresses /\ NULL \notin Linked /\ n \in Addresses
  <2>1. balance[n] \in -1 .. 1 /\ change \in -1 .. 1
    BY <1>3, Heights DEF Tree
  <2>2. Linked \subseteq Addresses /\ NULL \notin Linked
    BY <1>3, LinkedFacts DEF Tree
  <2> QED
    BY <2>1, <2>2, <1>1, <1>4
<1>7. CASE Abs(b) < 2
  <2>1. /\ balance' = [balance EXCEPT ![n] = b] /\ UNCHANGED <<link, parent>>
        /\ IF b # 0 THEN Free ELSE Up(n, -1, pc, Free)
    BY <1>1, <1>4, <1>6, <1>7 DEF Tree_DeleteBalance, Abs
  <2>2. b \in -1 .. 1
    BY <1>6, <1>7 DEF Abs
  <2>3. PICK g \in {-1, 0} : g = -Slack(n) /\ (b = 0 <=> g = -1)
    <3>1. PICK z \in {0, 1} : z = Slack(n) /\ (b = 0 <=> z = 1)
      BY <1>1, <1>2, <1>4 DEF Slack
    <3>2. -z \in {-1, 0} /\ (z = 1 <=> -z = -1)
      OBVIOUS
    <3> QED
      BY <3>1, <3>2
  <2>4. Ends(n, g)
    BY <2>1, <2>3 DEF Ends
  <2>5. /\ Onward(n, g) /\ Linked' = Linked /\ \A f, e : InLoop(f, e)'
        /\ pc' \in {"free", "delete_balance"} /\ node' \in Addresses \cup {NULL} /\ change' \in -1 .. 1
        /\ UNCHANGED <<op, key, side, toDelete>>
    BY <2>4, <1>2, <1>3, <1>5, EndsFacts
  <2>6. WellLinked' /\ Ordered(K)'
    BY <2>1, <2>5, <1>2, <1>3, SameTree
  <2>7. \E f : Levelled(f)'
    <3>1. g \in {-1, 0, 1} /\ link' = link
      BY <2>1
    <3> QED
      BY <3>1, <2>1, <2>2, <2>3, <2>5, <2>6, <1>1, <1>3, <1>4, BalanceLevels
  <2>8. balance' \in [Addresses -> -1 .. 1]
    BY <2>1, <2>2, <1>3 DEF Tree, TypeOK
  <2>9. TypeOK'
    BY <2>1, <2>5, <2>8, <1>2, <1>3 DEF Tree, TypeOK
  <2> QED
    BY <2>5, <2>6, <2>7, <2>9 DEF Fits
<1>8. CASE ~(Abs(b) < 2)
  <2>1. PICK c : c = Child(n, s)
    OBVIOUS
  <2>2. /\ Abs(b) = 2
        /\ \/ /\ balance[c] * Sign(s) >= 0 /\ Rotate(n, s)
              /\ IF balance[c] = 0 THEN Free ELSE Up(n, -1, pc, Free)
           \/ balance[c] * Sign(s) < 0 /\ DoubleRotate(n, s) /\ Up(n, -1, pc, Free)
    BY <2>1, <1>1, <1>4, <1>8 DEF Tree_DeleteBalance
  <2>3. /\ s \in Sides /\ Tilt(s, b) = 2 /\ c # NULL /\ c \in Linked
        /\ balance[c] \in -1 .. 1
    BY <2>1, <2>2, <1>1, <1>3, <1>4, DeepFacts
  <2>4. balance[c] * Sign(s) = Tilt(s, balance[c]) /\ Tilt(s, balance[c]) \in -1 .. 1
    <3>1. balance[c] \in Int
      BY <2>3
    <3> QED
      BY <3>1, <2>3, TiltFacts
  <2>5. Slack(n) = 0
    <3>1. b # 0
      BY <2>2 DEF Abs
    <3> QED
      BY <3>1, <1>1, <1>2, <1>4 DEF Slack
  <2>6. c # n /\ c \in Addresses
    BY <2>1, <2>3, <1>3, <1>6, Generations
  <2>7. PICK g \in {-1, 0} : (g = 0 <=> balance[c] = 0) /\ Ends(n, g)
    <3>1. CASE balance[c] = 0
      <4>1. Free
        BY <3>1, <2>2, <2>3 DEF Sign
      <4> QED
        BY <4>1, <3>1 DEF Ends
    <3>2. CASE balance[c] # 0
      <4>1. Up(n, -1, pc, Free)
        BY <3>2, <2>2
      <4> QED
        BY <4>1, <3>2 DEF Ends
    <3> QED
      BY <3>1, <3>2
  <2>8. /\ Onward(n, g) /\ Linked' = Linked /\ \A f, e : InLoop(f, e)'
        /\ pc' \in {"free", "delete_balance"} /\ node' \in Addresses \cup {NULL} /\ change' \in -1 .. 1
        /\ UNCHANGED <<op, key, side, toDelete>>
    BY <2>7, <1>2, <1>3, <1>5, EndsFacts
  <2>9. PICK d \in {-1, 0, 1} : d = g
    OBVIOUS
  <2>10. CASE balance[c] * Sign(s) >= 0
    <3>1. Rotate(n, s)
      BY <2>2, <2>3, <2>10 DEF Sign
    <3>2. /\ WellLinked'
          /\ link' \in [Slots(Addresses) -> Addresses \cup {NULL}]
          /\ parent' \in [Addresses -> Addresses \cup {NULL}]
      BY <3>1, <2>1, <2>3, <2>8, <1>3, RotateLinks
    <3>3. \E f : Ordered(f)'
      BY <3>1, <2>1, <2>3, <2>8, <1>2, <1>3, RotateKeys
    <3>4. balance[c] = 0 \/ balance[c] = Sign(s)
      BY <2>3, <2>10 DEF Sign
    <3>5. \/ balance[c] = Sign(s) /\ d = -1 - Slack(n)
          \/ balance[c] = 0 /\ Slack(n) = 0 /\ d = 0
      <4>1. CASE balance[c] = 0
        BY <4>1, <2>5, <2>7, <2>9
      <4>2. CASE balance[c] # 0
        <5>1. d = -1 /\ -1 - 0 = -1
          BY <4>2, <2>7, <2>9
        <5> QED
          BY <5>1, <4>2, <3>4, <2>5
      <4> QED
        BY <4>1, <4>2
    <3>6. \E f : Levelled(f)'
      <4>1. Onward(n, d)
        BY <2>8, <2>9
      <4> QED
        BY <4>1, <3>1, <3>5, <2>1, <2>3, <2>8, <1>1, <1>3, <1>4, RotateLevels
    <3>7. balance' \in [Addresses -> -1 .. 1]
      BY <3>1, <3>4, <2>1, <2>3, <2>6, <1>3, <1>6, RotateTypes DEF Tree
    <3>8. TypeOK'
      BY <3>2, <3>7, <2>8, <1>2, <1>3 DEF Tree, TypeOK
    <3> QED
      BY <2>8, <3>2, <3>3, <3>6, <3>8 DEF Fits
  <2>11. CASE ~(balance[c] * Sign(s) >= 0)
    <3>1. DoubleRotate(n, s) /\ balance[c] = -Sign(s) /\ balance[c] # 0
      BY <2>2, <2>3, <2>11 DEF Sign
    <3>2. Child(c, Other(s)) # NULL
      BY <3>1, <2>1, <2>3, <1>3, <1>4, InnerThere
    <3>3. /\ WellLinked'
          /\ link' \in [Slots(Addresses) -> Addresses \cup {NULL}]
          /\ parent' \in [Addresses -> Addresses \cup {NULL}]
      BY <3>1, <3>2, <2>1, <2>3, <2>8, <1>3, DoubleRotateLinks
    <3>4. \E f : Ordered(f)'
      BY <3>1, <3>2, <2>1, <2>3, <2>8, <1>2, <1>3, DoubleRotateKeys
    <3>5. Onward(n, d) /\ d = -1 - Slack(n)
      <4>1. d = -1 /\ -1 - 0 = -1
        BY <3>1, <2>7, <2>9
      <4> QED
        BY <4>1, <2>5, <2>8, <2>9
    <3>6. \E f : Levelled(f)'
      BY <3>1, <3>5, <2>1, <2>3, <2>8, <1>1, <1>3, <1>4, DoubleRotateLevels
    <3>7. balance' \in [Addresses -> -1 .. 1]
      BY <3>1, <2>3, <1>3, DoubleRotateTypes DEF Tree
    <3>8. TypeOK'
      BY <3>3, <3>7, <2>8, <1>2, <1>3 DEF Tree, TypeOK
    <3> QED
      BY <2>8, <3>3, <3>4, <3>6, <3>8 DEF Fits
  <2> QED
    BY <2>10, <2>11
<1> QED
  BY <1>7, <1>8

\* Tree_DeleteNode of a leaf.
LEMMA DeleteLeafFits ==
  ASSUME IInv, NEW n \in Addresses, DeleteLeaf(n)
  PROVE  Fits'
<1>1. /\ pc = "idle" /\ n \in nodes /\ op' = "delete" /\ key' = data[n] /\ side' = NULL /\ toDelete' = n
      /\ Child(n, "left") = NULL /\ Child(n, "right") = NULL
      /\ link' = [link EXCEPT ![SlotOf(n)] = NULL]
      /\ UNCHANGED <<nodes, parent, data, balance>>
      /\ IF parent[n] = NULL THEN pc' = "free" /\ node' = NULL /\ change' = 0
         ELSE pc' = "delete_balance" /\ node' = parent[n] /\ change' = -Sign(SlotOf(n)[2])
  BY DEF DeleteLeaf, BeginDelete, Begin, At
<1>2. PICK K, h : Tree(K, h)
  BY <1>1, Looking
<1>3. change = 0 /\ Linked = nodes /\ n \in Linked /\ Linked' = Linked \ {n}
  BY <1>1, Looking DEF Linked
<1>4. WellLinked' /\ link' \in [Slots(Addresses) -> Addresses \cup {NULL}]
  BY <1>1, <1>2, <1>3, CutLinks
<1>5. \E f : Ordered(f)'
  BY <1>1, <1>2, <1>3, CutKeys
<1>6. PICK g \in {-1, 1} : g = -1
  OBVIOUS
<1>7. CASE parent[n] = NULL
  <2>1. Onward(n, g)
    BY <1>1, <1>7 DEF Onward
  <2>2. \E f : Levelled(f)'
    BY <2>1, <1>1, <1>2, <1>3, <1>6, CutLevels
  <2>3. InDelete'
    BY <1>1 DEF InDelete
  <2>4. \A f, e : InLoop(f, e)'
    BY <2>3, <1>1, <1>7 DEF InLoop
  <2>5. data[n] \in Keys
    BY <1>2, <1>3, LinkedFacts DEF Tree
  <2>6. TypeOK'
    BY <2>5, <1>1, <1>2, <1>4, <1>7 DEF Tree, TypeOK
  <2> QED
    BY <2>2, <2>4, <2>6, <1>4, <1>5 DEF Fits
<1>8. CASE parent[n] # NULL
  <2>1. PICK p, q : p = parent[n] /\ q = SlotOf(n)[2]
    OBVIOUS
  <2>2. p \in Linked /\ q \in Sides /\ Child(p, q) = n
    BY <2>1, <1>2, <1>3, <1>8, SlotFacts DEF Tree
  <2>3. p # n
    BY <2>2, <1>2, <1>3, Generations, LinkedFacts DEF Tree
  <2>4. change' = g * Sign(q) /\ change' \in {-1, 1}
    <3>1. change' = -Sign(q) /\ Sign(q) \in {-1, 1}
      BY <2>1, <2>2, <1>1, <1>8, SidesFacts
    <3> QED
      BY <3>1, <1>6
  <2>5. Onward(n, g)
    BY <2>1, <2>4, <1>1, <1>6, <1>8 DEF Onward
  <2>6. \E f : Levelled(f)'
    BY <2>5, <1>1, <1>2, <1>3, <1>6, CutLevels
  <2>7. InDelete'
    BY <1>1 DEF InDelete
  <2>8. InDeleteBalance'
    BY <2>1, <2>2, <2>3, <2>4, <2>7, <1>1, <1>3, <1>8 DEF InDeleteBalance
  <2>9. \A f, e : InLoop(f, e)'
    BY <2>8, <1>1, <1>8 DEF InLoop
  <2>10. data[n] \in Keys /\ p \in Addresses
    BY <2>2, <1>2, <1>3, LinkedFacts DEF Tree
  <2>11. TypeOK'
    BY <2>1, <2>4, <2>10, <1>1, <1>2, <1>4, <1>8 DEF Tree, TypeOK
  <2> QED
    BY <2>6, <2>9, <2>11, <1>4, <1>5 DEF Fits
<1> QED
  BY <1>7, <1>8

\* Tree_DeleteNode of a node with one child, by Tree_Replace; the keys of the
\* allocated nodes stay the same until Node_free.
LEMMA DeleteReplacedFits ==
  ASSUME IInv, NEW n \in Addresses, DeleteReplaced(n)
  PROVE  Fits' /\ {data'[m] : m \in nodes'} = {data[m] : m \in nodes}
<1>1. PICK o : o = IF Child(n, "left") = NULL THEN Child(n, "right") ELSE Child(n, "left")
  OBVIOUS
<1>2. /\ pc = "idle" /\ n \in nodes /\ op' = "delete" /\ key' = data[n] /\ side' = NULL /\ toDelete' = o
      /\ (Child(n, "left") = NULL) # (Child(n, "right") = NULL)
      /\ Tree_Replace(n, o) /\ nodes' = nodes
      /\ pc' = "delete_balance" /\ node' = n /\ change' = 0
  BY <1>1 DEF DeleteReplaced, BeginDelete, Begin, At
<1>3. PICK s \in Sides : Child(n, s) = o /\ Child(n, s) # NULL /\ Child(n, Other(s)) = NULL
  BY <1>1, <1>2 DEF Sides, Other
<1>4. PICK K, h : Tree(K, h)
  BY <1>2, Looking
<1>5. change = 0 /\ Linked = nodes /\ n \in Linked /\ Linked' = Linked \ {o}
  BY <1>2, Looking DEF Linked
<1>6. \A t \in Sides : Child(o, t) = NULL
  BY <1>2, <1>3, <1>4, <1>5, OnlyLeaf
<1>7. /\ WellLinked' /\ link' \in [Slots(Addresses) -> Addresses \cup {NULL}]
      /\ parent' \in [Addresses -> Addresses \cup {NULL}]
  BY <1>2, <1>3, <1>4, <1>5, <1>6, ReplaceLinks
<1>8. \E f : Ordered(f)'
  BY <1>2, <1>3, <1>4, <1>5, <1>6, ReplaceKeys
<1>9. balance'[n] = 0 /\ \E f : Levelled(f)'
  BY <1>2, <1>3, <1>4, <1>5, ReplaceLevels
<1>10. /\ o \in Linked /\ o # n /\ Linked \subseteq Addresses
       /\ \A m \in nodes : data[m] \in Keys
  BY <1>3, <1>4, <1>5, ChildIn, Generations, LinkedFacts DEF Tree
<1>11. /\ data' = [data EXCEPT ![n] = data[o], ![o] = data[n]]
       /\ balance' = [balance EXCEPT ![n] = balance[o], ![o] = balance[n]]
  BY <1>2 DEF Tree_Replace
<1>12. data'[o] = data[n] /\ data'[n] = data[o] /\ \A m \in nodes \ {n, o} : data'[m] = data[m]
  BY <1>4, <1>5, <1>10, <1>11 DEF Tree, TypeOK
<1>13. InDelete'
  BY <1>2, <1>5, <1>10, <1>12 DEF InDelete
<1>14. InDeleteBalance'
  BY <1>2, <1>5, <1>9, <1>10, <1>13 DEF InDeleteBalance
<1>15. \A f, e : InLoop(f, e)'
  BY <1>2, <1>14 DEF InLoop
<1>16. TypeOK'
  <2>1. o \in Addresses /\ data[n] \in Keys
    BY <1>5, <1>10
  <2>2. balance' \in [Addresses -> -1 .. 1] /\ data' \in [Addresses -> Keys \cup {NULL}]
    BY <2>1, <1>4, <1>11 DEF Tree, TypeOK
  <2> QED
    BY <2>1, <2>2, <1>2, <1>4, <1>7 DEF Tree, TypeOK
<1>17. Fits'
  BY <1>7, <1>8, <1>9, <1>15, <1>16 DEF Fits
<1>18. {data'[m] : m \in nodes'} = {data[m] : m \in nodes}
  <2>1. n \in nodes /\ o \in nodes /\ nodes' = nodes
    BY <1>2, <1>5, <1>10
  <2> QED
    BY <2>1, <1>12
<1> QED
  BY <1>17, <1>18

\* Tree_DeleteNode of a node whose right child has no left child.
LEMMA MoveUpRightFits ==
  ASSUME IInv, NEW n \in Addresses, MoveUpRight(n)
  PROVE  Fits'
<1>1. PICK s : s = Child(n, "right")
  OBVIOUS
<1>2. /\ pc = "idle" /\ n \in nodes /\ op' = "delete" /\ key' = data[n] /\ side' = NULL /\ toDelete' = n
      /\ Child(n, "left") # NULL /\ s # NULL /\ Child(s, "left") = NULL
      /\ UNCHANGED <<nodes, data>> /\ balance' = [balance EXCEPT ![s] = balance[n]]
      /\ pc' = "delete_balance" /\ node' = s /\ change' = -1
  BY <1>1 DEF MoveUpRight, BeginDelete, Begin, At
<1>3. PICK K, h : Tree(K, h)
  BY <1>2, Looking
<1>4. change = 0 /\ Linked = nodes /\ n \in Linked /\ Linked' = Linked \ {n}
  BY <1>2, Looking DEF Linked
<1>5. /\ WellLinked' /\ link' \in [Slots(Addresses) -> Addresses \cup {NULL}]
      /\ parent' \in [Addresses -> Addresses \cup {NULL}]
  BY <1>1, <1>2, <1>3, <1>4, MoveUpRightLinks
<1>6. \E f : Ordered(f)'
  BY <1>1, <1>2, <1>3, <1>4, MoveUpRightKeys
<1>7. \E f : Levelled(f)'
  BY <1>1, <1>2, <1>3, <1>4, MoveUpRightLevels
<1>8. /\ s \in Linked /\ s # n /\ Linked \subseteq Addresses /\ data[n] \in Keys
  <2>1. "right" \in Sides
    BY DEF Sides
  <2> QED
    BY <2>1, <1>1, <1>2, <1>3, <1>4, ChildIn, Generations, LinkedFacts DEF Tree
<1>9. InDelete'
  BY <1>2 DEF InDelete
<1>10. InDeleteBalance'
  BY <1>2, <1>4, <1>8, <1>9 DEF InDeleteBalance
<1>11. \A f, e : InLoop(f, e)'
  BY <1>2, <1>10 DEF InLoop
<1>12. TypeOK'
  <2>1. s \in Addresses /\ change' \in -1 .. 1
    BY <1>2, <1>8
  <2>2. balance' \in [Addresses -> -1 .. 1]
    BY <2>1, <1>2, <1>3 DEF Tree, TypeOK
  <2> QED
    BY <2>1, <2>2, <1>2, <1>3, <1>5, <1>8 DEF Tree, TypeOK
<1> QED
  BY <1>5, <1>6, <1>7, <1>11, <1>12 DEF Fits

\* Tree_DeleteNode, when it has found the successor.
LEMMA MoveUpSuccessorFits ==
  ASSUME IInv, MoveUpSuccessor
  PROVE  Fits'
<1>1. /\ pc = "successor" /\ Child(node, "left") = NULL
      /\ UNCHANGED <<nodes, data, op, key, side, toDelete>>
      /\ balance' = [balance EXCEPT ![node] = balance[toDelete]]
      /\ pc' = "delete_balance" /\ node' = parent[node] /\ change' = 1
  BY DEF MoveUpSuccessor, At, call
<1>2. PICK K, h : Tree(K, h) /\ InLoop(K, h)
  BY <1>1, Looking
<1>3. PICK r : r = Child(toDelete, "right")
  OBVIOUS
<1>4. change = 0 /\ Linked = nodes /\ Linked' = Linked \ {toDelete}
  BY <1>1, Looking DEF Linked
<1>5. /\ InDelete /\ Child(toDelete, "left") # NULL /\ r # NULL
      /\ node \in Linked /\ K[node] \subseteq K[r] /\ node # r
      /\ \A j \in K[r] \ K[node], i \in K[node] : i < j
  BY <1>1, <1>2, <1>3 DEF InLoop, InSuccessor
<1>6. PICK n \in Linked, s \in Linked : n = toDelete /\ s = node
  BY <1>4, <1>5 DEF InDelete
<1>7. /\ Child(n, "left") # NULL /\ Child(n, "right") = r /\ r # NULL /\ s # r
      /\ Child(s, "left") = NULL /\ data[s] \in K[r]
      /\ \A j \in K[r] \ K[s], i \in K[s] : i < j
      /\ Linked' = Linked \ {n}
  <2>1. data[s] \in K[s]
    BY <1>2, KeysFacts DEF Tree
  <2> QED
    BY <2>1, <1>1, <1>3, <1>4, <1>5, <1>6
<1>8. /\ WellLinked' /\ link' \in [Slots(Addresses) -> Addresses \cup {NULL}]
      /\ parent' \in [Addresses -> Addresses \cup {NULL}]
  BY <1>2, <1>6, <1>7, MoveUpSuccessorLinks
<1>9. \E f : Ordered(f)'
  BY <1>2, <1>6, <1>7, MoveUpSuccessorKeys
<1>10. parent[s] \in Linked' /\ \E f : Levelled(f)'
  BY <1>1, <1>2, <1>4, <1>6, <1>7, MoveUpSuccessorLevels
<1>11. InDelete'
  BY <1>1, <1>5 DEF InDelete
<1>12. InDeleteBalance'
  BY <1>1, <1>6, <1>10, <1>11 DEF InDeleteBalance
<1>13. \A f, e : InLoop(f, e)'
  BY <1>1, <1>12 DEF InLoop
<1>14. TypeOK'
  <2>1. Linked \subseteq Addresses
    BY <1>2, LinkedFacts DEF Tree
  <2>2. parent[s] \in Addresses /\ change' \in -1 .. 1
    BY <2>1, <1>1, <1>7, <1>10
  <2>3. balance' \in [Addresses -> -1 .. 1]
    BY <2>1, <1>1, <1>2, <1>6 DEF Tree, TypeOK
  <2> QED
    BY <2>2, <2>3, <1>1, <1>2, <1>6, <1>8 DEF Tree, TypeOK
<1> QED
  BY <1>8, <1>9, <1>10, <1>13, <1>14 DEF Fits

-----------------------------------------------------------------------------
(* The inductive invariant. *)

\* Tree_New makes an empty tree.
LEMMA InitFits ==
  ASSUME Init
  PROVE  Fits
<1>1. /\ Linked = {} /\ nodes = {} /\ Root \in Slots(Addresses) /\ Slots(Linked) = {Root}
  BY DEF Init, Linked, Slots
<1>2. link[Root] = NULL
  BY <1>1 DEF Init
<1>3. PICK f, g : f = [n \in {} |-> {}] /\ g = [n \in {} |-> 0]
  OBVIOUS
<1>4. TypeOK
  <2>1. 0 \in -1 .. 1
    OBVIOUS
  <2> QED
    BY <2>1 DEF Init, TypeOK
<1>5. WellLinked
  BY <1>1, <1>2 DEF WellLinked
<1>6. Ordered(f)
  <2>1. Stored = {} /\ KeysAt(f, link[Root]) = {}
    BY <1>1, <1>2 DEF Stored, KeysAt
  <2> QED
    BY <2>1, <1>1, <1>3 DEF Ordered
<1>7. Levelled(g)
  BY <1>1, <1>3 DEF Levelled
<1>8. InLoop(f, g)
  BY DEF Init, InLoop, InIdle
<1> QED
  BY <1>4, <1>5, <1>6, <1>7, <1>8 DEF Fits

\* Every step preserves the inductive invariant.
LEMMA NextFits ==
  ASSUME IInv, Next
  PROVE  Fits'
<1>1. CASE \E k \in Keys : Tree_SearchNode(k) \/ Tree_Insert(k)
  BY <1>1, SearchNodeFits, InsertFits
<1>2. CASE \E n \in Addresses : Tree_DeleteNode(n)
  BY <1>2, DeleteLeafFits, DeleteReplacedFits, MoveUpRightFits, SeekSuccessorFits DEF Tree_DeleteNode
<1>3. CASE \E s \in Sides : Outermost(s) \/ \E n \in Addresses : Neighbour(n, s)
  BY <1>3, OutermostFits, NeighbourFits
<1>4. CASE Step
  BY <1>4, DescendFits, FoundFits, InsertLeafFits, InsertBalanceFits, GoLeftFits, MoveUpSuccessorFits,
     DeleteBalanceFits, NodeFreeFits, DownFits, ClimbFits DEF Step
<1> QED
  BY <1>1, <1>2, <1>3, <1>4 DEF Next

\* So does no step at all.
LEMMA StutterFits ==
  ASSUME IInv, UNCHANGED vars
  PROVE  Fits'
<1>1. PICK K, h : Tree(K, h) /\ InLoop(K, h)
  BY DEF IInv, Tree
<1>2. UNCHANGED <<nodes, link, parent, data, balance, pc, op, key, side, node, change, toDelete>>
  BY DEF vars, fields, call
<1>3. Linked' = Linked
  BY <1>2 DEF Linked
<1>4. WellLinked' /\ Ordered(K)'
  BY <1>1, <1>2, <1>3, SameTree
<1>5. Levelled(h)'
  BY <1>1, <1>2 DEF Tree, Levelled, Linked, Slack, Child, HeightAt
<1>6. TypeOK'
  BY <1>1, <1>2 DEF Tree, TypeOK
<1>7. InLoop(K, h)'
  BY <1>1, <1>2 DEF InLoop, InIdle, InDescent, InInsertBalance, InSuccessor, InDeleteBalance,
     InDown, InClimb, InDelete, Stored, Linked, Child
<1> QED
  BY <1>4, <1>5, <1>6, <1>7 DEF Fits

\* What every loop of avl.c may rely on, at each of its iterations: links, order,
\* heights but for the change in hand, and why the loop has come to its node.
THEOREM Inductive == Spec => []IInv
<1>1. Init => IInv
  BY InitFits, FitsIInv
<1>2. IInv /\ [Next]_vars => IInv'
  BY NextFits, StutterFits, FitsNext
<1> QED
  BY <1>1, <1>2, PTL DEF Spec

\* Every variable stays of its type: no rotation, no Tree_Replace and no exchange
\* of balances in Tree_DeleteNode stores a balance of more than one.
THEOREM TypeCorrect == Spec => []TypeOK
<1>1. IInv => TypeOK
  BY DEF IInv
<1> QED
  BY <1>1, Inductive, PTL

\* At every iteration each node is in one slot, where its parent field leads:
\* rotations and deletions mend all the pointers that they cut.
THEOREM LinksRight == Spec => []WellLinked
<1>1. IInv => WellLinked
  BY DEF IInv
<1> QED
  BY <1>1, Inductive, PTL

\* After every Tree_Insert and Tree_DeleteNode, balances are the differences of
\* the heights, at most one: the loops of Tree_InsertBalance and
\* Tree_DeleteBalance stop neither too early nor too late.
THEOREM AlwaysBalanced == Spec => []Balanced
<1>1. ASSUME IInv, pc = "idle", NEW n \in nodes
      PROVE  /\ balance[n] = HeightAt(height, Child(n, "right")) - HeightAt(height, Child(n, "left"))
             /\ balance[n] \in -1 .. 1
  <2>0. TypeOK
    BY <1>1 DEF IInv
  <2>1. Linked = nodes /\ change = 0
    BY <1>1, Looking
  <2>2. balance[n] \in -1 .. 1
    BY <2>0, <1>1 DEF TypeOK
  <2>3. balance[n] + (IF n = node THEN change ELSE 0) = balance[n]
    BY <2>1, <2>2
  <2> QED
    BY <1>1, <2>1, <2>2, <2>3 DEF IInv, Levelled
<1>2. IInv => Balanced
  BY <1>1 DEF Balanced
<1> QED
  BY <1>2, Inductive, PTL

-----------------------------------------------------------------------------
(* The loops advance. *)

\* Keys that fit after a step are the keys below each node then.
LEMMA BelowNext ==
  ASSUME Fits', NEW f, Ordered(f)'
  PROVE  below' = f
<1>1. TypeOK' /\ WellLinked' /\ Levelled(height)'
  BY FitsNext DEF IInv
<1> QED
  BY <1>1, CanonicalNext DEF TheOnly

\* The functions of IInv are themselves a pair that fits.
LEMMA BelowNow ==
  ASSUME IInv
  PROVE  Tree(below, height) /\ InLoop(below, height)
BY DEF IInv, Tree

\* Downward: the keys below a child are fewer.
LEMMA ChildAdvances ==
  ASSUME IInv, pc \in {"search", "insert", "successor", "down"},
         UNCHANGED <<nodes, fields, pc, call, change, toDelete>>, Fits',
         node \in Linked, NEW s \in Sides, Child(node, s) # NULL, node' = Child(node, s)
  PROVE  Advances
<1>1. PICK K : K = below
  OBVIOUS
<1>2. PICK h : Tree(K, h)
  BY <1>1, BelowNow
<1>3. Ordered(K)'
  BY <1>2, Looking, Unmoved
<1>4. below' = K
  BY <1>3, BelowNext
<1>5. /\ K[Child(node, s)] \subseteq K[node] /\ data[node] \in K[node]
      /\ data[node] \notin K[Child(node, s)]
  BY <1>2, SideFacts, KeysFacts DEF Tree, KeysAt
<1> QED
  BY <1>1, <1>4, <1>5 DEF Advances

\* Upward: the keys below a parent are more.
LEMMA ParentAdvances ==
  ASSUME IInv, pc \notin {"search", "insert", "successor", "down"},
         NEW n \in Linked, n = node, parent[n] # NULL, node' = parent[n],
         Fits', NEW f, Ordered(f)', f[parent[n]] = below[parent[n]]
  PROVE  Advances
<1>1. PICK K : K = below
  OBVIOUS
<1>2. PICK h : Tree(K, h)
  BY <1>1, BelowNow
<1>3. PICK p : p = parent[n]
  OBVIOUS
<1>4. PICK q \in Sides : p \in Linked /\ Child(p, q) = n /\ n # NULL
  BY <1>2, <1>3, SlotFacts, LinkedFacts DEF Tree
<1>5. K[n] \subseteq K[p] /\ data[p] \in K[p] /\ data[p] \notin K[n]
  BY <1>2, <1>4, SideFacts, KeysFacts DEF Tree, KeysAt
<1>6. below' = f
  BY BelowNext
<1> QED
  BY <1>1, <1>3, <1>5, <1>6 DEF Advances

\* The loops that go down leave their node's own key behind.
LEMMA DescentAdvances ==
  ASSUME IInv, Descend \/ GoLeft \/ Down, pc' = pc, pc # "idle", Fits'
  PROVE  Advances
<1>1. /\ pc \in {"search", "insert", "successor", "down"}
      /\ UNCHANGED <<nodes, fields, pc, call, change, toDelete>>
      /\ node \in Linked
      /\ \E s \in Sides : Child(node, s) # NULL /\ node' = Child(node, s)
  <2>1. CASE Descend
    <3>1. node \in Linked
      BY <2>1, BelowNow DEF Descend, InLoop, InDescent
    <3> QED
      BY <2>1, <3>1 DEF Descend, Toward, Sides
  <2>2. CASE GoLeft
    <3>1. node \in Linked
      BY <2>2, BelowNow DEF GoLeft, InLoop, InSuccessor
    <3> QED
      BY <2>2, <3>1 DEF GoLeft, Sides
  <2>3. CASE Down
    <3>1. pc = "down" /\ node \in Linked /\ side \in Sides
      BY <2>3, BelowNow DEF Down, InLoop, InDown
    <3>2. ~Done
      BY <3>1 DEF Done, At
    <3>3. PICK s : s = (IF op = "first" THEN side ELSE Other(side))
      OBVIOUS
    <3>4. /\ Child(node, s) # NULL /\ node' = Child(node, s)
          /\ UNCHANGED <<nodes, fields, pc, call, change, toDelete>>
      BY <2>3, <3>2, <3>3 DEF Down, Return
    <3>5. s \in Sides
      BY <3>1, <3>3, SidesFacts
    <3> QED
      BY <3>1, <3>4, <3>5
  <2> QED
    BY <2>1, <2>2, <2>3
<1> QED
  BY <1>1, ChildAdvances

\* The loop that climbs gains the parent's key.
LEMMA ClimbAdvances ==
  ASSUME IInv, Climb, pc' = pc, pc # "idle", Fits'
  PROVE  Advances
<1>1. pc = "climb" /\ node \in Linked
  BY BelowNow DEF Climb, InLoop, InClimb
<1>2. ~Done
  BY <1>1 DEF Done, At
<1>3. /\ parent[node] # NULL /\ node' = parent[node]
      /\ UNCHANGED <<nodes, fields, pc, call, change, toDelete>>
  BY <1>2 DEF Climb, Return
<1>4. PICK K, h : K = below /\ Tree(K, h)
  BY BelowNow
<1>5. Ordered(K)'
  BY <1>1, <1>3, <1>4, Looking, Unmoved
<1> QED
  BY <1>1, <1>3, <1>4, <1>5, ParentAdvances

\* A rotation leaves the keys below the parent as they are.
LEMMA BalanceAdvances ==
  ASSUME IInv, Tree_InsertBalance \/ Tree_DeleteBalance, pc' = pc, pc # "idle", Fits'
  PROVE  Advances
<1>1. PICK b, s : b = balance[node] + change /\ s = Deep(b)
  OBVIOUS
<1>2. PICK c : c = Child(node, s)
  OBVIOUS
<1>3. pc \in {"insert_balance", "delete_balance"} /\ nodes' = nodes /\ data' = data
  BY DEF Tree_InsertBalance, Tree_DeleteBalance
<1>4. PICK K, h : K = below /\ Tree(K, h) /\ InLoop(K, h)
  BY BelowNow
<1>5. PICK n \in Linked : n = node
  BY <1>3, <1>4 DEF InLoop, InInsertBalance, InDeleteBalance
<1>6. ~Done /\ ~Free
  BY <1>3 DEF Done, Free, At
<1>7. /\ \E g \in {-1, 1} : Up(n, g, pc, FALSE)
      /\ \/ Abs(b) < 2 /\ UNCHANGED <<link, parent>>
         \/ Abs(b) = 2 /\ balance[c] * Sign(s) >= 0 /\ Rotate(n, s)
         \/ Abs(b) = 2 /\ balance[c] * Sign(s) < 0 /\ DoubleRotate(n, s)
  <2>1. CASE Tree_InsertBalance
    <3>1. Abs(b) < 2 /\ UNCHANGED <<link, parent>> /\ (IF b = 0 THEN Done ELSE Up(n, 1, pc, Done))
      BY <2>1, <1>1, <1>5, <1>6 DEF Tree_InsertBalance
    <3>2. Up(n, 1, pc, FALSE)
      BY <3>1, <1>6 DEF Up
    <3> QED
      BY <3>1, <3>2
  <2>2. CASE Tree_DeleteBalance
    <3>1. \/ /\ Abs(b) < 2 /\ UNCHANGED <<link, parent>>
             /\ (IF b # 0 THEN Free ELSE Up(n, -1, pc, Free))
          \/ /\ Abs(b) = 2 /\ balance[c] * Sign(s) >= 0 /\ Rotate(n, s)
             /\ (IF balance[c] = 0 THEN Free ELSE Up(n, -1, pc, Free))
          \/ /\ Abs(b) = 2 /\ balance[c] * Sign(s) < 0 /\ DoubleRotate(n, s)
             /\ Up(n, -1, pc, Free)
      BY <2>2, <1>1, <1>2, <1>5 DEF Tree_DeleteBalance
    <3>2. Up(n, -1, pc, Free)
      BY <3>1, <1>6
    <3>3. Up(n, -1, pc, FALSE)
      BY <3>2, <1>6 DEF Up
    <3> QED
      BY <3>1, <3>3
  <2> QED
    BY <2>1, <2>2
<1>8. parent[n] # NULL /\ node' = parent[n] /\ toDelete' = toDelete
  BY <1>7 DEF Up, At
<1>9. Linked' = Linked
  BY <1>3, <1>8 DEF Linked
<1>10. PICK p : p = parent[n]
  OBVIOUS
<1>11. /\ p \in Linked /\ \A m \in Linked : data[m] \in K[n] => m # p
       /\ data[n] \in K[n]
  <2>1. PICK q \in Sides : p \in Linked /\ Child(p, q) = n /\ n # NULL
    BY <1>4, <1>5, <1>8, <1>10, SlotFacts, LinkedFacts DEF Tree
  <2>2. data[p] \notin K[n]
    BY <2>1, <1>4, KeysFacts DEF Tree, KeysAt
  <2> QED
    BY <2>1, <2>2, <1>4, <1>5, KeysFacts DEF Tree
<1>12. CASE Abs(b) < 2
  <2>1. Ordered(K)'
    BY <1>3, <1>4, <1>7, <1>9, <1>12, SameTree
  <2> QED
    BY <2>1, <1>3, <1>4, <1>5, <1>8, ParentAdvances
<1>13. CASE Abs(b) = 2
  <2>1. s \in Sides /\ c # NULL /\ c \in Linked /\ balance[c] \in -1 .. 1
    BY <1>1, <1>2, <1>4, <1>5, <1>13, DeepFacts
  <2>2. data[c] \in K[c] /\ K[c] \subseteq K[n]
    BY <2>1, <1>2, <1>4, <1>5, SideFacts
  <2>3. CASE balance[c] * Sign(s) >= 0
    <3>1. Rotate(n, s)
      BY <2>1, <2>3, <1>7, <1>13 DEF Sign
    <3>2. PICK f : Ordered(f)' /\ \A m \in Linked \ {n, c} : f[m] = K[m]
      BY <3>1, <2>1, <1>2, <1>3, <1>4, <1>5, <1>9, RotateKeys
    <3>3. f[p] = K[p]
      BY <3>2, <2>1, <2>2, <1>11
    <3> QED
      BY <3>2, <3>3, <1>3, <1>4, <1>5, <1>8, <1>10, ParentAdvances
  <2>4. CASE ~(balance[c] * Sign(s) >= 0)
    <3>1. DoubleRotate(n, s) /\ balance[c] = -Sign(s)
      BY <2>1, <2>4, <1>7, <1>13 DEF Sign
    <3>2. PICK g \in Linked : g = Child(c, Other(s)) /\ g # NULL
      BY <3>1, <2>1, <1>2, <1>4, <1>5, InnerThere, ChildIn, SidesFacts DEF Tree
    <3>3. data[g] \in K[g] /\ K[g] \subseteq K[c]
      BY <3>2, <2>1, <1>4, SideFacts, SidesFacts
    <3>4. PICK f : Ordered(f)' /\ \A m \in Linked \ {n, c, g} : f[m] = K[m]
      BY <3>1, <3>2, <2>1, <1>2, <1>3, <1>4, <1>5, <1>9, DoubleRotateKeys
    <3>5. f[p] = K[p]
      BY <3>2, <3>3, <3>4, <2>1, <2>2, <1>11
    <3> QED
      BY <3>4, <3>5, <1>3, <1>4, <1>5, <1>8, <1>10, ParentAdvances
  <2> QED
    BY <2>3, <2>4
<1> QED
  BY <1>7, <1>12, <1>13

\* Every iteration of a loop of avl.c is a step towards its end, up or down.
THEOREM LoopsEnd == Spec => LoopsAdvance
<1>1. ASSUME IInv, Next PROVE Advances
  <2>1. Fits'
    BY <1>1, NextFits
  <2>2. ASSUME pc' = pc, pc # "idle"
        PROVE  Descend \/ GoLeft \/ Down \/ Climb \/ Tree_InsertBalance \/ Tree_DeleteBalance
    <3>1. Step
      BY <1>1, <2>2 DEF Next, Tree_SearchNode, Tree_Insert, Tree_DeleteNode, Outermost, Neighbour,
         Empty, Start, Begin, DeleteLeaf, DeleteReplaced, MoveUpRight, SeekSuccessor, BeginDelete
    <3>2. ~Done
      BY <2>2 DEF Done, At
    <3>3. ~InsertLeaf /\ ~MoveUpSuccessor
      BY <2>2 DEF InsertLeaf, MoveUpSuccessor, At
    <3> QED
      BY <3>1, <3>2, <3>3 DEF Step, Found, NotFound, Node_free, Return
  <2>3. CASE pc' = pc /\ pc # "idle"
    BY <2>1, <2>2, <2>3, <1>1, DescentAdvances, ClimbAdvances, BalanceAdvances
  <2>4. CASE ~(pc' = pc /\ pc # "idle")
    BY <2>4 DEF Advances
  <2> QED
    BY <2>3, <2>4
<1>2. IInv /\ [Next]_vars => [Advances]_vars
  BY <1>1
<1>3. Spec => [][Advances]_vars
  BY <1>2, Inductive, PTL DEF Spec
<1> QED
  BY <1>3 DEF LoopsAdvance

-----------------------------------------------------------------------------
(* The tree answers as the set of its keys. *)

Content == {data[n] : n \in nodes}

\* Content is a set of keys, each in one node.
LEMMA ContentFacts ==
  ASSUME IInv
  PROVE  /\ Content \subseteq Keys /\ NULL \notin Keys
         /\ Linked = nodes => Content = Stored
         /\ \A m, n \in nodes : data[m] = data[n] => m = n
  BY TreeAssumption DEF IInv, Ordered, Content, Stored

\* A tree without a root stores nothing.
LEMMA EmptyContent ==
  ASSUME IInv, pc = "idle", link[Root] = NULL
  PROVE  Content = {}
<1>1. Linked = nodes /\ KeysAt(below, link[Root]) = Stored
  BY Looking DEF IInv, Ordered
<1> QED
  BY <1>1, ContentFacts DEF KeysAt

Abstractly == [Abstract!Step]_<<Content, answer>>

\* A step that answers nothing and keeps the keys is a stutter of KeySet.
LEMMA SameAnswer ==
  ASSUME nodes' = nodes, data' = data, answer' = answer
  PROVE  Abstractly
BY DEF Abstractly, Content

\* Node_New adds its key.
LEMMA NewContent ==
  ASSUME IInv, NEW a, NEW k, NEW x, Node_New(a, k, x)
  PROVE  Content' = Content \cup {k}
<1>1. /\ a \in Addresses /\ a \notin nodes /\ nodes' = nodes \cup {a}
      /\ data' = [data EXCEPT ![a] = k]
  BY DEF Node_New
<1>2. data'[a] = k /\ \A m \in nodes : data'[m] = data[m]
  BY <1>1 DEF IInv, TypeOK
<1> QED
  BY <1>1, <1>2 DEF Content

\* Tree_SearchNode and Tree_Insert of an empty tree answer as KeySet does.
LEMMA CallAbstractly ==
  ASSUME IInv, NEW k \in Keys, Tree_SearchNode(k) \/ Tree_Insert(k)
  PROVE  Abstractly
<1>1. CASE nodes' = nodes /\ data' = data /\ answer' = answer
  BY <1>1, SameAnswer
<1>2. CASE Empty("search", k, NULL) /\ nodes' = nodes /\ data' = data
  <2>1. Content = {} /\ Content' = Content /\ answer' = <<"search", k, NULL, NULL>>
    BY <1>2, EmptyContent DEF Empty, Content
  <2>2. Abstract!Search(k)
    BY <2>1 DEF Abstract!Search, Abstract!KeyIfIn, Content
  <2> QED
    BY <2>2 DEF Abstractly, Abstract!Step
<1>3. CASE Empty("insert", k, NULL) /\ \E a \in Addresses : Node_New(a, k, Root)
  <2>1. Content = {} /\ Content' = Content \cup {k} /\ answer' = <<"insert", k, NULL, NULL>>
    BY <1>3, EmptyContent, NewContent DEF Empty
  <2>2. Abstract!Insert(k)
    BY <2>1 DEF Abstract!Insert, Abstract!KeyIfIn, Content
  <2> QED
    BY <2>2 DEF Abstractly, Abstract!Step
<1> QED
  BY <1>1, <1>2, <1>3 DEF Tree_SearchNode, Tree_Insert, Start, fields

\* A key found is one that is stored.
LEMMA FoundAbstractly ==
  ASSUME IInv, Found
  PROVE  Abstractly
<1>1. /\ pc \in {"search", "insert"} /\ op = pc /\ side = NULL /\ data[node] = key /\ node \in Linked
      /\ key \in Keys /\ answer' = <<op, key, side, key>> /\ nodes' = nodes /\ data' = data
  BY BelowNow DEF Found, Return, InLoop, InDescent, fields
<1>2. Linked = nodes
  BY <1>1, Looking
<1>3. key \in Content /\ Content' = Content
  BY <1>1, <1>2 DEF Content
<1>4. PICK k \in Keys : k = key
  BY <1>1
<1>5. Abstract!Search(k) \/ Abstract!Insert(k)
  BY <1>1, <1>3, <1>4 DEF Abstract!Search, Abstract!Insert, Abstract!KeyIfIn, Content
<1> QED
  BY <1>5 DEF Abstractly, Abstract!Step

\* A search that ends at a missing child has looked for a key that is not
\* stored.
LEMMA NotFoundAbstractly ==
  ASSUME IInv, NotFound
  PROVE  Abstractly
<1>1. PICK s \in Sides :
        /\ pc = "search" /\ data[node] # key /\ s = Toward(key, node) /\ Child(node, s) = NULL
        /\ answer' = <<op, key, side, NULL>> /\ nodes' = nodes /\ data' = data
  BY DEF NotFound, Return, Toward, Sides, fields
<1>2. PICK K, h : Tree(K, h) /\ InLoop(K, h)
  BY <1>1, Looking
<1>3. /\ op = pc /\ side = NULL /\ node \in Linked /\ key \in Keys /\ key \in Int
      /\ key \in Stored => key \in K[node]
  BY <1>1, <1>2, TreeAssumption DEF InLoop, InDescent
<1>4. data[node] \in Int
  BY <1>2, <1>3, LinkedFacts DEF Tree
<1>5. Beyond(s, key, data[node])
  BY <1>1, <1>3, <1>4 DEF Toward, Beyond
<1>6. key \notin Stored
  <2>1. key \in K[node] => Beyond(Other(s), key, data[node])
    BY <1>1, <1>2, <1>3, SideFacts
  <2> QED
    BY <2>1, <1>3, <1>4, <1>5, BeyondFacts
<1>7. key \notin Content /\ Content' = Content
  BY <1>1, <1>6, Looking, ContentFacts DEF Content
<1>8. PICK k \in Keys : k = key
  BY <1>3
<1>9. Abstract!Search(k)
  BY <1>1, <1>3, <1>7, <1>8 DEF Abstract!Search, Abstract!KeyIfIn, Content
<1> QED
  BY <1>9 DEF Abstractly, Abstract!Step

\* An insertion adds its key and no other.
LEMMA InsertLeafAbstractly ==
  ASSUME IInv, InsertLeaf
  PROVE  Abstractly
<1>1. /\ pc = "insert" /\ answer' = <<op, key, side, NULL>>
      /\ \E a, x : Node_New(a, key, x)
  BY DEF InsertLeaf
<1>2. op = "insert" /\ side = NULL /\ key \notin Stored
  BY InsertLeafFits
<1>3. PICK k \in Keys : k = key
  BY <1>1, BelowNow DEF InLoop, InDescent
<1>4. key \notin Content
  BY <1>1, <1>2, Looking, ContentFacts
<1>5. Content' = Content \cup {key}
  BY <1>1, NewContent
<1>6. Abstract!Insert(k)
  BY <1>1, <1>2, <1>3, <1>4, <1>5 DEF Abstract!Insert, Abstract!KeyIfIn, Content
<1> QED
  BY <1>6 DEF Abstractly, Abstract!Step

\* A deletion removes the key it was called for, whichever node is freed.
LEMMA NodeFreeAbstractly ==
  ASSUME IInv, Node_free
  PROVE  Abstractly
<1>1. /\ pc = "free" /\ nodes' = nodes \ {toDelete} /\ data' = data
      /\ answer' = <<op, key, side, data[toDelete]>>
  BY DEF Node_free, Return, fields
<1>2. op = "delete" /\ side = NULL /\ toDelete \in nodes /\ data[toDelete] = key
  BY <1>1, BelowNow DEF InLoop, InDelete
<1>3. key \in Content /\ key \in Keys
  BY <1>2, ContentFacts DEF Content
<1>4. Content' = Content \ {key}
  BY <1>1, <1>2, ContentFacts DEF Content
<1>5. PICK k \in Keys : k = key
  BY <1>3
<1>6. Abstract!Delete(k)
  BY <1>1, <1>2, <1>3, <1>4, <1>5 DEF Abstract!Delete, Content
<1> QED
  BY <1>6 DEF Abstractly, Abstract!Step

\* Tree_FirstNode and Tree_LastNode of an empty tree return no node.
LEMMA OutermostAbstractly ==
  ASSUME IInv, NEW s \in Sides, Outermost(s)
  PROVE  Abstractly
<1>1. CASE answer' = answer
  <2>1. nodes' = nodes /\ data' = data
    BY DEF Outermost, Start, Empty, fields
  <2> QED
    BY <1>1, <2>1, SameAnswer
<1>2. CASE Empty("first", NULL, s) /\ nodes' = nodes /\ data' = data
  <2>1. Content = {} /\ Content' = Content /\ answer' = <<"first", NULL, s, NULL>>
    BY <1>2, EmptyContent DEF Empty, Content
  <2>2. Abstract!First(s, NULL)
    BY <2>1 DEF Abstract!First, Content
  <2>3. s \in Abstract!Sides
    BY DEF Abstract!Sides, Sides
  <2> QED
    BY <2>2, <2>3 DEF Abstractly, Abstract!Step
<1> QED
  BY <1>1, <1>2 DEF Outermost, Start, fields

\* A walk down ends at the outermost key there is, or at the nearest key beyond
\* the one it left.
LEMMA DownAbstractly ==
  ASSUME IInv, Down
  PROVE  Abstractly
<1>1. PICK s : s = (IF op = "first" THEN side ELSE Other(side))
  OBVIOUS
<1>2. pc = "down" /\ nodes' = nodes /\ data' = data
  BY DEF Down, fields
<1>3. CASE Child(node, s) # NULL
  <2>1. answer' = answer
    BY <1>1, <1>3 DEF Down
  <2> QED
    BY <2>1, <1>2, SameAnswer
<1>4. CASE Child(node, s) = NULL
  <2>1. PICK r : r = data[node]
    OBVIOUS
  <2>2. answer' = <<op, key, side, r>>
    BY <1>1, <1>4, <2>1 DEF Down, Return
  <2>3. PICK K, h : Tree(K, h) /\ InLoop(K, h)
    BY <1>2, Looking
  <2>4. /\ op \in {"first", "next"} /\ side \in Sides /\ node \in Linked /\ s \in Sides
        /\ op = "first" => key = NULL
        /\ op = "next" => key \in Stored /\ \A i \in K[node] : Beyond(side, i, key)
        /\ \A j \in Stored \ K[node], i \in K[node] :
             op = "first" \/ Beyond(side, j, key) => Beyond(s, i, j)
    BY <1>1, <1>2, <2>3, SidesFacts DEF InLoop, InDown
  <2>5. Content = Stored /\ Content' = Content /\ Linked = nodes
    BY <1>2, Looking, ContentFacts DEF Content
  <2>6. /\ r \in K[node] /\ r \in Stored /\ Stored \subseteq Int
        /\ \A j \in K[node] : j = r \/ Beyond(Other(s), j, r)
    BY <1>4, <2>1, <2>3, <2>4, SideFacts
  <2>7. r # NULL /\ r \in Keys /\ NULL \notin Keys /\ Stored \subseteq Keys
    BY <2>5, <2>6, ContentFacts
  <2>8. side \in Abstract!Sides /\ \A t, i, j : Abstract!Beyond(t, i, j) <=> Beyond(t, i, j)
    BY <2>4 DEF Abstract!Sides, Sides, Abstract!Beyond, Beyond
  <2>9. CASE op = "first"
    <3>1. ASSUME NEW j \in Stored \ {r} PROVE Beyond(side, r, j)
      <4>1. CASE j \in K[node]
        BY <4>1, <3>1, <2>4, <2>6, <2>9, <1>1, BeyondFacts
      <4>2. CASE j \notin K[node]
        BY <4>2, <3>1, <2>4, <2>6, <2>9, <1>1
      <4> QED
        BY <4>1, <4>2
    <3>2. Abstract!First(side, r)
      BY <3>1, <2>2, <2>4, <2>5, <2>6, <2>7, <2>8, <2>9 DEF Abstract!First, Content
    <3> QED
      BY <3>2, <2>7, <2>8 DEF Abstractly, Abstract!Step
  <2>10. CASE op = "next"
    <3>1. s = Other(side) /\ Other(s) = side /\ key \in Stored /\ Beyond(side, r, key)
      BY <1>1, <2>4, <2>6, <2>10, SidesFacts
    <3>2. ASSUME NEW j \in Stored \ {r}, Beyond(side, j, key) PROVE Beyond(side, j, r)
      <4>1. CASE j \in K[node]
        BY <4>1, <3>1, <3>2, <2>6
      <4>2. CASE j \notin K[node]
        <5>1. Beyond(s, r, j)
          BY <4>2, <3>2, <2>4, <2>6
        <5>2. j \in Int /\ r \in Int
          BY <3>2, <2>6
        <5> QED
          BY <5>1, <5>2, <3>1, <2>4, BeyondFacts
      <4> QED
        BY <4>1, <4>2
    <3>3. Abstract!Next(key, side, r)
      BY <3>1, <3>2, <2>2, <2>5, <2>6, <2>7, <2>8, <2>10 DEF Abstract!Next, Content
    <3> QED
      BY <3>1, <3>3, <2>7, <2>8 DEF Abstractly, Abstract!Step
  <2> QED
    BY <2>4, <2>9, <2>10
<1> QED
  BY <1>3, <1>4

\* A walk up ends at the nearest key beyond, or at the root when there is none.
LEMMA ClimbAbstractly ==
  ASSUME IInv, Climb
  PROVE  Abstractly
<1>1. PICK p : p = parent[node]
  OBVIOUS
<1>2. pc = "climb" /\ nodes' = nodes /\ data' = data
  BY DEF Climb, fields
<1>3. PICK K, h : Tree(K, h) /\ InLoop(K, h)
  BY <1>2, Looking
<1>4. /\ op = "next" /\ side \in Sides /\ node \in Linked
      /\ key \in K[node] /\ \A j \in K[node] : ~Beyond(side, j, key)
  BY <1>2, <1>3 DEF InLoop, InClimb
<1>5. Content = Stored /\ Content' = Content /\ Linked = nodes
  BY <1>2, Looking, ContentFacts DEF Content
<1>6. K[node] \subseteq Stored /\ Stored \subseteq Int /\ Stored \subseteq Keys /\ NULL \notin Keys
  BY <1>3, <1>4, <1>5, SideFacts, ContentFacts
<1>7. side \in Abstract!Sides /\ \A t, i, j : Abstract!Beyond(t, i, j) <=> Beyond(t, i, j)
  BY <1>4 DEF Abstract!Sides, Sides, Abstract!Beyond, Beyond
<1>8. CASE p # NULL /\ Child(p, side) = node
  <2>1. answer' = answer
    BY <1>1, <1>8 DEF Climb
  <2> QED
    BY <2>1, <1>2, SameAnswer
<1>9. CASE p = NULL
  <2>1. answer' = <<op, key, side, NULL>>
    BY <1>1, <1>9 DEF Climb, Return
  <2>2. K[node] = Stored
    <3>1. node = link[Root] /\ node # NULL
      BY <1>1, <1>3, <1>4, <1>9, SlotFacts, LinkedFacts DEF Tree
    <3>2. KeysAt(K, link[Root]) = Stored
      BY <1>3 DEF Tree, Ordered
    <3> QED
      BY <3>1, <3>2 DEF KeysAt
  <2>3. Abstract!Next(key, side, NULL)
    BY <2>1, <2>2, <1>4, <1>5, <1>7 DEF Abstract!Next, Content
  <2> QED
    BY <2>3, <1>4, <1>6, <1>7 DEF Abstractly, Abstract!Step
<1>10. CASE p # NULL /\ Child(p, side) # node
  <2>1. PICK r : r = data[p]
    OBVIOUS
  <2>2. answer' = <<op, key, side, r>>
    BY <1>1, <1>10, <2>1 DEF Climb, Return
  <2>3. p \in Linked /\ Child(p, Other(side)) = node /\ node # NULL
    <3>1. PICK q \in Sides : p \in Linked /\ Child(p, q) = node
      BY <1>1, <1>3, <1>4, <1>10, SlotFacts DEF Tree
    <3>2. q = side \/ q = Other(side)
      BY <1>4 DEF Sides, Other
    <3> QED
      BY <3>1, <3>2, <1>3, <1>4, <1>10, LinkedFacts DEF Tree
  <2>4. /\ K[node] \subseteq K[p] /\ Beyond(Other(side), key, r) /\ r \in K[p] /\ K[p] \subseteq Stored
        /\ \A j \in K[p] : j = r \/ j \in K[node] \/ Beyond(side, j, r)
    <3>1. Other(side) \in Sides /\ Other(Other(side)) = side
      BY <1>4, SidesFacts
    <3> QED
      BY <3>1, <2>1, <2>3, <1>3, <1>4, SideFacts
  <2>5. Beyond(side, r, key) /\ r \in Keys /\ r # NULL /\ key \in Int /\ r \in Int
    BY <2>4, <1>4, <1>6, BeyondFacts
  <2>6. ASSUME NEW j \in Stored \ {r}, Beyond(side, j, key) PROVE Beyond(side, j, r)
    <3>1. CASE j \in K[p]
      BY <3>1, <2>4, <2>6, <1>4
    <3>2. CASE j \notin K[p]
      <4>1. PICK t \in Sides : \A i \in K[p] : Beyond(t, j, i)
        BY <3>2, <2>3, <2>6, <1>3, Outside
      <4>2. Beyond(t, j, key) /\ Beyond(t, j, r)
        BY <4>1, <2>4, <1>4
      <4>3. j \in Int /\ (t = side \/ t = Other(side))
        BY <2>6, <1>4, <1>6 DEF Sides, Other
      <4> QED
        BY <4>2, <4>3, <2>5, <2>6, <1>4, BeyondFacts
    <3> QED
      BY <3>1, <3>2
  <2>7. Abstract!Next(key, side, r)
    BY <2>2, <2>4, <2>5, <2>6, <1>4, <1>5, <1>6, <1>7 DEF Abstract!Next, Content
  <2> QED
    BY <2>5, <2>7, <1>4, <1>6, <1>7 DEF Abstractly, Abstract!Step
<1> QED
  BY <1>8, <1>9, <1>10

\* Every step is one of KeySet or a stutter.
LEMMA NextAbstractly ==
  ASSUME IInv, Next
  PROVE  Abstractly
<1>1. CASE \E k \in Keys : Tree_SearchNode(k) \/ Tree_Insert(k)
  BY <1>1, CallAbstractly
<1>2. CASE \E n \in Addresses : Tree_DeleteNode(n)
  <2>1. PICK n \in Addresses : Tree_DeleteNode(n)
    BY <1>2
  <2>2. CASE DeleteReplaced(n)
    <3>1. answer' = answer /\ Content' = Content
      BY <2>2, DeleteReplacedFits DEF DeleteReplaced, Content
    <3> QED
      BY <3>1 DEF Abstractly
  <2>3. CASE DeleteLeaf(n) \/ MoveUpRight(n) \/ SeekSuccessor(n)
    <3>1. nodes' = nodes /\ data' = data /\ answer' = answer
      BY <2>3 DEF DeleteLeaf, MoveUpRight, SeekSuccessor, fields
    <3> QED
      BY <3>1, SameAnswer
  <2> QED
    BY <2>1, <2>2, <2>3 DEF Tree_DeleteNode
<1>3. CASE \E s \in Sides : Outermost(s) \/ \E n \in Addresses : Neighbour(n, s)
  <2>1. PICK s \in Sides : Outermost(s) \/ \E n \in Addresses : Neighbour(n, s)
    BY <1>3
  <2>2. CASE \E n \in Addresses : Neighbour(n, s)
    <3>1. nodes' = nodes /\ data' = data /\ answer' = answer
      BY <2>2 DEF Neighbour, Start, fields
    <3> QED
      BY <3>1, SameAnswer
  <2> QED
    BY <2>1, <2>2, OutermostAbstractly
<1>4. CASE Step
  <2>1. CASE Descend \/ Tree_InsertBalance \/ GoLeft \/ MoveUpSuccessor \/ Tree_DeleteBalance
    <3>1. nodes' = nodes /\ data' = data /\ answer' = answer
      BY <2>1 DEF Descend, Tree_InsertBalance, GoLeft, MoveUpSuccessor, Tree_DeleteBalance, fields
    <3> QED
      BY <3>1, SameAnswer
  <2> QED
    BY <2>1, <1>4, FoundAbstractly, NotFoundAbstractly, InsertLeafAbstractly, NodeFreeAbstractly,
       DownAbstractly, ClimbAbstractly DEF Step
<1> QED
  BY <1>1, <1>2, <1>3, <1>4 DEF Next

\* Seen from outside, call for call, the tree is the set of its keys: what
\* Tree_SearchNode, Tree_Insert, Tree_DeleteNode, Tree_FirstNode, Tree_LastNode,
\* Tree_NextNode and Tree_PrevNode return and change is what KeySet says.
THEOREM Implements == Spec => ImplementsSet
<1>1. Init => Abstract!Init
  BY DEF Init, Abstract!Init
<1>2. IInv /\ [Next]_vars => [Abstract!Step]_<<{data[n] : n \in nodes}, answer>>
  <2>1. ASSUME IInv, Next PROVE Abstractly
    BY <2>1, NextAbstractly
  <2>2. ASSUME UNCHANGED vars PROVE UNCHANGED <<{data[n] : n \in nodes}, answer>>
    BY <2>2 DEF vars, fields
  <2> QED
    BY <2>1, <2>2 DEF Abstractly, Content
<1> QED
  BY <1>1, <1>2, Inductive, PTL DEF Spec, ImplementsSet, Abstract!Spec
=============================================================================
