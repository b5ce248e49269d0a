------------------------ MODULE RoomDirectoryProofs ------------------------
(***************************************************************************)
(* The room directory, for any finite set of threads and of addresses, any *)
(* keys and limits, and any number of tags greater than that of rooms.     *)
(***************************************************************************)
EXTENDS RoomDirectory, NaturalLemmas

-----------------------------------------------------------------------------
(* Counting threads and rooms *)

\* Sets of threads and of rooms are finite, and references fit a counter.
LEMMA Finite ==
  /\ \A S \in SUBSET Threads :
       IsFiniteSet(S) /\ Cardinality(S) \in Nat /\ Cardinality(S) + 2 < INT_MAX
  /\ \A S \in SUBSET RoomIds : IsFiniteSet(S) /\ Cardinality(S) \in Nat
<1>1. IsFiniteSet(Threads) /\ Cardinality(Threads) \in Nat /\ Cardinality(Threads) + 2 < INT_MAX
  BY DirectoryAssumption, FS_CardinalityType
<1>2. ASSUME NEW S \in SUBSET Threads
      PROVE  IsFiniteSet(S) /\ Cardinality(S) \in Nat /\ Cardinality(S) + 2 < INT_MAX
  <2>1. IsFiniteSet(S) /\ Cardinality(S) <= Cardinality(Threads)
    BY <1>1, FS_Subset
  <2>2. Cardinality(S) \in Nat
    BY <2>1, FS_CardinalityType
  <2> QED
    BY <1>1, <2>1, <2>2 DEF INT_MAX
<1>3. ASSUME NEW S \in SUBSET RoomIds
      PROVE  IsFiniteSet(S) /\ Cardinality(S) \in Nat
  BY DirectoryAssumption, FS_Subset, FS_CardinalityType
<1> QED
  BY <1>2, <1>3

\* Counters that are in use and far from their limit are ordinary integers.
LEMMA OrdinaryCount ==
  ASSUME NEW v \in Nat, v > 0, v < INT_MAX
  PROVE  refcount_inc(v) = v + 1 /\ AfterDecAndTest(v) = v - 1
BY DEF refcount_inc, AfterDecAndTest

LEMMA OneMoreAndLess ==
  ASSUME NEW v \in Nat, v > 0, v < INT_MAX
  PROVE  refcount_inc(v) = v + 1 /\ AfterDecAndTest(v + 1) = v
BY DEF refcount_inc, AfterDecAndTest, INT_MAX

LEMMA CounterTypes ==
  ASSUME NEW v \in Int
  PROVE  refcount_inc(v) \in Int /\ AfterDecAndTest(v) \in Int
BY DEF refcount_inc, AfterDecAndTest, REFCOUNT_SATURATED

-----------------------------------------------------------------------------
(* Tags *)

\* There are more tags than rooms, so one of them is not in use.
LEMMA SomeTagIsFree ==
  ASSUME TypeOK
  PROVE  \E g \in Tags : RoomsWithTag(g) = {}
<1> SUFFICES ASSUME \A g \in Tags : RoomsWithTag(g) # {}
             PROVE  FALSE
  OBVIOUS
<1> DEFINE owner == [g \in Tags |-> CHOOSE r \in RoomsWithTag(g) : TRUE]
<1>1. \A g \in Tags : owner[g] \in tagTree /\ tag[owner[g]] = g
  BY DEF RoomsWithTag
<1>2. owner \in [Tags -> RoomIds]
  BY <1>1 DEF TypeOK
<1>3. IsFiniteSet(Tags) /\ Cardinality(Tags) = MaxTag + 1
  BY DirectoryAssumption, FS_Interval DEF Tags
<1>4. IsFiniteSet(RoomIds) /\ Cardinality(RoomIds) < Cardinality(Tags)
  BY <1>3, DirectoryAssumption, FS_CardinalityType
<1> HIDE DEF owner
<1>5. \E g, h \in Tags : g # h /\ owner[g] = owner[h]
  BY <1>2, <1>3, <1>4, FS_PigeonHole
<1> QED
  BY <1>1, <1>5

\* The loop of roomTagInsert_Force ends, with a tag that no room has.
LEMMA NextTagIsFree ==
  ASSUME TypeOK
  PROVE  NextTag(tagCounting) \in Tags /\ RoomsWithTag(NextTag(tagCounting)) = {}
<1> DEFINE After(n) == (tagCounting + n) % (MaxTag + 1)
           free == {n \in 1 .. MaxTag + 1 : RoomsWithTag(After(n)) = {}}
           IsFirst(n) == /\ RoomsWithTag(After(n)) = {}
                         /\ \A m \in 1 .. n - 1 : RoomsWithTag(After(m)) # {}
           first == CHOOSE n \in 1 .. MaxTag + 1 : IsFirst(n)
<1>1. MaxTag \in Nat \ {0} /\ tagCounting \in 0 .. MaxTag
  BY DirectoryAssumption DEF TypeOK, Tags
<1>2. free # {}
  <2>1. PICK g \in Tags : RoomsWithTag(g) = {}
    BY SomeTagIsFree
  <2>2. g \in 0 .. (MaxTag + 1) - 1 /\ tagCounting \in 0 .. (MaxTag + 1) - 1
    BY <1>1, <2>1 DEF Tags
  <2>3. MaxTag + 1 \in Nat \ {0}
    BY <1>1
  <2>4. \E n \in 1 .. MaxTag + 1 : After(n) = g
    BY <2>2, <2>3, WrapsToEvery
  <2> QED
    BY <2>1, <2>4
<1>3. free \in SUBSET Nat
  BY <1>1
<1>4. PICK n \in free : \A m \in free : n <= m
  BY <1>2, <1>3, LeastNatural
<1>5. n \in 1 .. MaxTag + 1 /\ IsFirst(n)
  <2>1. n \in 1 .. MaxTag + 1 /\ RoomsWithTag(After(n)) = {}
    BY <1>4
  <2>2. ASSUME NEW m \in 1 .. n - 1
        PROVE  RoomsWithTag(After(m)) # {}
    <3>1. m \in 1 .. MaxTag + 1 /\ m < n
      BY <1>1, <2>1
    <3>2. m \notin free
      BY <1>4, <3>1
    <3> QED
      BY <3>1, <3>2
  <2> QED
    BY <2>1, <2>2
<1> HIDE DEF IsFirst, free
<1>6. first \in 1 .. MaxTag + 1 /\ IsFirst(first)
  BY <1>5
<1>7. NextTag(tagCounting) = After(first)
  BY DEF NextTag, IsFirst
<1>8. After(first) \in Tags
  BY <1>1, <1>6 DEF Tags
<1> QED
  BY <1>6, <1>7, <1>8 DEF IsFirst

-----------------------------------------------------------------------------
(* Types *)

Step(t) ==
  Create(t) \/ Lookup(t) \/ Remove(t) \/ DropRoom(t, "removed") \/ SetLimit(t)

\* Every step keeps every variable in its type.
LEMMA TypeStep ==
  ASSUME IInv, NEW t \in Threads, Step(t)
  PROVE  TypeOK'
<1> USE DEF IInv, TypeOK, LocalsInv, Goto, Return, PCs, trees, locals
<1>1. CASE \E k \in Keys \cup {Private} : CheckRoomCount(t, k)
  BY <1>1 DEF CheckRoomCount
<1>2. CASE roomMake(t)
  BY <1>2, DirectoryAssumption DEF roomMake, Tags
<1>3. CASE InsertRoom(t)
  BY <1>3, NextTagIsFree DEF InsertRoom
<1>4. CASE FindKeyInUse(t)
  BY <1>4 DEF FindKeyInUse
<1>5. CASE DoubleFreeRoom(t)
  BY <1>5, CounterTypes DEF DoubleFreeRoom, refcount_dec_and_test
<1>6. CASE ReturnTag(t)
  BY <1>6 DEF ReturnTag
<1>7. ASSUME NEW found \in SUBSET RoomIds, NEW to \in PCs, treeNode2Room_refInc(t, found, to)
      PROVE  TypeOK'
  BY <1>7, CounterTypes DEF treeNode2Room_refInc
<1>8. CASE \E k \in Keys : OpenKey(t, k)
  BY <1>7, <1>8 DEF OpenKey, RoomsWithKey
<1>9. CASE \E g \in Tags : FindTag(t, g)
  BY <1>7, <1>9 DEF FindTag, RoomsWithTag
<1>10. ASSUME NEW from \in {"open", "use", "removed"}, DropRoom(t, from)
      PROVE  TypeOK'
  BY <1>10, CounterTypes DEF DropRoom, freeRoom, refcount_dec_and_test
<1>11. CASE Remove(t)
  BY <1>11, CounterTypes DEF Remove, RemoveRoom, RoomsWithTag, Unlink
<1>12. CASE SetLimit(t)
  <2>1. CASE \E v \in Limits : CheckLimit(t, v)
    BY <2>1 DEF CheckLimit
  <2>2. CASE StoreLimit(t)
    <3>1. arg[t] \in Nat
      BY <2>2, DirectoryAssumption DEF StoreLimit
    <3> QED
      BY <2>2, <3>1 DEF StoreLimit
  <2> QED
    BY <1>12, <2>1, <2>2 DEF SetLimit
<1>13. CASE Create(t)
  BY <1>1, <1>2, <1>3, <1>4, <1>5, <1>6, <1>13 DEF Create
<1>14. CASE Lookup(t)
  BY <1>8, <1>9, <1>10, <1>14 DEF Lookup
<1> QED
  BY <1>10, <1>11, <1>12, <1>13, <1>14 DEF Step

-----------------------------------------------------------------------------
(* What a step of one thread leaves alone *)

LEMMA OthersStay ==
  ASSUME TypeOK, NEW t \in Threads, Step(t), NEW u \in Threads, u # t
  PROVE  pc'[u] = pc[u] /\ rm'[u] = rm[u] /\ arg'[u] = arg[u]
<1> USE DEF TypeOK, Goto, Return, locals
<1>1. CASE Create(t)
  BY <1>1 DEF Create, CheckRoomCount, roomMake, InsertRoom, FindKeyInUse, DoubleFreeRoom, ReturnTag
<1>2. CASE Lookup(t)
  BY <1>2 DEF Lookup, OpenKey, FindTag, treeNode2Room_refInc, DropRoom
<1>3. CASE Remove(t) \/ DropRoom(t, "removed") \/ SetLimit(t)
  BY <1>3 DEF Remove, RemoveRoom, DropRoom, SetLimit, CheckLimit, StoreLimit
<1> QED
  BY <1>1, <1>2, <1>3 DEF Step

\* Where threads work on rooms.
MakingPCs == {"insert", "key_in_use"}
UsingPCs == {"open", "use", "removed"}

\* Every room has its users, but for the ones that t joins or leaves.
LEMMA OtherUsers ==
  ASSUME TypeOK, NEW t \in Threads, Step(t), NEW r \in RoomIds
  PROVE  /\ Making(r)' = (Making(r) \ {t}) \cup
                         (IF rm'[t] = r /\ pc'[t] \in MakingPCs THEN {t} ELSE {})
         /\ Using(r)' = (Using(r) \ {t}) \cup
                        (IF rm'[t] = r /\ pc'[t] \in UsingPCs THEN {t} ELSE {})
BY OthersStay DEF Making, Using, MakingPCs, UsingPCs

-----------------------------------------------------------------------------
(* The trees *)

\* A room that is not in memory is not in the trees, and nobody has it.
LEMMA FreshRoom ==
  ASSUME IInv, NEW r \in RoomIds, ~live[r]
  PROVE  r \notin tagTree /\ r \notin keyTree /\ Making(r) = {} /\ Using(r) = {}
BY DEF IInv, RefsExact, RefExact, Indexed, TreesAgree, TypeOK

\* Steps that leave the trees and their rooms alone keep them consistent.
LEMMA TreesFrame ==
  ASSUME IInv, UNCHANGED trees, \A r \in tagTree : key'[r] = key[r] /\ tag'[r] = tag[r]
  PROVE  TreesAgree'
BY DEF IInv, TreesAgree, trees

\* The trees agree after every step.
LEMMA TreesStep ==
  ASSUME IInv, NEW t \in Threads, Step(t)
  PROVE  TreesAgree'
<1> USE DEF IInv, TypeOK
<1>1. CASE roomMake(t)
  BY <1>1, TreesFrame, FreshRoom DEF roomMake
<1>2. CASE InsertRoom(t)
  <2> DEFINE r == rm[t]
             g == NextTag(tagCounting)
  <2>1. r \in RoomIds /\ r \notin tagTree /\ r \notin keyTree
    BY <1>2 DEF InsertRoom, Goto, LocalsInv, MakingInv, TreesAgree
  <2>2. g \in Tags /\ \A s \in tagTree : tag[s] # g
    BY NextTagIsFree DEF RoomsWithTag
  <2>3. /\ tagTree' = tagTree \cup {r} /\ tag' = [tag EXCEPT ![r] = g] /\ key' = key
        /\ keyTree' = IF key[r] = Private THEN keyTree ELSE keyTree \cup {r}
        /\ roomCount' = roomCount + 1
    BY <1>2 DEF InsertRoom
  <2>4. key[r] = Private \/ \A s \in keyTree : key[s] # key[r]
    BY <1>2 DEF InsertRoom, KeyIsFree, RoomsWithKey
  <2>5. roomCount' = Cardinality(tagTree')
    BY <2>1, <2>3, Finite, CountMembers DEF TreesAgree
  <2>6. \A s, u \in tagTree' : tag'[s] = tag'[u] => s = u
    <3>1. tag'[r] = g /\ \A s \in tagTree : tag'[s] = tag[s]
      BY <2>1, <2>3
    <3> QED
      BY <2>2, <2>3, <3>1 DEF TreesAgree
  <2>7. \A s, u \in keyTree' : key'[s] = key'[u] => s = u
    BY <2>3, <2>4 DEF TreesAgree
  <2>8. keyTree' = {s \in tagTree' : key'[s] # Private}
    BY <2>3 DEF TreesAgree
  <2> QED
    BY <2>5, <2>6, <2>7, <2>8 DEF TreesAgree
<1>3. CASE Remove(t)
  <2>1. PICK r \in tagTree :
          /\ tagTree' = tagTree \ {r} /\ key' = key /\ tag' = tag
          /\ keyTree' = IF key[r] = Private THEN keyTree ELSE keyTree \ RoomsWithKey(key[r])
          /\ roomCount' = roomCount - 1
    BY <1>3 DEF Remove, RemoveRoom, RoomsWithTag, Unlink
  <2>2. key[r] # Private => RoomsWithKey(key[r]) = {r}
    BY DEF RoomsWithKey, TreesAgree
  <2>3. roomCount' = Cardinality(tagTree')
    BY <2>1, Finite, CountMembers DEF TreesAgree
  <2> QED
    BY <2>1, <2>2, <2>3 DEF TreesAgree
<1>4. CASE UNCHANGED <<key, tag, trees>>
  BY <1>4, TreesFrame
<1> QED
  BY <1>1, <1>2, <1>3, <1>4
  DEF Step, Create, Lookup, SetLimit, CheckRoomCount, FindKeyInUse, DoubleFreeRoom, ReturnTag,
      OpenKey, FindTag, treeNode2Room_refInc, DropRoom, CheckLimit, StoreLimit

-----------------------------------------------------------------------------
(* References *)

\* A room keeps an exact count when nothing about it changes.
LEMMA RefFrame ==
  ASSUME IInv, NEW t \in Threads, Step(t), NEW r \in RoomIds,
         live'[r] = live[r], refCount'[r] = refCount[r], key'[r] = key[r],
         r \in tagTree' <=> r \in tagTree,
         rm[t] = r => pc[t] \notin MakingPCs \cup UsingPCs,
         rm'[t] = r => pc'[t] \notin MakingPCs \cup UsingPCs
  PROVE  RefExact(r)'
<1>1. Making(r)' = Making(r) /\ Using(r)' = Using(r)
  BY OtherUsers DEF IInv, Making, Using, MakingPCs, UsingPCs
<1> QED
  BY <1>1 DEF IInv, RefsExact, RefExact, Indexed, Trees

\* The count of a room in memory is positive, and far from its limit.
LEMMA CountInRange ==
  ASSUME IInv, NEW r \in RoomIds, live[r]
  PROVE  /\ refCount[r] = Cardinality(Using(r)) + (IF Indexed(r) THEN Trees(r) ELSE 0)
         /\ refCount[r] \in Nat /\ 0 < refCount[r] /\ refCount[r] < INT_MAX
         /\ Cardinality(Using(r)) \in Nat /\ Cardinality(Using(r)) + 2 < INT_MAX
<1>1. Trees(r) \in {1, 2}
  BY DEF Trees
<1>2. IsFiniteSet(Using(r)) /\ Cardinality(Using(r)) \in Nat /\ Cardinality(Using(r)) + 2 < INT_MAX
  BY Finite DEF Using
<1>3. /\ refCount[r] = Cardinality(Using(r)) + (IF Indexed(r) THEN Trees(r) ELSE 0)
      /\ Indexed(r) \/ Using(r) # {}
  BY DEF IInv, RefsExact, RefExact
<1>4. Using(r) # {} => Cardinality(Using(r)) # 0
  BY <1>2, FS_EmptySet
<1> HIDE DEF Using
<1> QED
  BY <1>1, <1>2, <1>3, <1>4 DEF INT_MAX

\* A thread finds a room in the trees and counts itself: OpenKey, FindTag.
LEMMA RefInc ==
  ASSUME IInv, NEW t \in Threads, Step(t),
         NEW found \in SUBSET tagTree, NEW to \in UsingPCs, treeNode2Room_refInc(t, found, to)
  PROVE  RefsExact'
<1> USE DEF IInv, TypeOK
<1>1. PICK r \in tagTree : /\ refCount' = [refCount EXCEPT ![r] = refcount_inc(@)]
                           /\ rm' = [rm EXCEPT ![t] = r]
  BY DEF treeNode2Room_refInc
<1>2. /\ pc[t] = "idle" /\ pc'[t] = to
      /\ UNCHANGED <<live, key, tagTree>>
  BY DEF treeNode2Room_refInc, Goto, trees
<1>3. RefExact(r)'
  <2>1. Making(r)' = Making(r) /\ Using(r)' = Using(r) \cup {t} /\ t \notin Using(r)
    BY <1>1, <1>2, OtherUsers DEF Making, Using, MakingPCs, UsingPCs
  <2>2. Cardinality(Using(r)') = Cardinality(Using(r)) + 1
    <3>1. Using(r) \subseteq Threads
      BY DEF Using
    <3> QED
      BY <2>1, <3>1, Finite, CountMembers
  <2>3. r \in RoomIds /\ live[r] /\ Indexed(r)
    BY DEF RefsExact, RefExact, Indexed
  <2>4. refCount'[r] = refCount[r] + 1
    BY <1>1, <2>3, CountInRange, OrdinaryCount
  <2>5. Indexed(r)' /\ Trees(r)' = Trees(r) /\ Trees(r) \in {1, 2} /\ live'[r]
    BY <1>2, <2>3 DEF Indexed, Trees
  <2>6. refCount'[r] = Cardinality(Using(r)') + Trees(r)
    BY <2>2, <2>3, <2>4, <2>5, CountInRange
  <2> QED
    BY <2>5, <2>6 DEF RefExact
<1>4. ASSUME NEW s \in RoomIds, s # r
      PROVE  RefExact(s)'
  BY <1>1, <1>2, <1>4, RefFrame DEF MakingPCs, UsingPCs
<1> QED
  BY <1>3, <1>4 DEF RefsExact

\* A thread drops the room it used, and frees it if it was the last.
LEMMA RefDrop ==
  ASSUME IInv, NEW t \in Threads, Step(t), NEW from \in UsingPCs, DropRoom(t, from)
  PROVE  RefsExact'
<1> USE DEF IInv, TypeOK
<1>0. PICK r \in RoomIds : r = rm[t]
  BY DEF DropRoom, Return, Goto, LocalsInv, UsingPCs
<1>1. /\ pc[t] = from /\ pc'[t] = "idle" /\ rm'[t] = NoRoom
      /\ refCount' = [refCount EXCEPT ![r] = AfterDecAndTest(@)]
      /\ live' = [live EXCEPT ![r] = @ /\ ~refcount_dec_and_test(refCount[r])]
      /\ UNCHANGED <<key, tagTree>>
  BY <1>0 DEF DropRoom, freeRoom, Return, Goto, trees
<1>2. RefExact(r)'
  <2>1. Making(r)' = Making(r) /\ Using(r)' = Using(r) \ {t} /\ t \in Using(r)
    BY <1>0, <1>1, OtherUsers DEF Making, Using, MakingPCs, UsingPCs
  <2>2. Using(r) \subseteq Threads
    BY DEF Using
  <2>3. /\ Cardinality(Using(r)') = Cardinality(Using(r)) - 1
        /\ Cardinality(Using(r)') = 0 <=> Using(r)' = {}
        /\ Cardinality(Using(r)') \in Nat
    <3>1. IsFiniteSet(Using(r)) /\ IsFiniteSet(Using(r) \ {t}) /\ Cardinality(Using(r) \ {t}) \in Nat
      BY <2>2, Finite
    <3> QED
      BY <2>1, <3>1, CountMembers, FS_EmptySet
  <2>4. live[r]
    BY <2>1 DEF RefsExact, RefExact
  <2>6. refCount'[r] = refCount[r] - 1 /\ (live'[r] <=> refCount[r] # 1)
    BY <1>1, <2>4, CountInRange, OrdinaryCount DEF refcount_dec_and_test
  <2>7. Indexed(r)' = Indexed(r) /\ Trees(r)' = Trees(r) /\ Trees(r) \in {1, 2}
    BY <1>1, <2>1 DEF Indexed, Trees
  <2>8. refCount'[r] = Cardinality(Using(r)') + (IF Indexed(r) THEN Trees(r) ELSE 0)
    BY <2>3, <2>4, <2>6, <2>7, CountInRange
  <2>9. live'[r] <=> Indexed(r) \/ Using(r)' # {}
    <3>1. refCount[r] # 1 <=> Indexed(r) \/ Cardinality(Using(r)') # 0
      BY <2>3, <2>4, <2>7, CountInRange
    <3> QED
      BY <2>3, <2>6, <3>1
  <2> QED
    BY <2>7, <2>8, <2>9 DEF RefExact
<1>3. ASSUME NEW s \in RoomIds, s # r
      PROVE  RefExact(s)'
  BY <1>0, <1>1, <1>3, RefFrame, DirectoryAssumption DEF MakingPCs, UsingPCs
<1> QED
  BY <1>2, <1>3 DEF RefsExact

\* A new room is counted for the trees it will be in: roomMake.
LEMMA RefMake ==
  ASSUME IInv, NEW t \in Threads, Step(t), roomMake(t)
  PROVE  RefsExact'
<1> USE DEF IInv, TypeOK
<1>1. PICK r \in RoomIds :
        /\ ~live[r]
        /\ live' = [live EXCEPT ![r] = TRUE]
        /\ key' = [key EXCEPT ![r] = arg[t]]
        /\ refCount' = [refCount EXCEPT ![r] = IF arg[t] = Private THEN 1 ELSE 2]
        /\ rm' = [rm EXCEPT ![t] = r]
  BY DEF roomMake
<1>2. pc[t] = "make" /\ pc'[t] = "insert" /\ tagTree' = tagTree
  BY DEF roomMake, Goto, trees
<1>3. RefExact(r)'
  <2>1. Making(r)' = {t} /\ Using(r)' = {} /\ r \notin tagTree
    BY <1>1, <1>2, OtherUsers, FreshRoom DEF MakingPCs, UsingPCs
  <2>2. Cardinality(Using(r)') = 0
    BY <2>1, FS_EmptySet
  <2> QED
    BY <1>1, <2>1, <2>2 DEF RefExact, Indexed, Trees
<1>4. ASSUME NEW s \in RoomIds, s # r
      PROVE  RefExact(s)'
  BY <1>1, <1>2, <1>4, RefFrame DEF MakingPCs, UsingPCs
<1> QED
  BY <1>3, <1>4 DEF RefsExact

\* The references of a room in the making become those of the trees.
LEMMA RefInsert ==
  ASSUME IInv, NEW t \in Threads, Step(t), InsertRoom(t)
  PROVE  RefsExact'
<1> USE DEF IInv, TypeOK
<1>0. PICK r \in RoomIds : r = rm[t]
  BY DEF InsertRoom, Goto, LocalsInv
<1>1. /\ pc[t] = "insert" /\ pc'[t] = "read_tag" /\ tagTree' = tagTree \cup {r}
      /\ UNCHANGED <<live, key, refCount, rm>>
  BY <1>0 DEF InsertRoom, Goto
<1>2. RefExact(r)'
  <2>1. Using(r)' = Using(r) /\ t \in Making(r)
    BY <1>0, <1>1, OtherUsers DEF Making, Using, MakingPCs, UsingPCs
  <2> QED
    BY <1>1, <2>1 DEF RefsExact, RefExact, Indexed, Trees
<1>3. ASSUME NEW s \in RoomIds, s # r
      PROVE  RefExact(s)'
  BY <1>0, <1>1, <1>3, RefFrame DEF MakingPCs, UsingPCs
<1> QED
  BY <1>2, <1>3 DEF RefsExact

\* A room that was made in vain is freed with all its references.
LEMMA RefDoubleFree ==
  ASSUME IInv, NEW t \in Threads, Step(t), DoubleFreeRoom(t)
  PROVE  RefsExact'
<1> USE DEF IInv, TypeOK
<1>0. PICK r \in RoomIds : r = rm[t]
  BY DEF DoubleFreeRoom, Return, Goto, LocalsInv
<1>1. /\ pc[t] = "key_in_use" /\ pc'[t] = "idle" /\ rm'[t] = NoRoom
      /\ live' = [live EXCEPT ![r] = ~refcount_dec_and_test(AfterDecAndTest(refCount[r]))]
      /\ refCount' = [refCount EXCEPT ![r] = AfterDecAndTest(AfterDecAndTest(@))]
      /\ UNCHANGED <<key, tagTree>>
  BY <1>0 DEF DoubleFreeRoom, Return, Goto, trees
<1>2. RefExact(r)'
  <2>1. Making(r) = {t} /\ Using(r) = {} /\ r \notin tagTree
    BY <1>0, <1>1 DEF MakingInv
  <2>2. Making(r)' = {} /\ Using(r)' = {}
    BY <1>0, <1>1, <2>1, OtherUsers DEF MakingPCs, UsingPCs
  <2>3. live[r] /\ Indexed(r) /\ Cardinality(Using(r)) = 0
    BY <2>1, FS_EmptySet DEF RefsExact, RefExact, Indexed
  <2>4. refCount[r] = 2
    <3>1. key[r] # Private
      BY <1>0, <1>1 DEF MakingInv
    <3> QED
      BY <2>3, <3>1, CountInRange DEF Trees
  <2>5. AfterDecAndTest(refCount[r]) = 1
    BY <2>4, OrdinaryCount DEF INT_MAX
  <2>6. ~live'[r]
    BY <1>1, <2>5 DEF refcount_dec_and_test
  <2> QED
    BY <1>1, <2>1, <2>2, <2>6 DEF RefExact, Indexed
<1>3. ASSUME NEW s \in RoomIds, s # r
      PROVE  RefExact(s)'
  BY <1>0, <1>1, <1>3, RefFrame, DirectoryAssumption DEF MakingPCs, UsingPCs
<1> QED
  BY <1>2, <1>3 DEF RefsExact

\* A room leaves the trees, whose references go, and the remover keeps one.
LEMMA RefRemove ==
  ASSUME IInv, NEW t \in Threads, Step(t), Remove(t)
  PROVE  RefsExact'
<1> USE DEF IInv, TypeOK
<1>1. PICK r \in tagTree :
        /\ refCount' = [refCount EXCEPT ![r] =
             IF key[r] = Private THEN AfterDecAndTest(refcount_inc(refCount[r]))
                                 ELSE AfterDecAndTest(AfterDecAndTest(refcount_inc(refCount[r])))]
        /\ rm' = [rm EXCEPT ![t] = r]
        /\ pc[t] = "idle" /\ pc'[t] = "removed"
        /\ tagTree' = tagTree \ {r}
        /\ UNCHANGED <<live, key>>
  BY DEF Remove, RemoveRoom, RoomsWithTag, Unlink, Goto
<1>2. RefExact(r)'
  <2>1. /\ Making(r)' = Making(r) /\ Making(r) = {}
        /\ Using(r)' = Using(r) \cup {t} /\ t \notin Using(r)
    <3>1. Making(r) = {}
      BY <1>1 DEF Making, MakingInv
    <3> QED
      BY <1>1, <3>1, OtherUsers DEF Using, MakingPCs, UsingPCs
  <2>2. Cardinality(Using(r)') = Cardinality(Using(r)) + 1
    <3>1. Using(r) \subseteq Threads
      BY DEF Using
    <3> QED
      BY <2>1, <3>1, Finite, CountMembers
  <2>3. r \in RoomIds /\ live[r] /\ Indexed(r)
    BY DEF RefsExact, RefExact, Indexed
  <2>4. refCount[r] = Cardinality(Using(r)) + Trees(r) /\ Cardinality(Using(r)) \in Nat
        /\ Cardinality(Using(r)) + 2 < INT_MAX
    BY <2>3, CountInRange
  <2>5. refcount_inc(refCount[r]) = refCount[r] + 1
        /\ AfterDecAndTest(refCount[r] + 1) = refCount[r]
    BY <2>3, CountInRange, OneMoreAndLess
  <2>6. key[r] = Private => refCount'[r] = Cardinality(Using(r)')
    BY <1>1, <2>2, <2>3, <2>4, <2>5 DEF Trees
  <2>7. key[r] # Private => refCount'[r] = Cardinality(Using(r)')
    <3>1. AfterDecAndTest(refCount[r]) = refCount[r] - 1
      BY <2>3, CountInRange, OrdinaryCount
    <3> QED
      BY <1>1, <2>2, <2>3, <2>4, <2>5, <3>1 DEF Trees
  <2>8. refCount'[r] = Cardinality(Using(r)')
    BY <2>6, <2>7
  <2>9. ~Indexed(r)' /\ live'[r] /\ Using(r)' # {}
    BY <1>1, <2>1, <2>3 DEF Indexed
  <2> QED
    BY <2>2, <2>4, <2>8, <2>9 DEF RefExact
<1>3. ASSUME NEW s \in RoomIds, s # r
      PROVE  RefExact(s)'
  BY <1>1, <1>3, RefFrame DEF MakingPCs, UsingPCs
<1> QED
  BY <1>2, <1>3 DEF RefsExact

\* The other steps have no room, or keep what they had.
LEMMA RefOther ==
  ASSUME IInv, NEW t \in Threads, Step(t),
         UNCHANGED <<live, refCount, key, tagTree>>,
         \/ pc[t] \notin MakingPCs \cup UsingPCs /\ pc'[t] \notin MakingPCs \cup UsingPCs
         \/ FindKeyInUse(t)
  PROVE  RefsExact'
<1> USE DEF IInv, TypeOK
<1>1. CASE pc[t] \notin MakingPCs \cup UsingPCs /\ pc'[t] \notin MakingPCs \cup UsingPCs
  BY <1>1, RefFrame DEF RefsExact
<1>2. CASE FindKeyInUse(t)
  <2>1. pc[t] = "insert" /\ pc'[t] = "key_in_use" /\ rm' = rm
    BY <1>2 DEF FindKeyInUse, Goto
  <2>2. \A r \in RoomIds : Making(r)' = Making(r) /\ Using(r)' = Using(r)
    BY <2>1, OtherUsers DEF Making, Using, MakingPCs, UsingPCs
  <2> QED
    BY <2>2 DEF RefsExact, RefExact, Indexed, Trees
<1> QED
  BY <1>1, <1>2

\* References are exact after every step.
LEMMA RefStep ==
  ASSUME IInv, NEW t \in Threads, Step(t)
  PROVE  RefsExact'
<1>1. CASE Create(t)
  <2>1. CASE \E k \in Keys \cup {Private} : CheckRoomCount(t, k)
    BY <2>1, RefOther DEF CheckRoomCount, Goto, IInv, TypeOK, MakingPCs, UsingPCs, trees
  <2>2. CASE FindKeyInUse(t)
    BY <2>2, RefOther DEF FindKeyInUse, trees
  <2>3. CASE ReturnTag(t)
    BY <2>3, RefOther DEF ReturnTag, Return, Goto, IInv, TypeOK, MakingPCs, UsingPCs, trees
  <2> QED
    BY <1>1, <2>1, <2>2, <2>3, RefMake, RefInsert, RefDoubleFree DEF Create
<1>2. CASE Lookup(t)
  <2>1. CASE \E k \in Keys : OpenKey(t, k)
    <3>1. PICK k \in Keys : treeNode2Room_refInc(t, RoomsWithKey(k), "open")
      BY <2>1 DEF OpenKey
    <3>2. RoomsWithKey(k) \subseteq tagTree
      BY DEF RoomsWithKey, IInv, TreesAgree
    <3> QED
      BY <3>1, <3>2, RefInc DEF UsingPCs
  <2>2. CASE \E g \in Tags : FindTag(t, g)
    <3>1. PICK g \in Tags : treeNode2Room_refInc(t, RoomsWithTag(g), "use")
      BY <2>2 DEF FindTag
    <3>2. RoomsWithTag(g) \subseteq tagTree
      BY DEF RoomsWithTag
    <3> QED
      BY <3>1, <3>2, RefInc DEF UsingPCs
  <2> QED
    BY <1>2, <2>1, <2>2, RefDrop DEF Lookup, UsingPCs
<1>3. CASE DropRoom(t, "removed")
  BY <1>3, RefDrop DEF UsingPCs
<1>4. CASE SetLimit(t)
  BY <1>4, RefOther
  DEF SetLimit, CheckLimit, StoreLimit, Return, Goto, IInv, TypeOK, MakingPCs, UsingPCs, trees
<1> QED
  BY <1>1, <1>2, <1>3, <1>4, RefRemove DEF Step

-----------------------------------------------------------------------------
(* Locals, rooms in the making, the limit *)

LEMMA LocalsStep ==
  ASSUME IInv, NEW t \in Threads, Step(t)
  PROVE  LocalsInv'
<1> DEFINE Has(u) == /\ pc[u] = "make" => arg[u] \in Keys \cup {Private}
                     /\ pc[u] = "store" => arg[u] \in Limits
                     /\ pc[u] \in MakingPCs \cup UsingPCs => rm[u] \in RoomIds
<1>1. \A u \in Threads : Has(u)
  BY DEF IInv, LocalsInv, MakingPCs, UsingPCs
<1>2. Has(t)'
  <2> USE <1>1 DEF IInv, TypeOK, Goto, Return, MakingPCs, UsingPCs
  <2>1. CASE Create(t)
    BY <2>1
    DEF Create, CheckRoomCount, roomMake, InsertRoom, FindKeyInUse, DoubleFreeRoom, ReturnTag
  <2>2. CASE Lookup(t)
    BY <2>2 DEF Lookup, OpenKey, FindTag, treeNode2Room_refInc, DropRoom, RoomsWithKey, RoomsWithTag
  <2>3. CASE Remove(t) \/ DropRoom(t, "removed") \/ SetLimit(t)
    BY <2>3 DEF Remove, RemoveRoom, DropRoom, SetLimit, CheckLimit, StoreLimit, RoomsWithTag
  <2> QED
    BY <2>1, <2>2, <2>3 DEF Step
<1>3. \A u \in Threads \ {t} : Has(u)'
  BY <1>1, OthersStay DEF IInv
<1> QED
  BY <1>2, <1>3 DEF LocalsInv, MakingPCs, UsingPCs

LEMMA LimitStep ==
  ASSUME IInv, NEW t \in Threads, Step(t)
  PROVE  LimitInv'
<1>1. CASE StoreLimit(t)
  BY <1>1 DEF IInv, LimitInv, LocalsInv, StoreLimit, Return, Goto
<1>2. CASE UNCHANGED MAX_ROOM
  BY <1>2 DEF IInv, LimitInv
<1> QED
  BY <1>1, <1>2
  DEF Step, Create, Lookup, Remove, SetLimit, CheckRoomCount, roomMake, InsertRoom, FindKeyInUse,
      DoubleFreeRoom, ReturnTag, OpenKey, FindTag, treeNode2Room_refInc, DropRoom, RemoveRoom,
      CheckLimit

\* What a thread makes stays out of the reach of the others.
LEMMA MakersApart ==
  ASSUME IInv, NEW t \in Threads, Step(t), NEW u \in Threads, u # t,
         pc[u] \in MakingPCs
  PROVE  /\ rm[u] \in RoomIds /\ rm[u] \notin tagTree' /\ key'[rm[u]] = key[rm[u]]
         /\ ~(rm'[t] = rm[u] /\ pc'[t] \in MakingPCs \cup UsingPCs)
<1> USE DEF IInv, TypeOK, MakingPCs, UsingPCs
<1>0. PICK r \in RoomIds : r = rm[u]
  BY DEF LocalsInv
<1>1. /\ r \notin tagTree /\ r \notin keyTree /\ live[r]
      /\ ~(rm[t] = r /\ pc[t] \in MakingPCs \cup UsingPCs)
  <2>1. r \notin tagTree /\ Making(r) = {u} /\ Using(r) = {}
    BY <1>0 DEF MakingInv
  <2>2. ~(rm[t] = r /\ pc[t] \in MakingPCs \cup UsingPCs)
    <3>1. t \notin Making(r) /\ t \notin Using(r)
      BY <2>1
    <3> QED
      BY <3>1 DEF Making, Using
  <2> QED
    BY <2>1, <2>2 DEF TreesAgree, RefsExact, RefExact, Indexed
<1>2. r \notin tagTree' /\ key'[r] = key[r] /\ ~(rm'[t] = r /\ pc'[t] \in MakingPCs \cup UsingPCs)
  <2> USE <1>1 DEF Goto, Return, trees, locals
  <2>1. CASE Create(t)
    BY <2>1
    DEF Create, CheckRoomCount, roomMake, InsertRoom, FindKeyInUse, DoubleFreeRoom, ReturnTag
  <2>2. CASE Lookup(t)
    BY <2>2 DEF Lookup, OpenKey, FindTag, treeNode2Room_refInc, DropRoom, RoomsWithKey, RoomsWithTag
  <2>3. CASE Remove(t)
    BY <2>3 DEF Remove, RemoveRoom, RoomsWithTag, Unlink
  <2>4. CASE DropRoom(t, "removed") \/ SetLimit(t)
    BY <2>4 DEF DropRoom, SetLimit, CheckLimit, StoreLimit
  <2> QED
    BY <2>1, <2>2, <2>3, <2>4 DEF Step
<1> QED
  BY <1>0, <1>2

LEMMA MakingStep ==
  ASSUME IInv, NEW t \in Threads, Step(t)
  PROVE  MakingInv'
<1> DEFINE Alone(u) == /\ pc[u] \in MakingPCs =>
                            rm[u] \notin tagTree /\ Making(rm[u]) = {u} /\ Using(rm[u]) = {}
                       /\ pc[u] = "key_in_use" => key[rm[u]] # Private
<1> USE DEF IInv, TypeOK
<1>0. \A u \in Threads : Alone(u)
  BY DEF MakingInv, MakingPCs
<1>1. ASSUME NEW u \in Threads, u # t
      PROVE  Alone(u)'
  <2> SUFFICES ASSUME pc'[u] \in MakingPCs
               PROVE  /\ rm'[u] \notin tagTree' /\ Making(rm[u])' = {u} /\ Using(rm[u])' = {}
                      /\ pc'[u] = "key_in_use" => key'[rm'[u]] # Private
    BY DEF MakingPCs
  <2>1. pc'[u] = pc[u] /\ rm'[u] = rm[u]
    BY <1>1, OthersStay
  <2>2. PICK r \in RoomIds : r = rm[u]
    BY <1>1, <2>1, MakersApart
  <2>3. /\ r \notin tagTree' /\ key'[r] = key[r]
        /\ ~(rm'[t] = r /\ pc'[t] \in MakingPCs \cup UsingPCs)
        /\ Making(r) = {u} /\ Using(r) = {}
    BY <1>0, <1>1, <2>1, <2>2, MakersApart
  <2>4. Making(r)' = {u} /\ Using(r)' = {}
    BY <1>1, <2>3, OtherUsers
  <2> QED
    BY <1>0, <2>1, <2>2, <2>3, <2>4 DEF MakingPCs
<1>2. Alone(t)'
  <2>1. CASE roomMake(t)
    <3>1. PICK r \in RoomIds : ~live[r] /\ rm' = [rm EXCEPT ![t] = r]
      BY <2>1 DEF roomMake
    <3>2. pc'[t] = "insert" /\ tagTree' = tagTree /\ rm'[t] = r
      BY <2>1, <3>1 DEF roomMake, Goto, trees
    <3>3. Making(r)' = {t} /\ Using(r)' = {} /\ r \notin tagTree
      BY <3>1, <3>2, FreshRoom, OtherUsers DEF MakingPCs, UsingPCs
    <3> QED
      BY <3>2, <3>3
  <2>2. CASE FindKeyInUse(t)
    <3>1. /\ pc[t] = "insert" /\ pc'[t] = "key_in_use" /\ rm' = rm /\ key' = key
          /\ tagTree' = tagTree /\ key[rm[t]] # Private
      BY <2>2 DEF FindKeyInUse, Goto, KeyIsFree, trees
    <3>2. PICK r \in RoomIds : r = rm[t]
      BY <3>1 DEF LocalsInv
    <3>3. Making(r) = {t} /\ Using(r) = {} /\ r \notin tagTree
      BY <1>0, <3>1, <3>2 DEF MakingPCs
    <3>4. Making(r)' = {t} /\ Using(r)' = {}
      BY <3>1, <3>2, <3>3, OtherUsers DEF MakingPCs, UsingPCs
    <3> QED
      BY <3>1, <3>2, <3>3, <3>4
  <2>3. CASE pc'[t] \notin MakingPCs
    BY <2>3 DEF MakingPCs
  <2> QED
    BY <2>1, <2>2, <2>3
    DEF Step, Create, Lookup, Remove, SetLimit, CheckRoomCount, InsertRoom, DoubleFreeRoom,
        ReturnTag, OpenKey, FindTag, treeNode2Room_refInc, DropRoom, RemoveRoom, CheckLimit,
        StoreLimit, Return, Goto, MakingPCs
<1> QED
  BY <1>1, <1>2 DEF MakingInv, MakingPCs

-----------------------------------------------------------------------------
(* Unloading, and the inductive invariant *)

\* With nobody inside, the references of the trees are all there are: every
\* room is freed with them.
LEMMA ReloadKeeps ==
  ASSUME IInv, Reload
  PROVE  IInv' /\ \A r \in RoomIds : ~live'[r]
<1> USE DEF IInv, TypeOK
<1>1. /\ \A t \in Threads : pc[t] = "idle"
      /\ live' = [r \in RoomIds |-> live[r] /\ (Drops(r) = 0 \/ refCount[r] # Drops(r))]
      /\ refCount' = [r \in RoomIds |-> IF Drops(r) = 0 THEN refCount[r] ELSE refCount[r] - Drops(r)]
      /\ keyTree' = {} /\ tagTree' = {} /\ roomCount' = 0 /\ tagCounting' = 0
      /\ MAX_ROOM' = min_sys_ROOM
      /\ UNCHANGED <<key, tag, pc, rm, arg>>
  BY DEF Reload, locals
<1>2. ASSUME NEW r \in RoomIds
      PROVE  Making(r) = {} /\ Using(r) = {} /\ Making(r)' = {} /\ Using(r)' = {}
  BY <1>1 DEF Making, Using
<1>3. ASSUME NEW r \in RoomIds
      PROVE  ~live'[r]
  <2>1. live[r] <=> r \in tagTree
    BY <1>2 DEF RefsExact, RefExact, Indexed
  <2>2. CASE r \in tagTree
    <3>1. refCount[r] = Trees(r)
      <4>1. Cardinality(Using(r)) = 0
        BY <1>2, FS_EmptySet
      <4> QED
        BY <2>1, <2>2, <4>1, CountInRange DEF Indexed, Trees
    <3>2. Drops(r) = Trees(r)
      BY <2>2 DEF Drops, Trees, TreesAgree
    <3>3. Trees(r) # 0
      BY DEF Trees
    <3> QED
      BY <1>1, <3>1, <3>2, <3>3
  <2>3. CASE r \notin tagTree
    BY <1>1, <2>1, <2>3
  <2> QED
    BY <2>2, <2>3
<1>4. TypeOK'
  <2>1. live' \in [RoomIds -> BOOLEAN]
    BY <1>1
  <2>2. refCount' \in [RoomIds -> Int]
    <3>1. \A r \in RoomIds : Drops(r) \in Int
      BY DEF Drops
    <3> QED
      BY <1>1, <3>1
  <2> QED
    BY <1>1, <2>1, <2>2, DirectoryAssumption DEF Tags
<1>5. TreesAgree'
  BY <1>1, FS_EmptySet DEF TreesAgree
<1>6. RefsExact'
  BY <1>1, <1>2, <1>3 DEF RefsExact, RefExact, Indexed
<1>7. LocalsInv' /\ MakingInv' /\ LimitInv'
  BY <1>1 DEF LocalsInv, MakingInv, LimitInv
<1> QED
  BY <1>3, <1>4, <1>5, <1>6, <1>7

LEMMA InitEstablishes ==
  ASSUME Init
  PROVE  IInv
<1> USE DEF Init
<1>1. TypeOK
  BY DirectoryAssumption DEF TypeOK, Tags, PCs
<1>2. TreesAgree
  BY FS_EmptySet DEF TreesAgree
<1>3. RefsExact
  BY DEF RefsExact, RefExact, Indexed, Making, Using
<1>4. LocalsInv /\ MakingInv /\ LimitInv
  BY DEF LocalsInv, MakingInv, LimitInv
<1> QED
  BY <1>1, <1>2, <1>3, <1>4 DEF IInv

LEMMA StutterKeeps ==
  ASSUME IInv, UNCHANGED vars
  PROVE  IInv'
<1> USE DEF IInv, vars, trees, locals
<1>1. TypeOK' /\ TreesAgree' /\ LocalsInv' /\ LimitInv'
  BY DEF TypeOK, TreesAgree, LocalsInv, LimitInv
<1>2. \A r \in RoomIds : Making(r)' = Making(r) /\ Using(r)' = Using(r)
  BY DEF Making, Using
<1>3. RefsExact'
  BY <1>2 DEF RefsExact, RefExact, Indexed, Trees
<1>4. MakingInv'
  BY DEF MakingInv, Making, Using
<1> QED
  BY <1>1, <1>3, <1>4

LEMMA NextKeeps ==
  ASSUME IInv, [Next]_vars
  PROVE  IInv'
<1>1. ASSUME NEW t \in Threads, Step(t)
      PROVE  IInv'
  <2> HIDE DEF Step
  <2> QED
    BY <1>1, TypeStep, TreesStep, RefStep, LocalsStep, MakingStep, LimitStep DEF IInv
<1> QED
  BY <1>1, ReloadKeeps, StutterKeeps DEF Next, Step

\* In every reachable state the invariant holds.
THEOREM Inductive == Spec => []IInv
<1>1. Init => IInv
  BY InitEstablishes
<1>2. IInv /\ [Next]_vars => IInv'
  BY NextKeeps
<1> QED
  BY <1>1, <1>2, PTL DEF Spec

\* Every variable stays in its type, tags in their range included.
THEOREM TypeCorrect == Spec => []TypeOK
BY Inductive, PTL DEF IInv

\* tag_get, tag_ctl(REMOVE) and the unloading of the module keep the two trees
\* and the count of rooms in agreement, whatever threads do between them.
THEOREM DirectoryConsistent == Spec => []TreesAgree
BY Inductive, PTL DEF IInv

\* refCount is the number of references of every room in memory, and no room
\* is leaked, freed twice, or freed while a call or a tree refers to it.
THEOREM RoomRefsExact == Spec => []RefsExact
BY Inductive, PTL DEF IInv

-----------------------------------------------------------------------------
(* The limit *)

Creators == {t \in Threads : pc[t] \in {"make", "insert"}}
Within(limit) == roomCount + Cardinality(Creators) <= limit + Cardinality(Threads) - 1

LEMMA CreatorsStep ==
  ASSUME TypeOK, NEW t \in Threads, Step(t)
  PROVE  Creators' = (Creators \ {t}) \cup (IF pc'[t] \in {"make", "insert"} THEN {t} ELSE {})
BY OthersStay DEF Creators

LEMMA CreatorsCount ==
  /\ IsFiniteSet(Creators) /\ Cardinality(Creators) \in Nat
  /\ Cardinality(Threads) \in Nat
  /\ \A t \in Threads : /\ Cardinality(Creators \cup {t}) <= Cardinality(Threads)
                        /\ Cardinality(Creators \cup {t}) \in Nat
<1>1. IsFiniteSet(Threads) /\ Creators \subseteq Threads
  BY Finite DEF Creators
<1>2. ASSUME NEW t \in Threads
      PROVE  Creators \cup {t} \in SUBSET Threads
  BY <1>1
<1> QED
  BY <1>1, <1>2, Finite, FS_Subset

\* Who passed the test of the limit made it no worse than one room too many for
\* each of the other threads; from then on the thread is counted, and its room
\* takes its place.
LEMMA LimitOvershootStep ==
  ASSUME IInv, LimitOvershoot, NEW t \in Threads, Step(t)
  PROVE  LimitOvershoot'
<1> USE DEF IInv, TypeOK
<1> DEFINE n == Cardinality(Creators)
           bounds == Limits \cup {min_sys_ROOM}
<1>1. bounds \subseteq Nat
  BY DirectoryAssumption
<1>2. PICK limit \in bounds : Within(limit)
  BY DEF LimitOvershoot, Within, Creators
<1>3. ASSUME NEW l \in bounds, Within(l)'
      PROVE  LimitOvershoot'
  BY <1>3 DEF LimitOvershoot, Within, Creators
<1>4. CASE \E k \in Keys \cup {Private} : CheckRoomCount(t, k)
  <2>1. CASE TooManyRooms
    <3>1. pc[t] = "idle" /\ pc'[t] = "idle" /\ roomCount' = roomCount
      BY <1>4, <2>1 DEF CheckRoomCount, Goto, trees
    <3>2. Creators' = Creators
      BY <3>1, CreatorsStep DEF Creators
    <3> QED
      BY <1>2, <1>3, <3>1, <3>2 DEF Within
  <2>2. CASE ~TooManyRooms
    <3>1. pc[t] = "idle" /\ pc'[t] = "make" /\ roomCount' = roomCount
      BY <1>4, <2>2 DEF CheckRoomCount, Goto, trees
    <3>2. Creators' = Creators \cup {t}
      BY <3>1, CreatorsStep DEF Creators
    <3>3. MAX_ROOM \in bounds /\ roomCount < MAX_ROOM
      BY <2>2 DEF TooManyRooms, LimitInv
    <3>4. Within(MAX_ROOM)'
      <4>1. roomCount + Cardinality(Creators \cup {t}) <= MAX_ROOM + Cardinality(Threads) - 1
        BY <3>3, CreatorsCount
      <4>2. CASE MAX_ROOM' = MAX_ROOM
        BY <3>1, <3>2, <4>1, <4>2 DEF Within
      <4> QED
        BY <1>4, <4>2 DEF CheckRoomCount
    <3>5. MAX_ROOM' = MAX_ROOM
      BY <1>4 DEF CheckRoomCount
    <3> QED
      BY <1>3, <3>3, <3>4, <3>5
  <2> QED
    BY <2>1, <2>2
<1>5. CASE InsertRoom(t)
  <2>1. /\ pc[t] = "insert" /\ pc'[t] = "read_tag" /\ roomCount' = roomCount + 1
    BY <1>5 DEF InsertRoom, Goto
  <2>2. Creators' = Creators \ {t} /\ t \in Creators
    BY <2>1, CreatorsStep DEF Creators
  <2>3. Cardinality(Creators') = n - 1
    BY <2>2, CreatorsCount, CountMembers
  <2>4. Within(limit)'
    BY <1>1, <1>2, <2>1, <2>3, CreatorsCount DEF Within
  <2> QED
    BY <1>3, <2>4
<1>6. CASE Remove(t)
  <2>1. pc[t] = "idle" /\ pc'[t] = "removed" /\ roomCount' = roomCount - 1
    BY <1>6 DEF Remove, RemoveRoom, Goto
  <2>2. Creators' = Creators
    BY <2>1, CreatorsStep DEF Creators
  <2>3. Within(limit)'
    BY <1>1, <1>2, <2>1, <2>2, CreatorsCount DEF Within
  <2> QED
    BY <1>3, <2>3
<1>7. CASE roomMake(t)
  <2>1. pc[t] = "make" /\ pc'[t] = "insert" /\ roomCount' = roomCount
    BY <1>7 DEF roomMake, Goto, trees
  <2>2. Creators' = Creators
    BY <2>1, CreatorsStep DEF Creators
  <2>3. Within(limit)'
    BY <1>2, <2>1, <2>2 DEF Within
  <2> QED
    BY <1>3, <2>3
<1>8. CASE pc'[t] \notin {"make", "insert"} /\ roomCount' = roomCount
  <2>1. Creators' = Creators \ {t}
    BY <1>8, CreatorsStep
  <2>2. Cardinality(Creators') <= n /\ Cardinality(Creators') \in Nat
    <3>1. Creators' \in SUBSET Creators
      BY <2>1
    <3>2. IsFiniteSet(Creators') /\ Cardinality(Creators') <= n
      BY <3>1, CreatorsCount, FS_Subset
    <3> QED
      BY <3>2, FS_CardinalityType
  <2>3. Within(limit)'
    BY <1>1, <1>2, <1>8, <2>2, CreatorsCount DEF Within
  <2> QED
    BY <1>3, <2>3
<1> QED
  BY <1>4, <1>5, <1>6, <1>7, <1>8
  DEF Step, Create, Lookup, SetLimit, FindKeyInUse, DoubleFreeRoom, ReturnTag, OpenKey, FindTag,
      treeNode2Room_refInc, DropRoom, CheckLimit, StoreLimit, Return, Goto, trees

\* The rooms exceed the highest limit there was by at most one for each thread
\* but one: the test of roomCount in tag_get is not under the lock.
THEOREM LimitBounded == Spec => []LimitOvershoot
<1>1. ASSUME roomCount = 0, \A t \in Threads : pc[t] = "idle"
      PROVE  LimitOvershoot
  <2>1. Cardinality({t \in Threads : pc[t] \in {"make", "insert"}}) = 0
    BY <1>1, FS_EmptySet
  <2>2. Cardinality(Threads) \in Nat /\ min_sys_ROOM \in Nat \ {0}
    BY Finite, DirectoryAssumption
  <2>3. 0 <= min_sys_ROOM + Cardinality(Threads) - 1
    BY <2>2
  <2> QED
    BY <1>1, <2>1, <2>3 DEF LimitOvershoot
<1>2. Init => LimitOvershoot
  BY <1>1 DEF Init
<1>3. ASSUME IInv, LimitOvershoot, [Next]_vars
      PROVE  LimitOvershoot'
  <2>1. CASE Reload
    <3>1. roomCount' = 0 /\ \A t \in Threads : pc'[t] = "idle"
      BY <2>1 DEF Reload, locals
    <3>2. Cardinality({t \in Threads : pc[t] \in {"make", "insert"}})' = 0
      BY <3>1, FS_EmptySet
    <3>3. Cardinality(Threads) \in Nat /\ min_sys_ROOM \in Nat \ {0}
      BY Finite, DirectoryAssumption
    <3>4. 0 <= min_sys_ROOM + Cardinality(Threads) - 1
      BY <3>3
    <3> QED
      BY <3>1, <3>2, <3>4 DEF LimitOvershoot
  <2>2. CASE UNCHANGED vars
    BY <1>3, <2>2 DEF LimitOvershoot, vars, trees, locals
  <2>3. ASSUME NEW t \in Threads, Step(t)
        PROVE  LimitOvershoot'
    BY <1>3, <2>3, LimitOvershootStep
  <2> QED
    BY <1>3, <2>1, <2>2, <2>3 DEF Next, Step
<1> QED
  BY <1>2, <1>3, Inductive, PTL DEF Spec

-----------------------------------------------------------------------------
(* The directory that callers see *)

LEMMA SameEntries ==
  ASSUME UNCHANGED tagTree, \A r \in tagTree : key'[r] = key[r] /\ tag'[r] = tag[r]
  PROVE  UNCHANGED OpenRooms
BY DEF OpenRooms, Entry

\* The critical section of roomTagInsert_Force opens the room, that of
\* tag_ctl(REMOVE) closes it, and no other step of a call shows.
LEMMA StepRefines ==
  ASSUME IInv, NEW t \in Threads, Step(t)
  PROVE  Abstract!Next \/ UNCHANGED OpenRooms
<1> USE DEF IInv, TypeOK
<1>1. CASE InsertRoom(t)
  <2> DEFINE g == NextTag(tagCounting)
  <2>0. PICK r \in RoomIds : r = rm[t]
    BY <1>1 DEF InsertRoom, Goto, LocalsInv
  <2>1. /\ r \notin tagTree
        /\ tagTree' = tagTree \cup {r} /\ tag' = [tag EXCEPT ![r] = g] /\ key' = key
        /\ KeyIsFree(key[r])
    BY <1>1, <2>0 DEF InsertRoom, Goto, MakingInv
  <2>2. g \in Tags /\ \A s \in tagTree : tag[s] # g
    BY NextTagIsFree DEF RoomsWithTag
  <2>3. \A s \in tagTree : key[r] = Private \/ key[s] # key[r]
    BY <2>1 DEF KeyIsFree, RoomsWithKey, TreesAgree
  <2>4. OpenRooms' = OpenRooms \cup {[tag |-> g, key |-> key[r]]}
    <3>1. Entry(r)' = [tag |-> g, key |-> key[r]]
      BY <2>1 DEF Entry
    <3>2. \A s \in tagTree : Entry(s)' = Entry(s)
      BY <2>1 DEF Entry
    <3> QED
      BY <2>1, <3>1, <3>2 DEF OpenRooms
  <2>5. \A e \in OpenRooms : e.tag # g /\ (key[r] = Private \/ e.key # key[r])
    BY <2>2, <2>3 DEF OpenRooms, Entry
  <2>6. Abstract!Create(g, key[r])
    BY <2>4, <2>5 DEF Abstract!Create
  <2>7. key[r] \in Keys \cup {Private}
    OBVIOUS
  <2> QED
    BY <2>2, <2>6, <2>7 DEF Abstract!Next
<1>2. CASE Remove(t)
  <2>1. PICK r \in tagTree : tagTree' = tagTree \ {r} /\ key' = key /\ tag' = tag
    BY <1>2 DEF Remove, RemoveRoom, RoomsWithTag, Unlink
  <2>2. \A s \in tagTree : Entry(s)' = Entry(s) /\ (Entry(s) = Entry(r) => s = r)
    BY <2>1 DEF Entry, TreesAgree
  <2>3. OpenRooms' = OpenRooms \ {Entry(r)}
    BY <2>1, <2>2 DEF OpenRooms
  <2>4. Entry(r) \in OpenRooms /\ Abstract!Remove(Entry(r))
    BY <2>3 DEF OpenRooms, Abstract!Remove
  <2> QED
    BY <2>4 DEF Abstract!Next
<1>3. CASE roomMake(t)
  BY <1>3, FreshRoom, SameEntries DEF roomMake, trees
<1>4. CASE UNCHANGED <<key, tag, tagTree>>
  BY <1>4, SameEntries
<1> QED
  BY <1>1, <1>2, <1>3, <1>4
  DEF Step, Create, Lookup, SetLimit, CheckRoomCount, FindKeyInUse, DoubleFreeRoom, ReturnTag,
      OpenKey, FindTag, treeNode2Room_refInc, DropRoom, CheckLimit, StoreLimit, trees

\* The module implements the abstract directory: to its callers a room appears
\* with a tag and a key nobody has, keeps them, and disappears, each in one step.
THEOREM DirectoryImplemented == Spec => ImplementsDirectory
<1>1. Init => Abstract!Init
  BY DEF Init, Abstract!Init, OpenRooms
<1>2. ASSUME IInv, [Next]_vars
      PROVE  [Abstract!Next]_OpenRooms
  <2>1. CASE Reload
    <3>1. Abstract!Shutdown
      BY <2>1 DEF Reload, Abstract!Shutdown, OpenRooms
    <3> QED
      BY <3>1 DEF Abstract!Next
  <2>2. CASE UNCHANGED vars
    BY <2>2, SameEntries DEF vars, trees
  <2>3. ASSUME NEW t \in Threads, Step(t)
        PROVE  [Abstract!Next]_OpenRooms
    BY <1>2, <2>3, StepRefines
  <2> QED
    BY <1>2, <2>1, <2>2, <2>3 DEF Next, Step
<1> QED
  BY <1>1, <1>2, Inductive, PTL DEF Spec, ImplementsDirectory, Abstract!Spec

=============================================================================
