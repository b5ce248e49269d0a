--------------------------- MODULE RoomDirectory ---------------------------
(***************************************************************************)
(* The rooms of the module and the two AVL trees that index them, keyTree  *)
(* and tagTree, under the rwlock searchLock (src/lib/tbde/tbde.c): tag_get *)
(* to create and open a room, tag_ctl(REMOVE), the look-up every other     *)
(* call starts with, the limit MAX_ROOM that root writes in sysfs, and the *)
(* unloading of the module.                                                *)
(*                                                                         *)
(* A critical section of searchLock is one step: what it touches is only   *)
(* touched under the lock, but for roomCount, which it changes once.  What *)
(* the code does before, between and after critical sections are steps of  *)
(* their own.  A tree is the set of rooms in its nodes (AvlTree is about   *)
(* the trees themselves); a room is identified by its address, which the   *)
(* allocator may hand out again as soon as the room is freed.              *)
(***************************************************************************)
EXTENDS Refcount, FiniteSets

CONSTANTS
  Threads,
  RoomIds,        \* addresses the allocator may give to a room
  Keys, Private,  \* public keys, and TBDE_IPC_PRIVATE
  MaxTag,         \* the last tag before tagCounting wraps (INT_MAX)
  min_sys_ROOM,   \* default and least value of MAX_ROOM (256)
  Limits,         \* values root may write to MAX_ROOM
  NoRoom, NoValue

ASSUME DirectoryAssumption ==
  /\ Private \notin Keys /\ NoRoom \notin RoomIds
  /\ MaxTag \in Nat \ {0} /\ min_sys_ROOM \in Nat \ {0} /\ Limits \subseteq Nat
  /\ IsFiniteSet(RoomIds) /\ Cardinality(RoomIds) <= MaxTag
  /\ IsFiniteSet(Threads) /\ Cardinality(Threads) + 2 < INT_MAX   \* references fit a counter

Tags == 0 .. MaxTag

VARIABLES
  live, key, tag, refCount,              \* room, by address
  keyTree, tagTree,                      \* what the trees point to
  roomCount, tagCounting, MAX_ROOM,
  pc, rm, arg                            \* locals, by thread

trees == <<keyTree, tagTree, roomCount, tagCounting>>
locals == <<pc, rm, arg>>
vars == <<live, key, tag, refCount, trees, MAX_ROOM, locals>>

PCs == {"idle", "make", "insert", "key_in_use", "read_tag", "open", "use", "removed",
        "store"}

Init ==
  /\ live = [r \in RoomIds |-> FALSE]
  /\ key = [r \in RoomIds |-> Private]
  /\ tag = [r \in RoomIds |-> 0]
  /\ refCount = [r \in RoomIds |-> 0]
  /\ keyTree = {} /\ tagTree = {}
  /\ roomCount = 0 /\ tagCounting = 0
  /\ MAX_ROOM = min_sys_ROOM
  /\ pc = [t \in Threads |-> "idle"]
  /\ rm = [t \in Threads |-> NoRoom]
  /\ arg = [t \in Threads |-> NoValue]

Goto(t, from, to) ==
  /\ pc[t] = from
  /\ pc' = [pc EXCEPT ![t] = to]

\* The call returns: its locals are gone.
Return(t, from) ==
  /\ Goto(t, from, "idle")
  /\ rm' = [rm EXCEPT ![t] = NoRoom]
  /\ arg' = [arg EXCEPT ![t] = NoValue]

\* A definition named Faulty... is not part of the model: it is the definition
\* after it with a bug a programmer could have written, for showing that the
\* properties notice.
FaultyFreeRoom(r) ==   \* fault: the test of the count is dropped
  /\ refCount' = [refCount EXCEPT ![r] = AfterDecAndTest(@)]
  /\ live' = [live EXCEPT ![r] = FALSE]

\* The thread that takes the count to zero frees the room.
freeRoom(r) ==
  /\ refCount' = [refCount EXCEPT ![r] = AfterDecAndTest(@)]
  /\ live' = [live EXCEPT ![r] = @ /\ ~refcount_dec_and_test(refCount[r])]

RoomsWithKey(k) == {r \in keyTree : key[r] = k}
RoomsWithTag(g) == {r \in tagTree : tag[r] = g}

-----------------------------------------------------------------------------
(* tag_get(TBDE_O_CREAT) *)

FaultyTooManyRooms == roomCount > MAX_ROOM   \* fault: > for >=
TooManyRooms == roomCount >= MAX_ROOM

\* The limit is tested before anything is allocated, outside the lock.
CheckRoomCount(t, k) ==
  /\ Goto(t, "idle", IF TooManyRooms THEN "idle" ELSE "make")
  /\ arg' = [arg EXCEPT ![t] = IF TooManyRooms THEN NoValue ELSE k]
  /\ UNCHANGED <<live, key, tag, refCount, trees, MAX_ROOM, rm>>

\* The references of the trees are taken before the trees have the room.
roomMake(t) ==
  /\ Goto(t, "make", "insert")
  /\ \E r \in RoomIds :
       /\ ~live[r]
       /\ live' = [live EXCEPT ![r] = TRUE]
       /\ key' = [key EXCEPT ![r] = arg[t]]
       /\ tag' = [tag EXCEPT ![r] = 0]
       /\ refCount' = [refCount EXCEPT ![r] = IF arg[t] = Private THEN 1 ELSE 2]
       /\ rm' = [rm EXCEPT ![t] = r]
  /\ UNCHANGED <<trees, MAX_ROOM, arg>>

\* roomTagInsert_Force: positiveAtomic_inc until the tag is not in use.
FaultyNextTag(c) == c + 1   \* fault: the sign bit is not removed after an overflow

NextTag(c) ==
  LET After(n) == (c + n) % (MaxTag + 1)
      first == CHOOSE n \in 1 .. MaxTag + 1 :
                 /\ RoomsWithTag(After(n)) = {}
                 /\ \A m \in 1 .. n - 1 : RoomsWithTag(After(m)) # {}
  IN After(first)

FaultyKeyIsFree(k) == TRUE   \* fault: the result of Tree_Insert is ignored
KeyIsFree(k) == k = Private \/ RoomsWithKey(k) = {}

InsertRoom(t) ==
  LET r == rm[t] IN
  /\ Goto(t, "insert", "read_tag")
  /\ KeyIsFree(key[r])
  /\ keyTree' = IF key[r] = Private THEN keyTree ELSE keyTree \cup {r}
  /\ tagCounting' = NextTag(tagCounting)
  /\ tag' = [tag EXCEPT ![r] = NextTag(tagCounting)]
  /\ tagTree' = tagTree \cup {r}
  /\ roomCount' = roomCount + 1
  /\ UNCHANGED <<live, key, refCount, MAX_ROOM, rm, arg>>

FaultyFindKeyInUse(t) ==   \* fault: the tag is inserted before the key is tried, and stays
  /\ Goto(t, "insert", "key_in_use")
  /\ ~KeyIsFree(key[rm[t]])
  /\ tagTree' = tagTree \cup {rm[t]}
  /\ UNCHANGED <<live, key, tag, refCount, keyTree, roomCount, tagCounting, MAX_ROOM, rm, arg>>

FindKeyInUse(t) ==
  /\ Goto(t, "insert", "key_in_use")
  /\ ~KeyIsFree(key[rm[t]])
  /\ UNCHANGED <<live, key, tag, refCount, trees, MAX_ROOM, rm, arg>>

\* doobleFreeRoom: nobody else has ever seen this room.
DoubleFreeRoom(t) ==
  /\ Return(t, "key_in_use")
  /\ refCount' = [refCount EXCEPT ![rm[t]] = AfterDecAndTest(AfterDecAndTest(@))]
  /\ live' = [live EXCEPT ![rm[t]] = ~refcount_dec_and_test(AfterDecAndTest(refCount[rm[t]]))]
  /\ UNCHANGED <<key, tag, trees, MAX_ROOM>>

\* "return rm->tag", with no reference to the room any more.
ReturnTag(t) ==
  /\ Return(t, "read_tag")
  /\ UNCHANGED <<live, key, tag, refCount, trees, MAX_ROOM>>

-----------------------------------------------------------------------------
(* tag_get(TBDE_O_OPEN), and the look-up of tag_send, tag_receive and      *)
(* AWAKE_ALL: a reference taken under the lock keeps the room until the    *)
(* call drops it, after which the tag, if it was asked for, is returned.   *)

treeNode2Room_refInc(t, found, to) ==
  /\ \E r \in found :
       /\ refCount' = [refCount EXCEPT ![r] = refcount_inc(@)]
       /\ rm' = [rm EXCEPT ![t] = r]
  /\ Goto(t, "idle", to)
  /\ UNCHANGED <<live, key, tag, trees, MAX_ROOM, arg>>

OpenKey(t, k) == treeNode2Room_refInc(t, RoomsWithKey(k), "open")
FindTag(t, g) == treeNode2Room_refInc(t, RoomsWithTag(g), "use")

DropRoom(t, from) ==
  /\ Return(t, from)
  /\ freeRoom(rm[t])
  /\ UNCHANGED <<key, tag, trees, MAX_ROOM>>

-----------------------------------------------------------------------------
(* tag_ctl(TBDE_REMOVE).  The refused cases take a reference and drop it   *)
(* under the lock, so they change nothing; whether waitersInRoom finds     *)
(* somebody is left open, as a receiver may be about to count itself.      *)

FaultyUnlink(r) ==   \* fault: keyTree keeps the room
  /\ tagTree' = tagTree \ {r}
  /\ UNCHANGED keyTree

Unlink(r) ==
  /\ tagTree' = tagTree \ {r}
  /\ keyTree' = IF key[r] = Private THEN keyTree ELSE keyTree \ RoomsWithKey(key[r])

\* The reference of the call, then the two of the trees (one if private).
RemoveRoom(t, g) ==
  \E r \in RoomsWithTag(g) :
    LET held == refcount_inc(refCount[r])
        untagged == AfterDecAndTest(held)
    IN /\ Goto(t, "idle", "removed")
       /\ Unlink(r)
       /\ refCount' = [refCount EXCEPT ![r] =
                         IF key[r] = Private THEN untagged ELSE AfterDecAndTest(untagged)]
       /\ roomCount' = roomCount - 1
       /\ rm' = [rm EXCEPT ![t] = r]
       /\ UNCHANGED <<live, key, tag, tagCounting, MAX_ROOM, arg>>

-----------------------------------------------------------------------------
(* var_store: the new limit is compared with roomCount, then stored.       *)

CheckLimit(t, v) ==
  /\ v >= min_sys_ROOM /\ v >= roomCount
  /\ Goto(t, "idle", "store")
  /\ arg' = [arg EXCEPT ![t] = v]
  /\ UNCHANGED <<live, key, tag, refCount, trees, MAX_ROOM, rm>>

StoreLimit(t) ==
  /\ Return(t, "store")
  /\ MAX_ROOM' = arg[t]
  /\ UNCHANGED <<live, key, tag, refCount, trees>>

-----------------------------------------------------------------------------
(* unmountTBDE, then initTBDE of the next load.  try_module_get in every   *)
(* call keeps the module loaded while a thread is inside.                  *)

Drops(r) == IF r \in tagTree \cap keyTree THEN 2
            ELSE IF r \in tagTree \cup keyTree THEN 1 ELSE 0

Reload ==
  /\ \A t \in Threads : pc[t] = "idle"
  /\ live' = [r \in RoomIds |-> live[r] /\ (Drops(r) = 0 \/ refCount[r] # Drops(r))]
  /\ refCount' = [r \in RoomIds |-> IF Drops(r) = 0 THEN refCount[r] ELSE refCount[r] - Drops(r)]
  /\ keyTree' = {} /\ tagTree' = {}
  /\ roomCount' = 0 /\ tagCounting' = 0
  /\ MAX_ROOM' = min_sys_ROOM
  /\ UNCHANGED <<key, tag, locals>>

-----------------------------------------------------------------------------
Create(t) ==
  \/ \E k \in Keys \cup {Private} : CheckRoomCount(t, k)
  \/ roomMake(t) \/ InsertRoom(t) \/ FindKeyInUse(t) \/ DoubleFreeRoom(t) \/ ReturnTag(t)

Lookup(t) ==
  \/ \E k \in Keys : OpenKey(t, k)
  \/ \E g \in Tags : FindTag(t, g)
  \/ DropRoom(t, "open") \/ DropRoom(t, "use")

Remove(t) == \E g \in Tags : RemoveRoom(t, g)
SetLimit(t) == (\E v \in Limits : CheckLimit(t, v)) \/ StoreLimit(t)

Next ==
  \/ \E t \in Threads : Create(t) \/ Lookup(t) \/ Remove(t) \/ DropRoom(t, "removed")
                        \/ SetLimit(t)
  \/ Reload

Spec == Init /\ [][Next]_vars

-----------------------------------------------------------------------------
(* Properties *)

TypeOK ==
  /\ live \in [RoomIds -> BOOLEAN]
  /\ key \in [RoomIds -> Keys \cup {Private}]
  /\ tag \in [RoomIds -> Tags]
  /\ refCount \in [RoomIds -> Int]
  /\ keyTree \subseteq RoomIds /\ tagTree \subseteq RoomIds
  /\ roomCount \in Int /\ tagCounting \in Tags /\ MAX_ROOM \in Nat
  /\ pc \in [Threads -> PCs]
  /\ rm \in [Threads -> RoomIds \cup {NoRoom}]
  /\ arg \in [Threads -> Keys \cup {Private, NoValue} \cup Limits]

\* The two trees agree: no two rooms share a tag or a public key, keyTree has
\* exactly the public rooms of tagTree, and roomCount counts them.
TreesAgree ==
  /\ \A r, s \in tagTree : tag[r] = tag[s] => r = s
  /\ \A r, s \in keyTree : key[r] = key[s] => r = s
  /\ keyTree = {r \in tagTree : key[r] # Private}
  /\ roomCount = Cardinality(tagTree)

\* References of a room: one for each tree that has it or is about to, one for
\* each call that found it.
Making(r) == {t \in Threads : rm[t] = r /\ pc[t] \in {"insert", "key_in_use"}}
Using(r) == {t \in Threads : rm[t] = r /\ pc[t] \in {"open", "use", "removed"}}
Trees(r) == IF key[r] = Private THEN 1 ELSE 2
Indexed(r) == r \in tagTree \/ Making(r) # {}

RefExact(r) ==
  /\ live[r] <=> Indexed(r) \/ Using(r) # {}
  /\ live[r] => refCount[r] = Cardinality(Using(r)) + (IF Indexed(r) THEN Trees(r) ELSE 0)

\* The count of every room in memory is the number of its references, and a
\* room that nobody refers to is not in memory: none leaks, none is freed twice.
RefsExact == \A r \in RoomIds : RefExact(r)

\* Threads have a room, a key and a limit where they use them.
LocalsInv ==
  \A t \in Threads :
    /\ pc[t] = "make" => arg[t] \in Keys \cup {Private}
    /\ pc[t] = "store" => arg[t] \in Limits
    /\ pc[t] \in {"insert", "key_in_use", "open", "use", "removed"} => rm[t] \in RoomIds

\* A room that is being made is not in the trees yet, and one thread has it;
\* only a public key can be in use.
MakingInv ==
  \A t \in Threads :
    /\ pc[t] \in {"insert", "key_in_use"} =>
         rm[t] \notin tagTree /\ Making(rm[t]) = {t} /\ Using(rm[t]) = {}
    /\ pc[t] = "key_in_use" => key[rm[t]] # Private

LimitInv == MAX_ROOM \in Limits \cup {min_sys_ROOM}

\* What every step preserves, and what makes TreesAgree and RefsExact hold: a
\* room in the making is its creator's alone, so the creator may count it for
\* trees that do not have it, insert it, or take it back.
IInv == TypeOK /\ TreesAgree /\ RefsExact /\ LocalsInv /\ MakingInv /\ LimitInv

\* tag_get(CREATE) still reads the room it made when it returns its tag.
CreateReadsLive == \A t \in Threads : pc[t] = "read_tag" => live[rm[t]]

\* The test of roomCount outside the lock lets at most one room too many in
\* for each thread but one, over the highest limit that is ever set.
LimitOvershoot ==
  \E limit \in Limits \cup {min_sys_ROOM} :
    roomCount + Cardinality({t \in Threads : pc[t] \in {"make", "insert"}})
      <= limit + Cardinality(Threads) - 1

\* What a room in the trees is for the callers.
Entry(r) == [tag |-> tag[r], key |-> key[r]]
OpenRooms == {Entry(r) : r \in tagTree}

Abstract == INSTANCE Directory WITH open <- OpenRooms

\* Every behaviour is one of the directory: a room appears with a tag and a
\* key of its own in one step, keeps them, and disappears in one step.
ImplementsDirectory == Abstract!Spec

=============================================================================
