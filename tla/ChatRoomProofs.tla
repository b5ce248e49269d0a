--------------------------- MODULE ChatRoomProofs ---------------------------
(***************************************************************************)
(* The room, for any finite set of threads, any number of levels and       *)
(* addresses, either kind of kernel, with and without signals.             *)
(***************************************************************************)
EXTENDS ChatRoom, FiniteSetTheorems, TLAPS

-----------------------------------------------------------------------------
(* Counting threads *)

\* Any set of threads is finite, and smaller than a counter can hold.
LEMMA ThreadSet ==
  ASSUME NEW S, S \subseteq Threads
  PROVE  IsFiniteSet(S) /\ Cardinality(S) \in Nat /\ Cardinality(S) < MaxThreads
<1>1. IsFiniteSet(Threads) /\ Cardinality(Threads) < MaxThreads
  BY ConstantsAssumption
<1>2. Cardinality(Threads) \in Nat
  BY <1>1, FS_CardinalityType
<1>3. IsFiniteSet(S) /\ Cardinality(S) <= Cardinality(Threads)
  BY <1>1, FS_Subset
<1>4. Cardinality(S) \in Nat
  BY <1>3, FS_CardinalityType
<1> QED
  BY <1>1, <1>2, <1>3, <1>4 DEF MaxThreads

\* A thread that joins a set adds one to its size.
LEMMA ThreadJoins ==
  ASSUME NEW S, S \subseteq Threads, NEW t \in Threads, t \notin S
  PROVE  Cardinality(S \cup {t}) = Cardinality(S) + 1
BY ThreadSet, FS_AddElement

\* A thread that leaves a set takes one from its size.
LEMMA ThreadLeaves ==
  ASSUME NEW S, S \subseteq Threads, NEW t \in S
  PROVE  Cardinality(S \ {t}) = Cardinality(S) - 1
BY ThreadSet, FS_RemoveElement

\* A set of size zero is empty, and the member of a set of size one is alone.
LEMMA NoThreadLeft ==
  ASSUME NEW S, S \subseteq Threads
  PROVE  /\ Cardinality(S) = 0 <=> S = {}
         /\ Cardinality(S) = 1 => \A t \in S : S = {t}
<1>1. IsFiniteSet(S)
  BY ThreadSet
<1>2. Cardinality(S) = 0 <=> S = {}
  BY <1>1, FS_EmptySet
<1>3. ASSUME Cardinality(S) = 1, NEW t \in S
      PROVE  S = {t}
  <2>1. Cardinality(S \ {t}) = 0
    BY <1>3, ThreadLeaves
  <2>2. S \ {t} = {}
    BY <2>1, <1>1, FS_RemoveElement, FS_EmptySet
  <2> QED
    BY <2>2
<1> QED
  BY <1>2, <1>3

-----------------------------------------------------------------------------
(* Types *)

\* The counters stay integers.
LEMMA CounterTypes ==
  ASSUME NEW v \in Int
  PROVE  /\ atomic_inc(v) \in Int /\ atomic_dec(v) \in Int
         /\ refcount_inc(v) \in Int
         /\ AfterDecNotOne(v) \in Int /\ AfterDecAndTest(v) \in Int
BY DEF atomic_inc, atomic_dec, refcount_inc, AfterDecNotOne, AfterDecAndTest,
       INT_MAX, INT_MIN, REFCOUNT_SATURATED

\* Freeing exchanges keeps their fields typed.
LEMMA FreeTypes ==
  ASSUME TypeOK, NEW X, NEW count \in [ExIds -> Int], Free(X, count)
  PROVE  /\ live' \in [ExIds -> BOOLEAN]
         /\ refCount' \in [ExIds -> Int]
         /\ mes' \in [ExIds -> Contents \cup {NoMes}]
         /\ ready' \in [ExIds -> BOOLEAN]
         /\ readerQueue' \in [ExIds -> SUBSET Threads]
BY DEF TypeOK, Free

\* AWAKE_ALL and REMOVE stay within the levels.
LEMMA NextLevel ==
  ASSUME NEW l \in Levels, l + 1 < levelDeep
  PROVE  l + 1 \in Levels
BY ConstantsAssumption DEF Levels

\* Every step keeps every variable in its type.
LEMMA TypeStep ==
  ASSUME IInv, NEW t \in Threads, Call(t) \/ Signal(t) \/ Step(t)
  PROVE  TypeOK'
<1> USE DEF IInv, TypeOK, vars, exVars, levelVars, roomVars, PCs, ReceivePCs, WritePCs,
            FreePCs, RemovePCs, Goto
<1>0. 0 \in Levels
  BY ConstantsAssumption DEF Levels
<1>1. ASSUME NEW o \in Ops, NEW l \in 0 .. levelDeep, NEW b \in Contents \cup {NoMes}, NEW first \in PCs,
             Find(t, o, l, b, first), searchLock' \in {searchLock, t}
      PROVE  TypeOK'
  <2>1. \A valid \in BOOLEAN : Admitted(valid, l) => l \in Levels
    BY ConstantsAssumption DEF Admitted, Levels
  <2>2. pc' \in [Threads -> PCs] /\ op' \in [Threads -> Ops]
    BY <1>1 DEF Find
  <2>3. lev' \in [Threads -> Levels]
    BY <1>0, <1>1, <2>1 DEF Find
  <2>4. buf' \in [Threads -> Contents \cup {ERESTART, NoMes}]
    BY <1>1 DEF Find
  <2>5. roomRef' \in Int /\ searchLock' \in Threads \cup {NoThread}
    BY <1>1, CounterTypes DEF Find
  <2>6. UNCHANGED <<exVars, levelVars, trees, cur, sig, waiters>>
    BY <1>1 DEF Find
  <2> QED
    BY <2>2, <2>3, <2>4, <2>5, <2>6
<1>2. CASE Call(t)
  <2>1. CASE \E l \in 0 .. levelDeep : FindToReceive(t, l)
    BY <2>1, <1>1 DEF FindToReceive, Ops
  <2>2. CASE \E l \in 0 .. levelDeep, m \in Msgs : FindToSend(t, l, m)
    BY <2>2, <1>1 DEF FindToSend, Ops, Contents
  <2>3. CASE FindToAwake(t)
    BY <2>3, <1>1, ConstantsAssumption DEF FindToAwake, Ops, Contents
  <2>4. CASE FindToRemove(t)
    BY <2>4, <1>1, ConstantsAssumption DEF FindToRemove, Ops
  <2>5. CASE FindNothing(t)
    BY <2>5 DEF FindNothing
  <2> QED
    BY <1>2, <2>1, <2>2, <2>3, <2>4, <2>5 DEF Call
<1>3. CASE Signal(t)
  BY <1>3 DEF Signal
<1>4. CASE Receive(t)
  <2>1. CASE freeMem_Lock(t)
    BY <2>1, CounterTypes DEF freeMem_Lock
  <2>2. CASE LoadExange(t)
    BY <2>2 DEF LoadExange
  <2>3. CASE CountReader(t)
    BY <2>3, CounterTypes DEF CountReader
  <2>4. CASE freeMem_unLock(t)
    BY <2>4, CounterTypes DEF freeMem_unLock
  <2>5. CASE TestCondition(t)
    BY <2>5 DEF TestCondition
  <2>6. CASE PrepareToWait(t)
    BY <2>6 DEF PrepareToWait
  <2>7. CASE RecheckCondition(t)
    BY <2>7 DEF RecheckCondition
  <2>8. CASE RecheckWithSignal(t)
    BY <2>8 DEF RecheckWithSignal
  <2>9. CASE WakeUp(t)
    BY <2>9 DEF WakeUp
  <2>10. CASE TakeMessage(t)
    BY <2>10 DEF TakeMessage, LiveInv, DerefPCs, HoldPCs
  <2>11. CASE CopyFaults(t)
    BY <2>11 DEF CopyFaults
  <2>12. CASE CopyRetried(t)
    BY <2>12 DEF CopyRetried, LiveInv, DerefPCs, HoldPCs
  <2> QED
    BY <1>4, <2>1, <2>2, <2>3, <2>4, <2>5, <2>6, <2>7, <2>8, <2>9, <2>10, <2>11, <2>12 DEF Receive
<1>5. CASE Write(t)
  <2>1. CASE SwapExange(t)
    BY <2>1 DEF SwapExange
  <2>2. CASE CountWriter(t)
    BY <2>2, CounterTypes DEF CountWriter
  <2>3. CASE FillExange(t)
    BY <2>3 DEF FillExange, WriterInv
  <2>4. CASE SetReady(t)
    BY <2>4 DEF SetReady
  <2>5. CASE WakeUpReaders(t)
    BY <2>5 DEF WakeUpReaders
  <2> QED
    BY <1>5, <2>1, <2>2, <2>3, <2>4, <2>5 DEF Write
<1>6. ASSUME Released(t)
      PROVE  /\ pc' \in [Threads -> PCs] /\ lev' \in [Threads -> Levels]
             /\ cur' \in [Threads -> ExIds \cup {NoEx}]
             /\ UNCHANGED <<levelVars, roomVars, op, buf, sig, waiters>>
  <2>1. pc' \in [Threads -> PCs] /\ cur' \in [Threads -> ExIds \cup {NoEx}]
    BY <1>6 DEF Released
  <2>3. lev[t] + 1 < levelDeep => lev[t] + 1 \in Levels
    BY NextLevel
  <2>4. lev' \in [Threads -> Levels]
    BY <1>6, <2>3 DEF Released
  <2>5. UNCHANGED <<levelVars, roomVars, op, buf, sig, waiters>>
    BY <1>6 DEF Released
  <2> QED
    BY <2>1, <2>4, <2>5
<1>7. CASE TryFree(t)
  <2>1. CASE FreeEmpty(t)
    BY <2>1, <1>6, FreeTypes DEF FreeEmpty
  <2>2. CASE DecNotOne(t)
    BY <2>2, <1>6, CounterTypes DEF DecNotOne, Decrease
  <2>3. CASE waitUntil_unlock(t)
    BY <2>3 DEF waitUntil_unlock
  <2>4. CASE DecAndTest(t)
    <3>1. Released(t) /\ refCount \in [ExIds -> Int]
      BY <2>4 DEF DecAndTest
    <3>2. CASE Free({cur[t]}, refCount)
      BY <3>1, <3>2, <1>6, FreeTypes
    <3>3. CASE Decrease(t, AfterDecAndTest(refCount[cur[t]]))
      BY <3>1, <3>3, <1>6, CounterTypes DEF Decrease
    <3> QED
      BY <2>4, <3>2, <3>3 DEF DecAndTest
  <2> QED
    BY <1>7, <2>1, <2>2, <2>3, <2>4 DEF TryFree
<1>8. CASE Remove(t)
  <2>1. CASE LoadForWaiters(t)
    BY <2>1 DEF LoadForWaiters
  <2>2. CASE ReadWaiters(t)
    <3>1. PICK w \in Int : waiters' = [waiters EXCEPT ![t] = @ + w]
      <4>1. refCount[cur[t]] \in Int
        BY <2>2 DEF ReadWaiters, LiveInv
      <4>2. (IF live[cur[t]] THEN {refCount[cur[t]]} ELSE {0, 1}) \subseteq Int
        BY <4>1
      <4>3. \E w \in IF live[cur[t]] THEN {refCount[cur[t]]} ELSE {0, 1} :
               waiters' = [waiters EXCEPT ![t] = @ + w]
        BY <2>2 DEF ReadWaiters
      <4> QED
        BY <4>2, <4>3
    <3>2. lev' \in [Threads -> Levels]
      <4>1. lev[t] + 1 < levelDeep => lev[t] + 1 \in Levels
        BY NextLevel
      <4> QED
        BY <2>2, <4>1 DEF ReadWaiters
    <3> QED
      BY <2>2, <3>1, <3>2 DEF ReadWaiters
  <2>3. CASE RefuseRemove(t)
    BY <2>3 DEF RefuseRemove
  <2>4. CASE UnlinkRoom(t)
    BY <2>4, CounterTypes DEF UnlinkRoom, DropTreeRefs
  <2> QED
    BY <1>8, <2>1, <2>2, <2>3, <2>4 DEF Remove
<1>9. CASE Leave(t)
  <2>1. CASE FreeRoomExanges
    <3> DEFINE count == [x \in ExIds |-> IF x \in Current THEN AfterDecNotOne(refCount[x])
                                        ELSE refCount[x]]
    <3>1. count \in [ExIds -> Int]
      BY CounterTypes
    <3>2. \E X : Free(X, count)
      BY <2>1 DEF FreeRoomExanges
    <3> QED
      BY <1>0, <1>9, <3>1, <3>2, FreeTypes, CounterTypes DEF Leave, Contents, Ops
  <2>2. CASE UNCHANGED exVars
    BY <1>0, <1>9, <2>2, CounterTypes DEF Leave, Contents, Ops
  <2> QED
    BY <1>9, <2>1, <2>2 DEF Leave
<1> QED
  BY <1>2, <1>3, <1>4, <1>5, <1>7, <1>8, <1>9 DEF Step

-----------------------------------------------------------------------------
(* What a step of one thread leaves alone *)

\* Every step is taken by one thread, whose locals alone it changes.
LEMMA OthersStay ==
  ASSUME IInv, NEW t \in Threads, Call(t) \/ Signal(t) \/ Step(t),
         NEW u \in Threads, u # t
  PROVE  /\ pc'[u] = pc[u] /\ op'[u] = op[u] /\ lev'[u] = lev[u]
         /\ cur'[u] = cur[u] /\ buf'[u] = buf[u]
<1> USE DEF IInv, TypeOK, vars, Goto
<1>1. CASE Call(t)
  BY <1>1 DEF Call, FindToReceive, FindToSend, FindToAwake, FindToRemove, FindNothing, Find, Admitted
<1>2. CASE Signal(t)
  BY <1>2 DEF Signal
<1>3. CASE Receive(t)
  BY <1>3 DEF Receive, freeMem_Lock, LoadExange, CountReader, freeMem_unLock, TestCondition,
     PrepareToWait, RecheckCondition, RecheckWithSignal, WakeUp, TakeMessage, CopyFaults,
     CopyRetried
<1>4. CASE Write(t)
  BY <1>4 DEF Write, SwapExange, CountWriter, FillExange, SetReady, WakeUpReaders
<1>5. CASE TryFree(t)
  BY <1>5 DEF TryFree, FreeEmpty, DecNotOne, waitUntil_unlock, DecAndTest, Released
<1>6. CASE Remove(t)
  BY <1>6 DEF Remove, LoadForWaiters, ReadWaiters, RefuseRemove, UnlinkRoom
<1>7. CASE Leave(t)
  BY <1>7 DEF Leave
<1> QED
  BY <1>1, <1>2, <1>3, <1>4, <1>5, <1>6, <1>7 DEF Step

-----------------------------------------------------------------------------
(* The free lock of a level counts the readers between their load of the   *)
(* exchange and their increment.                                           *)

LockPCs == {"load_ex", "atomic_inc", "freeMem_unLock"}

\* A step that enters or leaves no reader's critical section keeps LockInv.
LEMMA LockFrame ==
  ASSUME IInv, NEW t \in Threads, Call(t) \/ Signal(t) \/ Step(t),
         freeLockCnt' = freeLockCnt,
         pc[t] \in LockPCs <=> pc'[t] \in LockPCs,
         pc[t] \in LockPCs => lev'[t] = lev[t]
  PROVE  LockInv'
<1>1. \A l \in Levels : InLock(l)' = InLock(l)
  BY OthersStay DEF InLock, LockPCs
<1> QED
  BY <1>1 DEF IInv, LockInv

\* freeLockCnt stays exact.
LEMMA LockStep ==
  ASSUME IInv, NEW t \in Threads, Call(t) \/ Signal(t) \/ Step(t)
  PROVE  LockInv'
<1> USE DEF IInv, TypeOK, vars, Goto
<1>0. \A l \in Levels : InLock(l) \subseteq Threads
  BY DEF InLock
<1>1. CASE Call(t)
  <2>1. freeLockCnt' = freeLockCnt
    BY <1>1 DEF Call, FindToReceive, FindToSend, FindToAwake, FindToRemove,
       FindNothing, Find, Admitted, levelVars
  <2>2. pc[t] \notin LockPCs /\ pc'[t] \notin LockPCs
    BY <1>1 DEF Call, FindToReceive, FindToSend, FindToAwake, FindToRemove,
       FindNothing, Find, Admitted, LockPCs
  <2> QED
    BY <2>1, <2>2, LockFrame
<1>2. CASE Signal(t)
  BY <1>2, LockFrame DEF Signal, LockPCs, levelVars
<1>3. CASE freeMem_Lock(t)
  <2>1. InLock(lev[t])' = InLock(lev[t]) \cup {t} /\ t \notin InLock(lev[t])
    BY <1>3, OthersStay DEF freeMem_Lock, InLock, Step, Receive
  <2>2. \A l \in Levels : l # lev[t] => InLock(l)' = InLock(l)
    BY <1>3, OthersStay DEF freeMem_Lock, InLock, Step, Receive
  <2>3. atomic_inc(freeLockCnt[lev[t]]) = freeLockCnt[lev[t]] + 1
    BY <1>0, ThreadSet DEF LockInv, atomic_inc, INT_MAX, MaxThreads
  <2> QED
    <3>1. /\ freeLockCnt' = [freeLockCnt EXCEPT ![lev[t]] = freeLockCnt[lev[t]] + 1]
          /\ lev' = lev
      BY <1>3, <2>3 DEF freeMem_Lock
    <3>2. Cardinality(InLock(lev[t])') = Cardinality(InLock(lev[t])) + 1
      BY <1>0, <2>1, ThreadJoins
    <3>3. \A l \in Levels : l # lev[t] => freeLockCnt'[l] = freeLockCnt[l]
      BY <3>1
    <3>4. freeLockCnt'[lev[t]] = Cardinality(InLock(lev[t])')
      BY <3>1, <3>2 DEF LockInv
    <3> QED
      BY <2>2, <3>1, <3>3, <3>4 DEF LockInv
<1>4. CASE freeMem_unLock(t)
  <2>1. InLock(lev[t])' = InLock(lev[t]) \ {t} /\ t \in InLock(lev[t])
    BY <1>4, OthersStay DEF freeMem_unLock, InLock, Step, Receive
  <2>2. \A l \in Levels : l # lev[t] => InLock(l)' = InLock(l)
    BY <1>4, OthersStay DEF freeMem_unLock, InLock, Step, Receive
  <2>3. atomic_dec(freeLockCnt[lev[t]]) = freeLockCnt[lev[t]] - 1
    BY <1>0, ThreadSet DEF LockInv, atomic_dec, INT_MAX, INT_MIN, MaxThreads
  <2> QED
    <3>1. /\ freeLockCnt' = [freeLockCnt EXCEPT ![lev[t]] = freeLockCnt[lev[t]] - 1]
          /\ lev' = lev
      BY <1>4, <2>3 DEF freeMem_unLock
    <3>2. Cardinality(InLock(lev[t])') = Cardinality(InLock(lev[t])) - 1
      BY <1>0, <2>1, ThreadLeaves
    <3>3. \A l \in Levels : l # lev[t] => freeLockCnt'[l] = freeLockCnt[l]
      BY <3>1
    <3>4. freeLockCnt'[lev[t]] = Cardinality(InLock(lev[t])')
      BY <3>1, <3>2 DEF LockInv
    <3> QED
      BY <2>2, <3>1, <3>3, <3>4 DEF LockInv
<1>5. CASE Receive(t) /\ ~freeMem_Lock(t) /\ ~freeMem_unLock(t)
  BY <1>5, LockFrame DEF Receive, LoadExange, CountReader, TestCondition, PrepareToWait,
     RecheckCondition, RecheckWithSignal, WakeUp, TakeMessage, CopyFaults, CopyRetried, LockPCs,
     levelVars
<1>6. CASE Write(t)
  BY <1>6, LockFrame DEF Write, SwapExange, CountWriter, FillExange, SetReady,
     WakeUpReaders, LockPCs, levelVars
<1>7. CASE TryFree(t)
  BY <1>7, LockFrame DEF TryFree, FreeEmpty, DecNotOne, waitUntil_unlock, DecAndTest,
     Released, LockPCs, levelVars
<1>8. CASE Remove(t)
  BY <1>8, LockFrame DEF Remove, LoadForWaiters, ReadWaiters, RefuseRemove, UnlinkRoom,
     LockPCs, levelVars
<1>9. CASE Leave(t)
  BY <1>9, LockFrame DEF Leave, LockPCs, levelVars
<1> QED
  BY <1>1, <1>2, <1>3, <1>4, <1>5, <1>6, <1>7, <1>8, <1>9 DEF Step

-----------------------------------------------------------------------------
(* The room and the trees that index it *)

\* A step that leaves the trees alone, and takes the lock from nobody else,
\* disturbs no REMOVE.
LEMMA TreesFrame ==
  ASSUME IInv, NEW t \in Threads, Call(t) \/ Signal(t) \/ Step(t),
         trees' = trees,
         searchLock' = searchLock \/ searchLock \in {t, NoThread},
         pc'[t] \in RemovePCs => searchLock' = t /\ "tag" \in trees
  PROVE  TreesInv'
<1>1. NoThread \notin Threads
  BY ConstantsAssumption
<1>2. \A u \in Threads \ {t} : pc'[u] = pc[u]
  BY OthersStay
<1> QED
  BY <1>1, <1>2 DEF IInv, TreesInv

\* The trees keep their invariant.
LEMMA TreesStep ==
  ASSUME IInv, NEW t \in Threads, Call(t) \/ Signal(t) \/ Step(t)
  PROVE  TreesInv'
<1> USE DEF IInv, TypeOK, vars, roomVars, Goto
<1>1. CASE Call(t)
  <2>1. trees' = trees /\ (searchLock' = searchLock \/ searchLock = NoThread)
    BY <1>1 DEF Call, FindToReceive, FindToSend, FindToAwake, FindToRemove,
       FindNothing, Find, Admitted
  <2>2. pc'[t] \in RemovePCs => searchLock' = t /\ "tag" \in trees
    BY <1>1 DEF Call, FindToReceive, FindToSend, FindToAwake, FindToRemove,
       FindNothing, Find, Admitted, RemovePCs
  <2> QED
    BY <2>1, <2>2, TreesFrame
<1>2. CASE Signal(t)
  <2>1. trees' = trees /\ searchLock' = searchLock /\ pc' = pc
    BY <1>2 DEF Signal
  <2> QED
    BY <2>1, TreesFrame DEF TreesInv
<1>3. CASE Receive(t)
  <2>1. trees' = trees /\ searchLock' = searchLock /\ pc'[t] \notin RemovePCs
    BY <1>3 DEF Receive, freeMem_Lock, LoadExange, CountReader, freeMem_unLock, RemovePCs,
       TestCondition, PrepareToWait, RecheckCondition, RecheckWithSignal, WakeUp, TakeMessage,
       CopyFaults, CopyRetried
  <2> QED
    BY <2>1, TreesFrame
<1>4. CASE Write(t)
  <2>1. trees' = trees /\ searchLock' = searchLock /\ pc'[t] \notin RemovePCs
    BY <1>4 DEF Write, SwapExange, CountWriter, FillExange, SetReady, WakeUpReaders, RemovePCs
  <2> QED
    BY <2>1, TreesFrame
<1>5. CASE TryFree(t)
  <2>1. trees' = trees /\ searchLock' = searchLock /\ pc'[t] \notin RemovePCs
    BY <1>5 DEF TryFree, FreeEmpty, DecNotOne, waitUntil_unlock, DecAndTest, Released, RemovePCs
  <2> QED
    BY <2>1, TreesFrame
<1>6. CASE LoadForWaiters(t) \/ ReadWaiters(t) \/ RefuseRemove(t)
  <2>1. trees' = trees /\ searchLock' = searchLock /\ pc[t] \in RemovePCs
    BY <1>6 DEF LoadForWaiters, ReadWaiters, RefuseRemove, RemovePCs
  <2> QED
    BY <2>1, TreesFrame DEF TreesInv
<1>7. CASE UnlinkRoom(t)
  <2>1. trees' = {} /\ pc[t] \in RemovePCs /\ pc'[t] \notin RemovePCs
    BY <1>7 DEF UnlinkRoom, RemovePCs
  <2>2. \A u \in Threads : pc'[u] \notin RemovePCs
    BY <2>1, OthersStay DEF TreesInv
  <2> QED
    BY <2>1, <2>2 DEF TreesInv
<1>8. CASE Leave(t)
  <2>1. trees' = trees /\ (searchLock' = searchLock \/ searchLock = t)
        /\ pc'[t] \notin RemovePCs
    BY <1>8 DEF Leave, RemovePCs
  <2> QED
    BY <2>1, TreesFrame
<1> QED
  BY <1>1, <1>2, <1>3, <1>4, <1>5, <1>6, <1>7, <1>8 DEF Step, Remove

\* How many trees can point to a room.
LEMMA TreesCardinality ==
  /\ Cardinality({}) = 0
  /\ Cardinality({"tag"}) = 1
  /\ Cardinality({"tag", "key"}) = 2
<1>1. Cardinality({}) = 0
  BY FS_EmptySet
<1>2. Cardinality({"tag"}) = 1
  BY FS_Singleton
<1>3. "tag" # "key" /\ {"tag", "key"} = {"tag"} \cup {"key"} /\ IsFiniteSet({"tag"})
  BY FS_Singleton
<1>4. Cardinality({"tag", "key"}) = 2
  BY <1>2, <1>3, FS_AddElement
<1> QED
  BY <1>1, <1>2, <1>4

\* A room that has a tag is pointed to by a tree.
LEMMA TreesRange ==
  ASSUME IInv
  PROVE  /\ Cardinality(trees) \in 0 .. 2
         /\ "tag" \in trees => Cardinality(trees) > 0
<1>1. CASE trees = {}
  BY <1>1, TreesCardinality
<1>2. CASE trees = {"tag"}
  BY <1>2, TreesCardinality
<1>3. CASE trees = {"tag", "key"}
  BY <1>3, TreesCardinality
<1> QED
  BY <1>1, <1>2, <1>3 DEF IInv, TreesInv

\* A step that starts or ends no call and keeps the room's references keeps
\* their count exact.
LEMMA RoomRefFrame ==
  ASSUME IInv, NEW t \in Threads, Call(t) \/ Signal(t) \/ Step(t),
         UNCHANGED <<trees, roomRef>>, pc[t] = "idle" <=> pc'[t] = "idle"
  PROVE  RoomRefExact'
<1>1. InCall' = InCall
  BY OthersStay DEF InCall
<1> QED
  BY <1>1 DEF IInv, RoomRefExact

\* The count of the room stays exact.
LEMMA RoomRefStep ==
  ASSUME IInv, NEW t \in Threads, Call(t) \/ Signal(t) \/ Step(t)
  PROVE  RoomRefExact'
<1> USE DEF IInv, TypeOK, vars, Goto
<1>0. /\ InCall \subseteq Threads /\ Cardinality(InCall) \in Nat
      /\ Cardinality(InCall) < MaxThreads
  BY ThreadSet DEF InCall
<1>1. /\ Cardinality(trees) \in 0 .. 2
      /\ "tag" \in trees => Cardinality(trees) > 0
      /\ roomRef = Cardinality(trees) + Cardinality(InCall)
  BY TreesRange DEF RoomRefExact
<1>2. ASSUME NEW o, NEW l, NEW b, NEW first \in PCs \ {"idle"}, Find(t, o, l, b, first)
      PROVE  RoomRefExact'
  <2>1. InCall' = InCall \cup {t} /\ t \notin InCall
    BY <1>2, OthersStay DEF Find, Admitted, InCall
  <2>2. roomRef > 0
    BY <1>0, <1>1, <1>2 DEF Find, Admitted
  <2>3. refcount_inc(roomRef) = roomRef + 1
    BY <1>0, <1>1, <2>2 DEF refcount_inc, INT_MAX, MaxThreads
  <2> QED
    BY <1>0, <1>1, <1>2, <2>1, <2>3, ThreadJoins DEF Find, Admitted, RoomRefExact
<1>3. CASE Call(t)
  BY <1>2, <1>3, RoomRefFrame DEF Call, FindToReceive, FindToSend, FindToAwake,
     FindToRemove, FindNothing, PCs, ReceivePCs, WritePCs, RemovePCs, roomVars
<1>4. CASE Signal(t)
  BY <1>4, RoomRefFrame DEF Signal, roomVars
<1>5. CASE Receive(t)
  BY <1>5, RoomRefFrame DEF Receive, freeMem_Lock, LoadExange, CountReader,
     freeMem_unLock, TestCondition, PrepareToWait, RecheckCondition, RecheckWithSignal,
     WakeUp, TakeMessage, CopyFaults, CopyRetried, roomVars
<1>6. CASE Write(t)
  BY <1>6, RoomRefFrame DEF Write, SwapExange, CountWriter, FillExange, SetReady,
     WakeUpReaders, roomVars
<1>7. CASE TryFree(t)
  BY <1>7, RoomRefFrame DEF TryFree, FreeEmpty, DecNotOne, waitUntil_unlock, DecAndTest,
     Released, roomVars
<1>8. CASE Remove(t)
  <2>1. CASE UnlinkRoom(t)
    <3>1. InCall' = InCall /\ t \in InCall
      BY <2>1, <1>8, OthersStay DEF UnlinkRoom, InCall, Step
    <3>2. trees \in {{"tag"}, {"tag", "key"}}
      BY <2>1 DEF UnlinkRoom, TreesInv, RemovePCs
    <3>3. roomRef' = roomRef - Cardinality(trees)
      <4>1. CASE trees = {"tag"}
        BY <2>1, <4>1, <1>0, <1>1, TreesCardinality DEF UnlinkRoom, DropTreeRefs, AfterDecAndTest
      <4>2. CASE trees = {"tag", "key"}
        BY <2>1, <4>2, <1>0, <1>1, TreesCardinality DEF UnlinkRoom, DropTreeRefs, AfterDecAndTest
      <4> QED
        BY <3>2, <4>1, <4>2
    <3> QED
      BY <2>1, <3>1, <3>3, <1>0, <1>1, TreesCardinality DEF UnlinkRoom, DropTreeRefs, RoomRefExact
  <2> QED
    BY <1>8, <2>1, RoomRefFrame DEF Remove, LoadForWaiters, ReadWaiters, RefuseRemove,
       roomVars
<1>9. CASE Leave(t)
  <2>1. InCall' = InCall \ {t} /\ t \in InCall
    BY <1>9, OthersStay DEF Leave, InCall, Step
  <2>2. roomRef > 0
    BY <1>0, <1>1, <2>1, NoThreadLeft
  <2>3. AfterDecAndTest(roomRef) = roomRef - 1
    BY <1>0, <1>1, <2>2 DEF AfterDecAndTest
  <2> QED
    BY <1>0, <1>1, <1>9, <2>1, <2>3, ThreadLeaves DEF Leave, RoomRefExact
<1> QED
  BY <1>3, <1>4, <1>5, <1>6, <1>7, <1>8, <1>9 DEF Step

\* A room with a call inside has not been freed.
LEMMA RoomAlive ==
  ASSUME IInv, NEW t \in Threads, pc[t] # "idle"
  PROVE  roomRef > 0 /\ \A l \in Levels : live[ex[l]]
<1>1. InCall \subseteq Threads /\ Cardinality(InCall) \in Nat /\ t \in InCall
  BY ThreadSet DEF InCall
<1>2. Cardinality(InCall) # 0
  BY <1>1, NoThreadLeft
<1>3. roomRef > 0
  BY <1>1, <1>2, TreesRange DEF IInv, RoomRefExact
<1> QED
  BY <1>3 DEF IInv, LiveInv

\* The call that takes the count of the room to zero is the last one.
LEMMA LastOut ==
  ASSUME IInv, NEW t \in Threads, pc[t] # "idle", refcount_dec_and_test(roomRef)
  PROVE  InCall = {t}
<1>1. InCall \subseteq Threads /\ Cardinality(InCall) \in Nat /\ t \in InCall
  BY ThreadSet DEF InCall
<1>2. Cardinality(InCall) # 0
  BY <1>1, NoThreadLeft
<1>3. Cardinality(InCall) = 1
  BY <1>1, <1>2, TreesRange DEF IInv, RoomRefExact, refcount_dec_and_test
<1> QED
  BY <1>1, <1>3, NoThreadLeft

-----------------------------------------------------------------------------
(* The count of an exchange *)

\* What an exact or saturated count can be.
LEMMA CountRange ==
  ASSUME IInv, NEW x \in ExIds
  PROVE  /\ Holders(x) \subseteq Threads /\ Cardinality(Holders(x)) \in Nat
         /\ refCount[x] \in Int /\ refCount[x] < MaxThreads
         /\ Saturated(x) => refCount[x] < 0
         /\ refCount[x] >= 0 => Counted(x)
         /\ \A t \in Holders(x) : refCount[x] # 0
<1>1. /\ Holders(x) \subseteq Threads /\ Cardinality(Holders(x)) \in Nat
      /\ Cardinality(Holders(x)) < MaxThreads
  BY ThreadSet DEF Holders
<1>2. refCount[x] \in Int /\ (Counted(x) \/ Saturated(x))
  BY DEF IInv, TypeOK, CountInv
<1>3. Saturated(x) => refCount[x] < 0
  BY <1>1, <1>2 DEF Saturated, REFCOUNT_SATURATED, MaxThreads
<1>4. refCount[x] < MaxThreads
  BY <1>1, <1>2, <1>3 DEF Counted, MaxThreads
<1>5. \A t \in Holders(x) : Cardinality(Holders(x)) # 0
  BY <1>1, NoThreadLeft
<1> QED
  BY <1>1, <1>2, <1>3, <1>4, <1>5 DEF Counted

\* A step that changes no count, and by which t neither takes nor drops a
\* reference, keeps CountInv.
LEMMA CountFrame ==
  ASSUME IInv, NEW t \in Threads, Call(t) \/ Signal(t) \/ Step(t),
         refCount' = refCount,
         pc[t] \in HoldPCs <=> pc'[t] \in HoldPCs,
         pc[t] \in HoldPCs => cur'[t] = cur[t],
         pc'[t] \in {"free_wait", "free_test"} =>
            pc[t] = "free_wait" \/ refCount[cur[t]] = 1
  PROVE  CountInv'
<1>1. SUFFICES ASSUME NEW x \in ExIds
               PROVE  Counted(x)' \/ Saturated(x)'
  BY DEF CountInv
<1>2. Holders(x)' = Holders(x)
  BY OthersStay DEF Holders
<1>3. CASE Counted(x)
  BY <1>2, <1>3 DEF Counted
<1>4. CASE Saturated(x)
  <2>1. ASSUME NEW u \in Holders(x)
        PROVE  pc'[u] \notin {"free_wait", "free_test"}
    <3>1. CASE u # t
      BY <1>4, <2>1, <3>1, OthersStay DEF Saturated, Holders
    <3>2. CASE u = t
      <4>1. refCount[x] \in Int /\ refCount[x] < 0
        BY <1>4, CountRange
      <4>2. cur[t] = x /\ pc[t] # "free_wait"
        BY <1>4, <2>1, <3>2 DEF Saturated, Holders
      <4> QED
        BY <3>2, <4>1, <4>2
    <3> QED
      BY <3>1, <3>2
  <2> QED
    BY <1>2, <1>4, <2>1 DEF Saturated
<1> QED
  BY <1>3, <1>4 DEF IInv, CountInv


\* A step by which t takes a reference to x0 keeps CountInv if it adds one to
\* the count, or saturates a count that was zero.
LEMMA CountTaken ==
  ASSUME IInv, NEW t \in Threads, Call(t) \/ Signal(t) \/ Step(t),
         NEW x0 \in ExIds, cur[t] = x0, cur'[t] = x0,
         pc[t] \notin HoldPCs, pc'[t] \in HoldPCs \ {"free_wait", "free_test"},
         NEW v, refCount' = [refCount EXCEPT ![x0] = v],
         \/ v = refCount[x0] + 1
         \/ RefcountKind = "saturates" /\ v = REFCOUNT_SATURATED
            /\ refCount[x0] <= 0
  PROVE  CountInv'
<1>1. SUFFICES ASSUME NEW x \in ExIds
               PROVE  Counted(x)' \/ Saturated(x)'
  BY DEF CountInv
<1>2. CASE x # x0
  <2>1. Holders(x)' = Holders(x) /\ t \notin Holders(x) /\ refCount'[x] = refCount[x]
    BY <1>2, OthersStay DEF Holders, IInv, TypeOK
  <2>2. \A u \in Holders(x) : pc'[u] = pc[u]
    BY <2>1, OthersStay DEF Holders
  <2> QED
    BY <2>1, <2>2 DEF IInv, CountInv, Counted, Saturated
<1>3. CASE x = x0
  <2>1. Holders(x)' = Holders(x) \cup {t} /\ t \notin Holders(x) /\ refCount'[x] = v
    BY <1>3, OthersStay DEF Holders, IInv, TypeOK
  <2>2. Cardinality(Holders(x))' = Cardinality(Holders(x)) + 1
    BY <2>1, CountRange, ThreadJoins
  <2>3. \A u \in Holders(x) : pc'[u] = pc[u]
    BY <2>1, OthersStay DEF Holders
  <2>4. CASE v = refCount[x0] + 1 /\ Counted(x)
    BY <1>3, <2>1, <2>2, <2>4 DEF Counted
  <2>5. CASE v = refCount[x0] + 1 /\ Saturated(x)
    <3>1. refCount[x] \in Int /\ Cardinality(Holders(x)) \in Nat /\ REFCOUNT_SATURATED \in Int
      BY CountRange DEF REFCOUNT_SATURATED
    <3>2. \A u \in Holders(x)' : pc'[u] \notin {"free_wait", "free_test"}
      BY <2>1, <2>3, <2>5 DEF Saturated
    <3> QED
      BY <1>3, <2>1, <2>2, <2>5, <3>1, <3>2 DEF Saturated
  <2>6. CASE RefcountKind = "saturates" /\ v = REFCOUNT_SATURATED /\ refCount[x0] <= 0
    <3>1. refCount[x] \in Int /\ Cardinality(Holders(x)) \in Nat /\ REFCOUNT_SATURATED \in Int
      BY CountRange DEF REFCOUNT_SATURATED
    <3>2. \A u \in Holders(x) : pc[u] \notin {"free_wait", "free_test"}
      <4>1. CASE Counted(x)
        <5>1. Holders(x) = {}
          BY <1>3, <2>6, <3>1, <4>1, CountRange, NoThreadLeft DEF Counted
        <5> QED
          BY <5>1
      <4>2. CASE Saturated(x)
        BY <4>2 DEF Saturated
      <4> QED
        BY <4>1, <4>2 DEF IInv, CountInv
    <3>3. \A u \in Holders(x)' : pc'[u] \notin {"free_wait", "free_test"}
      BY <2>1, <2>3, <3>2
    <3> QED
      BY <1>3, <2>1, <2>2, <2>6, <3>1, <3>3 DEF Saturated
  <2> QED
    BY <2>4, <2>5, <2>6 DEF IInv, CountInv
<1> QED
  BY <1>2, <1>3

\* A step by which t drops its reference to x0 keeps CountInv if it takes one
\* from an exact count, or from a saturated one above the floor.
LEMMA CountDropped ==
  ASSUME IInv, NEW t \in Threads, Call(t) \/ Signal(t) \/ Step(t),
         NEW x0 \in ExIds, cur[t] = x0, pc[t] \in HoldPCs, pc'[t] \notin HoldPCs,
         \A x \in ExIds : x # x0 => refCount'[x] = refCount[x],
         Counted(x0) => refCount'[x0] = refCount[x0] - 1,
         ~Counted(x0) =>
            refCount'[x0] = IF refCount[x0] = REFCOUNT_SATURATED THEN refCount[x0]
                            ELSE refCount[x0] - 1
  PROVE  CountInv'
<1>1. SUFFICES ASSUME NEW x \in ExIds
               PROVE  Counted(x)' \/ Saturated(x)'
  BY DEF CountInv
<1>2. CASE x # x0
  <2>1. Holders(x)' = Holders(x) /\ t \notin Holders(x) /\ refCount'[x] = refCount[x]
    BY <1>2, OthersStay DEF Holders
  <2>2. \A u \in Holders(x) : pc'[u] = pc[u]
    BY <2>1, OthersStay DEF Holders
  <2> QED
    BY <2>1, <2>2 DEF IInv, CountInv, Counted, Saturated
<1>3. CASE x = x0
  <2>1. Holders(x)' = Holders(x) \ {t} /\ t \in Holders(x)
    BY <1>3, OthersStay DEF Holders
  <2>2. Cardinality(Holders(x))' = Cardinality(Holders(x)) - 1
    BY <2>1, CountRange, ThreadLeaves
  <2>3. \A u \in Holders(x)' : pc'[u] = pc[u]
    BY <2>1, OthersStay DEF Holders
  <2>4. CASE Counted(x)
    BY <1>3, <2>2, <2>4 DEF Counted
  <2>5. CASE ~Counted(x) /\ Saturated(x)
    <3>1. /\ refCount[x] \in Int /\ Cardinality(Holders(x)) \in Nat
          /\ Cardinality(Holders(x)) # 0 /\ REFCOUNT_SATURATED \in Int
      BY <2>1, CountRange, NoThreadLeft DEF REFCOUNT_SATURATED
    <3>2. \A u \in Holders(x)' : pc'[u] \notin {"free_wait", "free_test"}
      BY <2>1, <2>3, <2>5 DEF Saturated
    <3> QED
      BY <1>3, <2>2, <2>5, <3>1, <3>2 DEF Saturated
  <2> QED
    BY <2>4, <2>5 DEF IInv, CountInv
<1> QED
  BY <1>2, <1>3


\* The counts of the exchanges stay exact, or saturated.
LEMMA CountStep ==
  ASSUME IInv, NEW t \in Threads, Call(t) \/ Signal(t) \/ Step(t)
  PROVE  CountInv'
<1> USE DEF IInv, TypeOK, HoldPCs, FreePCs, Goto
<1>0. /\ pc[t] \in DerefPCs => cur[t] \in ExIds
      /\ pc[t] \in HoldPCs => t \in Holders(cur[t])
  BY DEF LiveInv, Holders
<1>1. CASE Call(t)
  <2>1. /\ refCount' = refCount /\ pc[t] \notin HoldPCs
        /\ pc'[t] \in {"idle", "leave", "freeMem_Lock", "swap", "waiters_load"}
    BY <1>1 DEF Call, FindToReceive, FindToSend, FindToAwake, FindToRemove, FindNothing,
       Find, Admitted, vars, exVars
  <2> QED
    BY <2>1, CountFrame
<1>2. CASE Signal(t)
  BY <1>2, CountFrame DEF Signal, exVars
<1>3. CASE Receive(t)
  <2>1. CASE CountReader(t)
    <3>1. atomic_inc(refCount[cur[t]]) = refCount[cur[t]] + 1
      <4>1. cur[t] \in ExIds
        BY <2>1, <1>0 DEF CountReader, DerefPCs
      <4> QED
        BY <4>1, CountRange DEF atomic_inc, INT_MAX, MaxThreads
    <3> QED
      BY <2>1, <3>1, <1>0, CountTaken DEF CountReader, DerefPCs, Step, Receive
  <2> QED
    BY <1>3, <2>1, CountFrame DEF Receive, freeMem_Lock, LoadExange, freeMem_unLock,
       TestCondition, PrepareToWait, RecheckCondition, RecheckWithSignal, WakeUp,
       TakeMessage, CopyFaults, CopyRetried, exVars
<1>4. CASE Write(t)
  <2>1. CASE CountWriter(t)
    <3>1. cur[t] \in ExIds
      BY <2>1, <1>0 DEF CountWriter, DerefPCs
    <3>2. \/ refcount_inc(refCount[cur[t]]) = refCount[cur[t]] + 1
          \/ RefcountKind = "saturates" /\ refCount[cur[t]] <= 0
             /\ refcount_inc(refCount[cur[t]]) = REFCOUNT_SATURATED
      <4>1. CASE refCount[cur[t]] < 0
        <5>1. ~Counted(cur[t])
          BY <3>1, <4>1, CountRange DEF Counted
        <5>2. RefcountKind = "saturates"
          BY <3>1, <5>1 DEF CountInv, Saturated
        <5> QED
          BY <3>1, <4>1, <5>2 DEF refcount_inc
      <4>2. CASE ~(refCount[cur[t]] < 0)
        BY <3>1, <4>2, CountRange DEF refcount_inc, INT_MAX, MaxThreads
      <4> QED
        BY <4>1, <4>2
    <3> QED
      BY <2>1, <3>1, <3>2, CountTaken DEF CountWriter, Step, Write
  <2> QED
    BY <1>4, <2>1, CountFrame DEF Write, SwapExange, FillExange, SetReady, WakeUpReaders
<1>5. CASE TryFree(t)
  <2>0. /\ cur[t] \in ExIds /\ t \in Holders(cur[t]) /\ pc[t] \in HoldPCs
        /\ refCount[cur[t]] # 0
    <3>1. pc[t] \in FreePCs
      BY <1>5 DEF TryFree, FreeEmpty, DecNotOne, waitUntil_unlock, DecAndTest
    <3> QED
      BY <3>1, <1>0, CountRange DEF DerefPCs
  <2>1. CASE FreeEmpty(t)
    BY <2>0, <2>1, CountFrame DEF FreeEmpty, exVars
  <2>2. CASE DecNotOne(t)
    <3>1. CASE refCount[cur[t]] = 1
      BY <2>0, <2>2, <3>1, CountFrame DEF DecNotOne, Decrease, AfterDecNotOne,
         refcount_dec_not_one
    <3>2. CASE refCount[cur[t]] # 1
      <4>1. /\ pc'[t] \notin HoldPCs
            /\ refCount' = [refCount EXCEPT ![cur[t]] = AfterDecNotOne(@)]
        BY <2>2, <3>2 DEF DecNotOne, Decrease, Released, refcount_dec_not_one
      <4>2. Counted(cur[t]) => refCount[cur[t]] > 1
        BY <2>0, <3>2, CountRange DEF Counted
      <4>3. ~Counted(cur[t]) => refCount[cur[t]] < 0 /\ refCount[cur[t]] >= REFCOUNT_SATURATED
        BY <2>0, CountRange DEF CountInv, Saturated
      <4>4. refCount[cur[t]] > 1 => AfterDecNotOne(refCount[cur[t]]) = refCount[cur[t]] - 1
        BY <2>0, CountRange DEF AfterDecNotOne, atomic_dec, INT_MIN, INT_MAX,
           REFCOUNT_SATURATED
      <4>5. refCount[cur[t]] < 0 /\ refCount[cur[t]] >= REFCOUNT_SATURATED =>
               AfterDecNotOne(refCount[cur[t]]) =
                 IF refCount[cur[t]] = REFCOUNT_SATURATED THEN refCount[cur[t]]
                 ELSE refCount[cur[t]] - 1
        BY <2>0, CountRange DEF AfterDecNotOne, atomic_dec, INT_MIN, INT_MAX,
           REFCOUNT_SATURATED
      <4> QED
        BY <2>0, <4>1, <4>2, <4>3, <4>4, <4>5, CountDropped
    <3> QED
      BY <3>1, <3>2
  <2>3. CASE waitUntil_unlock(t)
    BY <2>3, CountFrame DEF waitUntil_unlock, exVars
  <2>4. CASE DecAndTest(t)
    <3>1. Counted(cur[t]) /\ refCount[cur[t]] > 0
      BY <2>0, <2>4, CountRange DEF DecAndTest, CountInv, Saturated, Counted
    <3>2. AfterDecAndTest(refCount[cur[t]]) = refCount[cur[t]] - 1
      BY <2>0, <3>1 DEF AfterDecAndTest
    <3>3. /\ refCount'[cur[t]] = refCount[cur[t]] - 1
          /\ \A x \in ExIds : x # cur[t] => refCount'[x] = refCount[x]
      BY <2>0, <2>4, <3>2 DEF DecAndTest, Decrease, Free, refcount_dec_and_test
    <3>4. pc'[t] \notin HoldPCs
      BY <2>4 DEF DecAndTest, Released
    <3> QED
      BY <2>0, <3>1, <3>3, <3>4, CountDropped
  <2> QED
    BY <1>5, <2>1, <2>2, <2>3, <2>4 DEF TryFree
<1>6. CASE Remove(t)
  <2>1. refCount' = refCount
    BY <1>6 DEF Remove, LoadForWaiters, ReadWaiters, RefuseRemove, UnlinkRoom, exVars
  <2>2. pc[t] \notin HoldPCs /\ pc'[t] \notin HoldPCs
    BY <1>6 DEF Remove, LoadForWaiters, ReadWaiters, RefuseRemove, UnlinkRoom, HoldPCs, FreePCs
  <2> QED
    BY <2>1, <2>2, CountFrame DEF HoldPCs, FreePCs
<1>7. CASE Leave(t)
  <2>1. CASE UNCHANGED exVars
    BY <1>7, <2>1, CountFrame DEF Leave, exVars
  <2>2. CASE refcount_dec_and_test(roomRef) /\ FreeRoomExanges
    <3>1. InCall = {t}
      BY <1>7, <2>2, LastOut DEF Leave
    <3>2. \A x \in ExIds : Holders(x) = {} /\ Holders(x)' = {}
      BY <1>7, <3>1, OthersStay DEF Leave, Holders, InCall
    <3>3. ASSUME NEW x \in ExIds
          PROVE  refCount[x] \in {0, REFCOUNT_SATURATED}
      <4>1. Holders(x) = {} /\ Cardinality({}) = 0
        BY <3>2, TreesCardinality
      <4>2. REFCOUNT_SATURATED \in Int
        BY DEF REFCOUNT_SATURATED
      <4>3. refCount[x] \in Int
        OBVIOUS
      <4>4. CASE Counted(x)
        BY <4>1, <4>4 DEF Counted
      <4>5. CASE Saturated(x)
        BY <4>1, <4>2, <4>3, <4>5 DEF Saturated
      <4> QED
        BY <4>4, <4>5 DEF CountInv
    <3>4. /\ AfterDecNotOne(0) = 0 /\ REFCOUNT_SATURATED # 1
          /\ AfterDecNotOne(REFCOUNT_SATURATED) = REFCOUNT_SATURATED
      BY DEF AfterDecNotOne, REFCOUNT_SATURATED
    <3>5. \A x \in ExIds : refCount'[x] = refCount[x]
      <4>1. ASSUME NEW x \in ExIds
            PROVE  \/ refCount'[x] = 0 /\ refCount[x] \in {0, 1}
                   \/ refCount'[x] = AfterDecNotOne(refCount[x])
                   \/ refCount'[x] = refCount[x]
        BY <2>2 DEF FreeRoomExanges, Free
      <4> QED
        BY <3>3, <3>4, <4>1
    <3> QED
      BY <3>2, <3>5 DEF CountInv, Counted, Saturated
  <2> QED
    BY <1>7, <2>1, <2>2 DEF Leave
<1> QED
  BY <1>1, <1>2, <1>3, <1>4, <1>5, <1>6, <1>7 DEF Step

-----------------------------------------------------------------------------
(* What is freed *)

\* The thread that takes the count of an exchange to zero, and may free it,
\* is the only one that has its address, and the room no longer has it.
LEMMA LastHolder ==
  ASSUME IInv, NEW t \in Threads, pc[t] = "free_test", execFree(t),
         refcount_dec_and_test(refCount[cur[t]])
  PROVE  /\ cur[t] \in ExIds \ Current
         /\ \A u \in Threads : pc[u] \in DerefPCs /\ cur[u] = cur[t] => u = t
<1>1. pc[t] \in FreePCs /\ pc[t] \in HoldPCs /\ pc[t] \in DerefPCs
  BY DEF FreePCs, HoldPCs, DerefPCs
<1>2. cur[t] \in ExIds /\ ready[cur[t]] /\ cur[t] \notin Current
  BY <1>1 DEF IInv, LiveInv, FreeInv
<1>3. Holders(cur[t]) = {t}
  <2>1. Counted(cur[t]) /\ refCount[cur[t]] = 1
    BY <1>2, CountRange DEF refcount_dec_and_test
  <2>2. t \in Holders(cur[t]) /\ Holders(cur[t]) \subseteq Threads
    BY <1>1 DEF Holders
  <2> QED
    BY <2>1, <2>2, NoThreadLeft DEF Counted
<1>4. ASSUME NEW u \in Threads, pc[u] \in DerefPCs, cur[u] = cur[t]
      PROVE  u = t
  <2>1. pc[u] # "refcount_inc"
    BY <1>2, <1>4 DEF IInv, WriterInv, FillPCs
  <2>2. pc[u] # "atomic_inc"
    BY <1>4 DEF IInv, FreeInv
  <2>3. u \in Holders(cur[t])
    BY <1>4, <2>1, <2>2 DEF DerefPCs, Holders
  <2> QED
    BY <1>3, <2>3
<1> QED
  BY <1>2, <1>4

\* FreeEmpty never finds a count of zero: the caller holds the exchange.
LEMMA NeverEmpty ==
  ASSUME IInv, NEW t \in Threads, pc[t] = "free_read"
  PROVE  refCount[cur[t]] # 0
<1>1. cur[t] \in ExIds /\ t \in Holders(cur[t])
  BY DEF IInv, LiveInv, DerefPCs, HoldPCs, FreePCs, Holders
<1> QED
  BY <1>1, CountRange

\* What each step does to the memory of exchanges and to the room's pointers.
LEMMA MemoryStep ==
  ASSUME IInv, NEW t \in Threads, Call(t) \/ Signal(t) \/ Step(t)
  PROVE  \/ UNCHANGED <<live, ex>> /\ (ready' = ready \/ SetReady(t))
         \/ SwapExange(t)
         \/ /\ DecAndTest(t) /\ execFree(t) /\ Free({cur[t]}, refCount)
            /\ refcount_dec_and_test(refCount[cur[t]]) /\ UNCHANGED ex
         \/ /\ Leave(t) /\ FreeRoomExanges /\ refcount_dec_and_test(roomRef)
            /\ UNCHANGED ex
<1> USE DEF vars, exVars, levelVars, Goto
<1>1. CASE Call(t)
  BY <1>1 DEF Call, FindToReceive, FindToSend, FindToAwake, FindToRemove, FindNothing, Find, Admitted
<1>2. CASE Signal(t)
  BY <1>2 DEF Signal
<1>3. CASE Receive(t)
  BY <1>3 DEF Receive, freeMem_Lock, LoadExange, CountReader, freeMem_unLock, TestCondition,
     PrepareToWait, RecheckCondition, RecheckWithSignal, WakeUp, TakeMessage, CopyFaults,
     CopyRetried
<1>4. CASE Write(t)
  BY <1>4 DEF Write, CountWriter, FillExange, SetReady, WakeUpReaders
<1>5. CASE TryFree(t)
  BY <1>5, NeverEmpty DEF TryFree, FreeEmpty, DecNotOne, waitUntil_unlock, DecAndTest,
     Decrease, Released
<1>6. CASE Remove(t)
  BY <1>6 DEF Remove, LoadForWaiters, ReadWaiters, RefuseRemove, UnlinkRoom
<1>7. CASE Leave(t)
  BY <1>7 DEF Leave
<1> QED
  BY <1>1, <1>2, <1>3, <1>4, <1>5, <1>6, <1>7 DEF Step


\* A thread gets an exchange from its level of the room, and keeps that one.
LEMMA PointerStep ==
  ASSUME IInv, NEW t \in Threads, Call(t) \/ Signal(t) \/ Step(t)
  PROVE  /\ pc'[t] \in DerefPCs =>
              /\ lev'[t] = lev[t]
              /\ \/ pc[t] \in DerefPCs /\ cur'[t] = cur[t]
                 \/ LoadExange(t) /\ cur'[t] = ex[lev[t]]
                 \/ SwapExange(t) /\ cur'[t] = ex[lev[t]]
         /\ pc'[t] = "waiters_read" =>
              \/ pc[t] = "waiters_read" /\ cur'[t] = cur[t]
              \/ LoadForWaiters(t) /\ cur'[t] = ex[lev[t]]
<1> USE DEF vars, Goto, DerefPCs, HoldPCs, FreePCs, IInv, TypeOK
<1>1. CASE Call(t)
  BY <1>1 DEF Call, FindToReceive, FindToSend, FindToAwake, FindToRemove, FindNothing, Find, Admitted
<1>2. CASE Signal(t)
  BY <1>2 DEF Signal
<1>3. CASE Receive(t)
  BY <1>3 DEF Receive, freeMem_Lock, LoadExange, CountReader, freeMem_unLock, TestCondition,
     PrepareToWait, RecheckCondition, RecheckWithSignal, WakeUp, TakeMessage, CopyFaults,
     CopyRetried
<1>4. CASE Write(t)
  BY <1>4 DEF Write, SwapExange, CountWriter, FillExange, SetReady, WakeUpReaders
<1>5. CASE TryFree(t)
  BY <1>5 DEF TryFree, FreeEmpty, DecNotOne, waitUntil_unlock, DecAndTest, Released
<1>6. CASE Remove(t)
  BY <1>6 DEF Remove, LoadForWaiters, ReadWaiters, RefuseRemove, UnlinkRoom
<1>7. CASE Leave(t)
  BY <1>7 DEF Leave
<1> QED
  BY <1>1, <1>2, <1>3, <1>4, <1>5, <1>6, <1>7 DEF Step

\* The room's references only change hands as RoomRefExact says, so a room
\* that is still referenced was referenced before.
LEMMA RoomStaysDead ==
  ASSUME IInv, NEW t \in Threads, Call(t) \/ Signal(t) \/ Step(t), roomRef' > 0
  PROVE  roomRef > 0 /\ ~(Leave(t) /\ refcount_dec_and_test(roomRef))
<1>1. CASE pc[t] = "idle"
  <2>1. \/ UNCHANGED roomRef
        \/ "tag" \in trees
    BY <1>1 DEF Call, FindToReceive, FindToSend, FindToAwake, FindToRemove, FindNothing,
       Find, Admitted, Signal, Step, Receive, freeMem_Lock, LoadExange, CountReader, freeMem_unLock,
       TestCondition, PrepareToWait, RecheckCondition, RecheckWithSignal, WakeUp,
       TakeMessage, CopyFaults, CopyRetried, Write, SwapExange, CountWriter, FillExange, SetReady,
       WakeUpReaders,
       TryFree, FreeEmpty, DecNotOne, waitUntil_unlock, DecAndTest, Remove,
       LoadForWaiters, ReadWaiters, RefuseRemove, UnlinkRoom, Leave, Goto, vars, roomVars
  <2>2. "tag" \in trees => roomRef > 0
    <3>1. Cardinality(InCall) \in Nat
      BY ThreadSet DEF InCall
    <3> QED
      BY <3>1, TreesRange DEF IInv, RoomRefExact
  <2> QED
    BY <1>1, <2>1, <2>2 DEF Leave, Goto
<1>2. CASE pc[t] # "idle"
  <2>1. AfterDecAndTest(1) = 0
    BY DEF AfterDecAndTest
  <2> QED
    BY <1>2, <2>1, RoomAlive DEF Leave, refcount_dec_and_test
<1> QED
  BY <1>1, <1>2

-----------------------------------------------------------------------------
(* Every pointer that is followed leads to live memory. *)

\* No step breaks LiveInv.
LEMMA LiveStep ==
  ASSUME IInv, NEW t \in Threads, Call(t) \/ Signal(t) \/ Step(t)
  PROVE  LiveInv'
<1> USE DEF IInv, TypeOK
<1>1. \A u \in Threads :
         /\ pc'[u] \in DerefPCs => cur'[u] \in ExIds /\ live[cur'[u]]
         /\ pc'[u] = "waiters_read" => cur'[u] \in ExIds
  <2>1. ASSUME NEW u \in Threads, u # t
        PROVE  /\ pc'[u] \in DerefPCs => cur'[u] \in ExIds /\ live[cur'[u]]
               /\ pc'[u] = "waiters_read" => cur'[u] \in ExIds
    BY <2>1, OthersStay DEF LiveInv
  <2>2. LoadExange(t) \/ SwapExange(t) \/ LoadForWaiters(t) =>
           ex[lev[t]] \in ExIds /\ live[ex[lev[t]]]
    BY RoomAlive DEF LoadExange, SwapExange, LoadForWaiters, Goto
  <2>3. /\ pc'[t] \in DerefPCs => cur'[t] \in ExIds /\ live[cur'[t]]
        /\ pc'[t] = "waiters_read" => cur'[t] \in ExIds
    BY <2>2, PointerStep DEF LiveInv
  <2> QED
    BY <2>1, <2>3
<1>2. CASE UNCHANGED <<live, ex>> /\ (ready' = ready \/ SetReady(t))
  <2>1. roomRef' > 0 => \A l \in Levels : live'[ex'[l]]
    BY <1>2, RoomStaysDead DEF LiveInv
  <2>2. \A x \in ExIds : ready'[x] => live'[x] /\ x \notin Current'
    BY <1>2 DEF SetReady, Goto, LiveInv, WriterInv, FillPCs, Current, DerefPCs, HoldPCs
  <2> QED
    BY <1>1, <1>2, <2>1, <2>2 DEF LiveInv
<1>3. CASE SwapExange(t)
  <2>1. PICK new \in ExIds :
           /\ ~live[new] /\ live' = [live EXCEPT ![new] = TRUE]
           /\ ex' = [ex EXCEPT ![lev[t]] = new]
    BY <1>3 DEF SwapExange
  <2>2. roomRef' > 0 => \A l \in Levels : live'[ex'[l]]
    BY <2>1, RoomStaysDead DEF LiveInv
  <2>3. \A x \in ExIds : ready'[x] => live'[x] /\ x \notin Current'
    BY <1>3, <2>1 DEF SwapExange, LiveInv, Current
  <2> QED
    BY <1>1, <2>1, <2>2, <2>3 DEF LiveInv
<1>4. CASE /\ DecAndTest(t) /\ execFree(t) /\ Free({cur[t]}, refCount)
           /\ refcount_dec_and_test(refCount[cur[t]]) /\ UNCHANGED ex
  <2>1. /\ cur[t] \notin Current
        /\ \A u \in Threads : pc[u] \in DerefPCs /\ cur[u] = cur[t] => u = t
    BY <1>4, LastHolder DEF DecAndTest
  <2>2. pc'[t] \notin DerefPCs
    BY <1>4 DEF DecAndTest, Released, DerefPCs, HoldPCs, FreePCs
  <2>3. \A u \in Threads : pc'[u] \in DerefPCs => cur'[u] # cur[t]
    BY <2>1, <2>2, OthersStay
  <2>4. roomRef' > 0 => \A l \in Levels : live'[ex'[l]]
    BY <1>4, <2>1, RoomStaysDead DEF LiveInv, Free, Current
  <2>5. \A x \in ExIds : ready'[x] => live'[x] /\ x \notin Current'
    BY <1>4 DEF LiveInv, Free, Current
  <2> QED
    BY <1>1, <1>4, <2>3, <2>4, <2>5 DEF LiveInv, Free
<1>5. CASE /\ Leave(t) /\ FreeRoomExanges /\ refcount_dec_and_test(roomRef)
           /\ UNCHANGED ex
  <2>1. InCall = {t}
    BY <1>5, LastOut DEF Leave, Goto
  <2>2. \A u \in Threads : pc'[u] = "idle"
    BY <1>5, <2>1, OthersStay DEF InCall, Leave, Goto
  <2>3. ~(roomRef' > 0)
    BY <1>5, RoomStaysDead
  <2>4. \A x \in ExIds : ready'[x] => live'[x] /\ x \notin Current'
    BY <1>5 DEF LiveInv, FreeRoomExanges, Free, Current
  <2> QED
    BY <2>2, <2>3, <2>4 DEF LiveInv, DerefPCs, HoldPCs, FreePCs
<1> QED
  BY <1>2, <1>3, <1>4, <1>5, MemoryStep

-----------------------------------------------------------------------------
(* An exchange belongs to one level. *)

\* No step breaks LevelInv.
LEMMA LevelStep ==
  ASSUME IInv, NEW t \in Threads, Call(t) \/ Signal(t) \/ Step(t)
  PROVE  LevelInv'
<1> USE DEF IInv, TypeOK
<1>1. CASE SwapExange(t)
  <2>1. PICK new \in ExIds :
           /\ ~live[new] /\ \A u \in Threads : cur[u] # new
           /\ ex' = [ex EXCEPT ![lev[t]] = new]
           /\ cur' = [cur EXCEPT ![t] = ex[lev[t]]]
    BY <1>1 DEF SwapExange
  <2>2. \A l \in Levels : ex[l] # new
    BY <1>1, <2>1, RoomAlive DEF SwapExange, Goto
  <2>3. \A k, l \in Levels : ex'[k] = ex'[l] => k = l
    BY <2>1, <2>2 DEF LevelInv
  <2>4. \A u \in Threads : lev'[u] = lev[u] /\ (u # t => pc'[u] = pc[u] /\ cur'[u] = cur[u])
    BY <1>1, <2>1, OthersStay DEF SwapExange
  <2>5. ASSUME NEW u \in Threads, NEW l \in Levels, pc'[u] \in DerefPCs, cur'[u] = ex'[l]
        PROVE  lev'[u] = l
    BY <2>1, <2>2, <2>4, <2>5 DEF LevelInv
  <2>6. ASSUME NEW u \in Threads, NEW w \in Threads, pc'[u] \in DerefPCs,
               pc'[w] \in DerefPCs, cur'[u] = cur'[w]
        PROVE  lev'[u] = lev'[w]
    BY <2>1, <2>4, <2>6 DEF LevelInv
  <2> QED
    BY <2>3, <2>5, <2>6 DEF LevelInv
<1>2. CASE ~SwapExange(t)
  <2>1. ex' = ex
    BY <1>2, MemoryStep
  <2>2. ASSUME NEW u \in Threads, pc'[u] \in DerefPCs
        PROVE  /\ lev'[u] = lev[u]
               /\ \/ pc[u] \in DerefPCs /\ cur'[u] = cur[u]
                  \/ cur'[u] = ex[lev[u]]
    BY <1>2, <2>2, OthersStay, PointerStep
  <2>3. \A u \in Threads, l \in Levels : pc'[u] \in DerefPCs /\ cur'[u] = ex'[l] => lev'[u] = l
    BY <2>1, <2>2 DEF LevelInv
  <2>4. ASSUME NEW u \in Threads, NEW w \in Threads, pc'[u] \in DerefPCs,
               pc'[w] \in DerefPCs, cur'[u] = cur'[w]
        PROVE  lev'[u] = lev'[w]
    BY <2>2, <2>4 DEF LevelInv
  <2> QED
    BY <2>1, <2>3, <2>4 DEF LevelInv
<1> QED
  BY <1>1, <1>2

-----------------------------------------------------------------------------
(* One writer for each exchange taken out of the room *)

\* What a step does to the content a thread carries.
LEMMA BufferStep ==
  ASSUME IInv, NEW t \in Threads, Call(t) \/ Signal(t) \/ Step(t)
  PROVE  /\ pc'[t] \in WritePCs => buf'[t] \in Contents
         /\ op'[t] = "awake" => buf'[t] \in Contents \/ pc'[t] = "leave"
         /\ pc'[t] \in ReceivePCs => op'[t] = "receive"
<1> USE DEF vars, Goto, WritePCs, ReceivePCs, IInv, TypeOK, WriterInv
<1>1. CASE Call(t)
  <2>1. ASSUME NEW o \in Ops, NEW l, NEW b \in Contents \cup {NoMes}, NEW first \in PCs,
               Find(t, o, l, b, first),
               first \in WritePCs \/ o = "awake" => b \in Contents,
               first \in ReceivePCs => o = "receive"
        PROVE  /\ pc'[t] \in WritePCs => buf'[t] \in Contents
               /\ op'[t] = "awake" => buf'[t] \in Contents \/ pc'[t] = "leave"
               /\ pc'[t] \in ReceivePCs => op'[t] = "receive"
    BY <2>1 DEF Find, Admitted
  <2>2. CASE FindNothing(t)
    BY <2>2 DEF FindNothing
  <2>3. CASE ~FindNothing(t)
    BY <1>1, <2>1, <2>3 DEF Call, FindToReceive, FindToSend, FindToAwake, FindToRemove,
       Contents, Ops, PCs, RemovePCs
  <2> QED
    BY <2>2, <2>3
<1>2. CASE Signal(t)
  BY <1>2 DEF Signal
<1>3. CASE Receive(t)
  BY <1>3 DEF Receive, freeMem_Lock, LoadExange, CountReader, freeMem_unLock,
     TestCondition, PrepareToWait, RecheckCondition, RecheckWithSignal, WakeUp, TakeMessage,
     CopyFaults, CopyRetried
<1>4. CASE Write(t)
  BY <1>4 DEF Write, SwapExange, CountWriter, FillExange, SetReady, WakeUpReaders
<1>5. CASE TryFree(t)
  BY <1>5 DEF TryFree, FreeEmpty, DecNotOne, waitUntil_unlock, DecAndTest, Released
<1>6. CASE Remove(t)
  BY <1>6 DEF Remove, LoadForWaiters, ReadWaiters, RefuseRemove, UnlinkRoom
<1>7. CASE Leave(t)
  BY <1>7 DEF Leave
<1> QED
  BY <1>1, <1>2, <1>3, <1>4, <1>5, <1>6, <1>7 DEF Step


\* How a thread gets to, and stays in, the steps that fill an exchange.
LEMMA FillStep ==
  ASSUME IInv, NEW t \in Threads, Call(t) \/ Signal(t) \/ Step(t), pc'[t] \in FillPCs
  PROVE  SwapExange(t) \/ (pc[t] \in FillPCs /\ cur'[t] = cur[t] /\ UNCHANGED ready)
<1> USE DEF vars, exVars, Goto, FillPCs, IInv, TypeOK
<1>1. CASE Call(t)
  BY <1>1 DEF Call, FindToReceive, FindToSend, FindToAwake, FindToRemove, FindNothing, Find, Admitted
<1>2. CASE Signal(t)
  BY <1>2 DEF Signal
<1>3. CASE Receive(t)
  BY <1>3 DEF Receive, freeMem_Lock, LoadExange, CountReader, freeMem_unLock, TestCondition,
     PrepareToWait, RecheckCondition, RecheckWithSignal, WakeUp, TakeMessage, CopyFaults,
     CopyRetried
<1>4. CASE Write(t)
  BY <1>4 DEF Write, SwapExange, CountWriter, FillExange, SetReady, WakeUpReaders
<1>5. CASE TryFree(t)
  BY <1>5 DEF TryFree, FreeEmpty, DecNotOne, waitUntil_unlock, DecAndTest, Released
<1>6. CASE Remove(t)
  BY <1>6 DEF Remove, LoadForWaiters, ReadWaiters, RefuseRemove, UnlinkRoom
<1>7. CASE Leave(t)
  BY <1>7 DEF Leave
<1> QED
  BY <1>1, <1>2, <1>3, <1>4, <1>5, <1>6, <1>7 DEF Step

\* No step breaks WriterInv.
LEMMA WriterStep ==
  ASSUME IInv, NEW t \in Threads, Call(t) \/ Signal(t) \/ Step(t)
  PROVE  WriterInv'
<1> USE DEF IInv, TypeOK
<1>1. \A u \in Threads :
         /\ pc'[u] \in WritePCs => buf'[u] \in Contents
         /\ op'[u] = "awake" => buf'[u] \in Contents \/ pc'[u] = "leave"
         /\ pc'[u] \in ReceivePCs => op'[u] = "receive"
  BY OthersStay, BufferStep DEF WriterInv
<1>2. \A u \in Threads : pc[u] \in FillPCs => pc[u] \in DerefPCs
  BY DEF FillPCs, DerefPCs, HoldPCs
<1>3. CASE SwapExange(t)
  <2>1. PICK new \in ExIds :
           /\ ~live[new] /\ \A u \in Threads : cur[u] # new
           /\ ex' = [ex EXCEPT ![lev[t]] = new]
           /\ cur' = [cur EXCEPT ![t] = ex[lev[t]]] /\ ready' = ready
    BY <1>3 DEF SwapExange
  <2>2. \A l \in Levels : ex[l] # new
    BY <1>3, <2>1, RoomAlive DEF SwapExange, Goto
  <2>3. ex[lev[t]] \notin Current' /\ ~ready[ex[lev[t]]]
    BY <2>1, <2>2 DEF Current, LevelInv, LiveInv
  <2>4. \A x \in Current' : x \in Current \/ x = new
    BY <2>1 DEF Current
  <2>5. ASSUME NEW u \in Threads, pc'[u] \in FillPCs
        PROVE  /\ cur'[u] \notin Current' /\ ~ready'[cur'[u]]
               /\ u # t => pc[u] \in FillPCs /\ cur'[u] \notin Current
    BY <2>1, <2>3, <2>4, <2>5, OthersStay DEF WriterInv
  <2>6. ex[lev[t]] \in Current
    BY DEF Current
  <2>7. ASSUME NEW u \in Threads, NEW w \in Threads, pc'[u] \in FillPCs,
               pc'[w] \in FillPCs, cur'[u] = cur'[w]
        PROVE  u = w
    BY <2>1, <2>5, <2>6, <2>7, OthersStay DEF WriterInv
  <2> QED
    BY <1>1, <2>5, <2>7 DEF WriterInv
<1>4. CASE ~SwapExange(t)
  <2>1. ASSUME NEW u \in Threads, pc'[u] \in FillPCs
        PROVE  pc[u] \in FillPCs /\ cur'[u] = cur[u]
    BY <1>4, <2>1, OthersStay, FillStep
  <2>2. ASSUME NEW u \in Threads, pc'[u] \in FillPCs
        PROVE  cur'[u] \notin Current'
    <3>1. Current' = Current
      BY <1>4, MemoryStep DEF Current
    <3> QED
      BY <2>1, <2>2, <3>1 DEF WriterInv
  <2>3. ASSUME NEW u \in Threads, pc'[u] \in FillPCs
        PROVE  ~ready'[cur'[u]]
    <3>1. CASE SetReady(t)
      <4>1. pc[t] \in FillPCs /\ pc'[t] \notin FillPCs
            /\ ready' = [ready EXCEPT ![cur[t]] = TRUE]
        BY <3>1 DEF SetReady, Goto, FillPCs
      <4>2. u # t /\ cur[u] # cur[t]
        BY <2>1, <2>3, <4>1 DEF WriterInv
      <4> QED
        BY <2>1, <2>3, <4>1, <4>2, <1>2 DEF WriterInv, LiveInv
    <3>2. CASE ~SetReady(t)
      <4>1. \A x \in ExIds : ready'[x] => ready[x]
        BY <1>4, <3>2, MemoryStep DEF Free, FreeRoomExanges
      <4> QED
        BY <2>1, <2>3, <4>1, <1>2 DEF WriterInv, LiveInv
    <3> QED
      BY <3>1, <3>2
  <2>4. ASSUME NEW u \in Threads, NEW w \in Threads, pc'[u] \in FillPCs,
               pc'[w] \in FillPCs, cur'[u] = cur'[w]
        PROVE  u = w
    BY <2>1, <2>4 DEF WriterInv
  <2> QED
    BY <1>1, <2>2, <2>3, <2>4 DEF WriterInv
<1> QED
  BY <1>3, <1>4

-----------------------------------------------------------------------------
(* Only published exchanges are freed. *)

\* How a thread gets to the steps FreeInv speaks of.
LEMMA PublishedStep ==
  ASSUME IInv, NEW t \in Threads, Call(t) \/ Signal(t) \/ Step(t)
  PROVE  /\ pc'[t] \in {"woken", "copy", "wake_up_all"} =>
              /\ pc[t] \in DerefPCs /\ cur'[t] = cur[t]
              /\ ready'[cur[t]]
         /\ pc'[t] \in FreePCs /\ execFree(t)' =>
              /\ pc[t] \in DerefPCs /\ cur'[t] = cur[t]
              /\ ready'[cur[t]]
         /\ pc'[t] = "free_test" =>
              pc[t] = "free_wait" /\ freeLockCnt[lev[t]] = 0 /\ cur'[t] = cur[t]
              /\ UNCHANGED buf
         /\ pc'[t] = "atomic_inc" => LoadExange(t)
<1> USE DEF vars, exVars, Goto, FreePCs, DerefPCs, HoldPCs, execFree, IInv, TypeOK, LiveInv,
            FreeInv
<1>1. CASE Call(t)
  BY <1>1 DEF Call, FindToReceive, FindToSend, FindToAwake, FindToRemove, FindNothing, Find, Admitted
<1>2. CASE Signal(t)
  BY <1>2 DEF Signal
<1>3. CASE Receive(t)
  BY <1>3 DEF Receive, freeMem_Lock, LoadExange, CountReader, freeMem_unLock, TestCondition,
     PrepareToWait, RecheckCondition, RecheckWithSignal, WakeUp, TakeMessage, CopyFaults,
     CopyRetried
<1>4. CASE Write(t)
  BY <1>4 DEF Write, SwapExange, CountWriter, FillExange, SetReady, WakeUpReaders
<1>5. CASE TryFree(t)
  BY <1>5, NeverEmpty DEF TryFree, FreeEmpty, DecNotOne, waitUntil_unlock, DecAndTest, Released,
     Decrease
<1>6. CASE Remove(t)
  BY <1>6 DEF Remove, LoadForWaiters, ReadWaiters, RefuseRemove, UnlinkRoom
<1>7. CASE Leave(t)
  BY <1>7 DEF Leave
<1> QED
  BY <1>1, <1>2, <1>3, <1>4, <1>5, <1>6, <1>7 DEF Step


\* What is published stays so while a thread has its address.
LEMMA ReadyStays ==
  ASSUME IInv, NEW t \in Threads, Call(t) \/ Signal(t) \/ Step(t),
         NEW u \in Threads, u # t, pc[u] \in DerefPCs, ready[cur[u]]
  PROVE  ready'[cur[u]]
<1> USE DEF IInv, TypeOK, LiveInv
<1>1. CASE ready' = ready \/ SetReady(t)
  BY <1>1 DEF SetReady
<1>2. CASE SwapExange(t)
  BY <1>2 DEF SwapExange
<1>3. CASE DecAndTest(t) /\ execFree(t) /\ Free({cur[t]}, refCount)
           /\ refcount_dec_and_test(refCount[cur[t]])
  <2>1. cur[u] # cur[t]
    BY <1>3, LastHolder DEF DecAndTest
  <2> QED
    BY <1>3, <2>1 DEF Free
<1>4. CASE Leave(t) /\ refcount_dec_and_test(roomRef)
  <2>1. u \in InCall
    BY DEF InCall, DerefPCs, HoldPCs, FreePCs
  <2> QED
    BY <1>4, <2>1, LastOut DEF Leave, Goto
<1> QED
  BY <1>1, <1>2, <1>3, <1>4, MemoryStep

\* No step breaks FreeInv.
LEMMA FreeStep ==
  ASSUME IInv, NEW t \in Threads, Call(t) \/ Signal(t) \/ Step(t)
  PROVE  FreeInv'
<1> USE DEF IInv, TypeOK
<1>1. ASSUME NEW u \in Threads
      PROVE  /\ pc'[u] \in {"woken", "copy", "wake_up_all"} => ready'[cur'[u]]
             /\ pc'[u] \in FreePCs /\ execFree(u)' => ready'[cur'[u]]
  <2>1. CASE u = t
    BY <2>1, PublishedStep
  <2>2. CASE u # t
    <3>1. /\ pc'[u] = pc[u] /\ cur'[u] = cur[u]
          /\ execFree(u)' <=> execFree(u)
      BY <2>2, OthersStay DEF execFree
    <3>2. pc[u] \in {"woken", "copy", "wake_up_all"} \cup FreePCs => pc[u] \in DerefPCs
      BY DEF DerefPCs, HoldPCs
    <3> QED
      BY <2>2, <3>1, <3>2, ReadyStays DEF FreeInv
  <2> QED
    BY <2>1, <2>2
<1>2. ASSUME NEW v \in Threads, NEW u \in Threads, pc'[v] = "free_test", execFree(v)',
             pc'[u] = "atomic_inc"
      PROVE  cur'[v] # cur'[u]
  <2>1. v # u
    BY <1>2
  <2>2. CASE v = t
    <3>1. pc[v] = "free_wait" /\ freeLockCnt[lev[v]] = 0 /\ cur'[v] = cur[v] /\ execFree(v)
      BY <1>2, <2>2, PublishedStep DEF execFree
    <3>2. pc[u] = "atomic_inc" /\ cur'[u] = cur[u]
      BY <1>2, <2>1, <2>2, OthersStay
    <3>3. InLock(lev[v]) = {} /\ u \in InLock(lev[u])
      <4>1. InLock(lev[v]) \subseteq Threads /\ Cardinality(InLock(lev[v])) = 0
        BY <3>1 DEF LockInv, InLock
      <4> QED
        BY <3>2, <4>1, NoThreadLeft DEF InLock
    <3> QED
      BY <3>1, <3>2, <3>3 DEF LevelInv, DerefPCs, HoldPCs, FreePCs
  <2>3. CASE u = t
    <3>1. LoadExange(t) /\ cur'[u] = ex[lev[t]]
      BY <1>2, <2>3, PublishedStep DEF LoadExange
    <3>2. pc[v] = "free_test" /\ cur'[v] = cur[v] /\ execFree(v)
      BY <1>2, <2>1, <2>3, OthersStay DEF execFree
    <3>3. cur[v] \in ExIds /\ cur[v] \notin Current
      BY <3>2 DEF FreeInv, LiveInv, FreePCs, DerefPCs, HoldPCs
    <3> QED
      BY <3>1, <3>2, <3>3 DEF Current
  <2>4. CASE v # t /\ u # t
    BY <1>2, <2>4, OthersStay DEF FreeInv, execFree
  <2> QED
    BY <2>2, <2>3, <2>4
<1> QED
  BY <1>1, <1>2 DEF FreeInv

-----------------------------------------------------------------------------
(* Which call a thread is in, and what it has in hand *)

\* What a step does to the call and the content of the thread that takes it.
LEMMA PlaceStep ==
  ASSUME IInv, NEW t \in Threads, Call(t) \/ Signal(t) \/ Step(t)
  PROVE  /\ pc'[t] = "idle" => op'[t] = "none"
         /\ pc'[t] \in ReceivePCs => buf'[t] = NoMes
         /\ pc'[t] \in WritePCs => op'[t] \in {"send", "awake"}
         /\ pc'[t] \in RemovePCs => op'[t] = "remove"
         /\ pc'[t] \in FreePCs /\ op'[t] = "receive" => buf'[t] # NoMes
<1> USE DEF vars, Goto, ReceivePCs, WritePCs, RemovePCs, FreePCs, IInv, TypeOK, CallInv
<1>1. CASE Call(t)
  <2>1. ASSUME NEW o \in Ops, NEW l, NEW b, NEW first \in PCs, Find(t, o, l, b, first),
               first \in ReceivePCs => b = NoMes,
               first \in WritePCs => o \in {"send", "awake"},
               first \in RemovePCs => o = "remove",
               first \notin FreePCs, first # "idle"
        PROVE  /\ pc'[t] = "idle" => op'[t] = "none"
               /\ pc'[t] \in ReceivePCs => buf'[t] = NoMes
               /\ pc'[t] \in WritePCs => op'[t] \in {"send", "awake"}
               /\ pc'[t] \in RemovePCs => op'[t] = "remove"
               /\ pc'[t] \in FreePCs /\ op'[t] = "receive" => buf'[t] # NoMes
    BY <2>1 DEF Find, Admitted
  <2>2. CASE FindNothing(t)
    BY <2>2 DEF FindNothing
  <2>3. CASE ~FindNothing(t)
    BY <1>1, <2>1, <2>3 DEF Call, FindToReceive, FindToSend, FindToAwake, FindToRemove, Ops, PCs
  <2> QED
    BY <2>2, <2>3
<1>2. CASE Signal(t)
  BY <1>2 DEF Signal
<1>3. CASE Receive(t)
  <2>1. CASE TakeMessage(t) \/ CopyRetried(t)
    <3>1. cur[t] \in ExIds /\ ready[cur[t]]
      BY <2>1 DEF TakeMessage, CopyRetried, LiveInv, FreeInv, DerefPCs, HoldPCs
    <3>2. mes[cur[t]] # NoMes
      BY <3>1, ConstantsAssumption DEF Contents
    <3> QED
      BY <2>1, <3>2 DEF TakeMessage, CopyRetried
  <2>2. CASE ~TakeMessage(t) /\ ~CopyRetried(t)
    BY <1>3, <2>2, ConstantsAssumption DEF Receive, freeMem_Lock, LoadExange, CountReader,
       freeMem_unLock, TestCondition, PrepareToWait, RecheckCondition, RecheckWithSignal, WakeUp,
       CopyFaults
  <2> QED
    BY <2>1, <2>2
<1>4. CASE Write(t)
  BY <1>4 DEF Write, SwapExange, CountWriter, FillExange, SetReady, WakeUpReaders
<1>5. CASE TryFree(t)
  BY <1>5 DEF TryFree, FreeEmpty, DecNotOne, waitUntil_unlock, DecAndTest, Released
<1>6. CASE Remove(t)
  BY <1>6 DEF Remove, LoadForWaiters, ReadWaiters, RefuseRemove, UnlinkRoom
<1>7. CASE Leave(t)
  BY <1>7 DEF Leave
<1> QED
  BY <1>1, <1>2, <1>3, <1>4, <1>5, <1>6, <1>7 DEF Step

\* The content of an exchange is written once more only by being freed, and
\* then nobody reads it.
LEMMA ContentStep ==
  ASSUME IInv, NEW t \in Threads, Call(t) \/ Signal(t) \/ Step(t), NEW x \in ExIds
  PROVE  \/ mes'[x] = mes[x]
         \/ FillExange(t) /\ x = cur[t] /\ mes'[x] = buf[t] /\ buf[t] \in Contents
         \/ ~live'[x] /\ ~ready'[x]
<1> USE DEF vars, exVars, Goto, IInv, TypeOK
<1>1. CASE Call(t)
  BY <1>1 DEF Call, FindToReceive, FindToSend, FindToAwake, FindToRemove, FindNothing, Find, Admitted
<1>2. CASE Signal(t)
  BY <1>2 DEF Signal
<1>3. CASE Receive(t)
  BY <1>3 DEF Receive, freeMem_Lock, LoadExange, CountReader, freeMem_unLock, TestCondition,
     PrepareToWait, RecheckCondition, RecheckWithSignal, WakeUp, TakeMessage, CopyFaults,
     CopyRetried
<1>4. CASE Write(t)
  BY <1>4 DEF Write, SwapExange, CountWriter, FillExange, SetReady, WakeUpReaders,
     WriterInv, WritePCs
<1>5. CASE TryFree(t)
  BY <1>5 DEF TryFree, FreeEmpty, DecNotOne, waitUntil_unlock, DecAndTest, Decrease, Released, Free
<1>6. CASE Remove(t)
  BY <1>6 DEF Remove, LoadForWaiters, ReadWaiters, RefuseRemove, UnlinkRoom
<1>7. CASE Leave(t)
  BY <1>7 DEF Leave, FreeRoomExanges, Free
<1> QED
  BY <1>1, <1>2, <1>3, <1>4, <1>5, <1>6, <1>7 DEF Step

\* How a thread gets to publish, and what becomes published.
LEMMA PublishStep ==
  ASSUME IInv, NEW t \in Threads, Call(t) \/ Signal(t) \/ Step(t)
  PROVE  /\ pc'[t] = "ready" => FillExange(t) \/ (pc[t] = "ready" /\ cur'[t] = cur[t])
         /\ \A x \in ExIds : ready'[x] => ready[x] \/ (pc[t] = "ready" /\ x = cur[t])
<1> USE DEF vars, exVars, Goto, IInv, TypeOK
<1>1. CASE Call(t)
  BY <1>1 DEF Call, FindToReceive, FindToSend, FindToAwake, FindToRemove, FindNothing, Find, Admitted
<1>2. CASE Signal(t)
  BY <1>2 DEF Signal
<1>3. CASE Receive(t)
  BY <1>3 DEF Receive, freeMem_Lock, LoadExange, CountReader, freeMem_unLock, TestCondition,
     PrepareToWait, RecheckCondition, RecheckWithSignal, WakeUp, TakeMessage, CopyFaults,
     CopyRetried
<1>4. CASE Write(t)
  BY <1>4 DEF Write, SwapExange, CountWriter, FillExange, SetReady, WakeUpReaders
<1>5. CASE TryFree(t)
  BY <1>5 DEF TryFree, FreeEmpty, DecNotOne, waitUntil_unlock, DecAndTest, Decrease, Released, Free
<1>6. CASE Remove(t)
  BY <1>6 DEF Remove, LoadForWaiters, ReadWaiters, RefuseRemove, UnlinkRoom
<1>7. CASE Leave(t)
  BY <1>7 DEF Leave, FreeRoomExanges, Free
<1> QED
  BY <1>1, <1>2, <1>3, <1>4, <1>5, <1>6, <1>7 DEF Step

\* No step breaks CallInv.
LEMMA CallStep ==
  ASSUME IInv, NEW t \in Threads, Call(t) \/ Signal(t) \/ Step(t)
  PROVE  CallInv'
<1> USE DEF IInv, TypeOK
<1>1. ASSUME NEW u \in Threads
      PROVE  /\ pc'[u] = "idle" => op'[u] = "none"
             /\ pc'[u] \in ReceivePCs => buf'[u] = NoMes
             /\ pc'[u] \in WritePCs => op'[u] \in {"send", "awake"}
             /\ pc'[u] \in RemovePCs => op'[u] = "remove"
             /\ pc'[u] \in FreePCs /\ op'[u] = "receive" => buf'[u] # NoMes
  <2>1. CASE u = t
    BY <2>1, PlaceStep
  <2>2. CASE u # t
    BY <2>2, OthersStay DEF CallInv
  <2> QED
    BY <2>1, <2>2
<1>2. ASSUME NEW u \in Threads, pc'[u] = "ready"
      PROVE  mes'[cur'[u]] \in Contents
  <2>1. FillExange(t) \/ (pc[u] = "ready" /\ cur'[u] = cur[u])
    BY <1>2, PublishStep, OthersStay
  <2>2. cur'[u] \in ExIds /\ live'[cur'[u]]
    BY <1>2, LiveStep DEF LiveInv, DerefPCs, HoldPCs
  <2>3. CASE pc[u] = "ready" /\ cur'[u] = cur[u]
    BY <2>2, <2>3, ContentStep DEF CallInv
  <2>4. CASE FillExange(t) /\ u = t
    BY <2>2, <2>4 DEF FillExange, Goto, WriterInv, WritePCs
  <2>5. CASE FillExange(t) /\ u # t
    BY <1>2, <2>2, <2>5, OthersStay, ContentStep DEF CallInv
  <2> QED
    BY <2>1, <2>3, <2>4, <2>5
<1>3. ASSUME NEW x \in ExIds, ready'[x]
      PROVE  mes'[x] \in Contents
  <2>1. mes[x] \in Contents
    BY <1>3, PublishStep DEF CallInv
  <2> QED
    BY <1>3, <2>1, ContentStep
<1> QED
  BY <1>1, <1>2, <1>3 DEF CallInv

-----------------------------------------------------------------------------
(* No lost wake-up *)

\* What a step does to the queues, and how a thread falls asleep or wakes them.
LEMMA QueueStep ==
  ASSUME IInv, NEW t \in Threads, Call(t) \/ Signal(t) \/ Step(t)
  PROVE  /\ \A u \in Threads \ {t}, x \in ExIds :
              u \in readerQueue'[x] => u \in readerQueue[x]
         /\ pc[t] = "wake_up_all" => readerQueue' = [readerQueue EXCEPT ![cur[t]] = {}]
         /\ pc'[t] = "sleep" =>
              /\ cur'[t] = cur[t] /\ ready' = ready
              /\ \/ ~ready[cur[t]]
                 \/ UNCHANGED <<pc, readerQueue, cur>>
<1> USE DEF vars, exVars, Goto, IInv, TypeOK
<1>1. CASE Call(t)
  BY <1>1 DEF Call, FindToReceive, FindToSend, FindToAwake, FindToRemove, FindNothing, Find, Admitted
<1>2. CASE Signal(t)
  BY <1>2 DEF Signal
<1>3. CASE Receive(t)
  BY <1>3 DEF Receive, freeMem_Lock, LoadExange, CountReader, freeMem_unLock, TestCondition,
     PrepareToWait, RecheckCondition, RecheckWithSignal, WakeUp, TakeMessage, CopyFaults,
     CopyRetried
<1>4. CASE Write(t)
  BY <1>4 DEF Write, SwapExange, CountWriter, FillExange, SetReady, WakeUpReaders
<1>5. CASE TryFree(t)
  BY <1>5 DEF TryFree, FreeEmpty, DecNotOne, waitUntil_unlock, DecAndTest, Decrease, Released, Free
<1>6. CASE Remove(t)
  BY <1>6 DEF Remove, LoadForWaiters, ReadWaiters, RefuseRemove, UnlinkRoom
<1>7. CASE Leave(t)
  BY <1>7 DEF Leave, FreeRoomExanges, Free
<1> QED
  BY <1>1, <1>2, <1>3, <1>4, <1>5, <1>6, <1>7 DEF Step

\* How an exchange gets ready: by a writer that goes on to wake its queue.
LEMMA SetReadyStep ==
  ASSUME IInv, NEW t \in Threads, Call(t) \/ Signal(t) \/ Step(t), pc[t] = "ready"
  PROVE  pc'[t] = "wake_up_all" /\ cur'[t] = cur[t]
<1> USE DEF vars, Goto, IInv, TypeOK
<1>1. CASE Call(t) \/ Signal(t)
  BY <1>1 DEF Call, FindToReceive, FindToSend, FindToAwake, FindToRemove, FindNothing, Find,
     Admitted, Signal
<1>2. CASE Step(t)
  BY <1>2 DEF Step, Receive, freeMem_Lock, LoadExange, CountReader, freeMem_unLock, TestCondition,
     PrepareToWait, RecheckCondition, RecheckWithSignal, WakeUp, TakeMessage, CopyFaults,
     CopyRetried,
     Write, SwapExange, CountWriter, FillExange, SetReady, WakeUpReaders,
     TryFree, FreeEmpty, DecNotOne, waitUntil_unlock, DecAndTest, Released,
     Remove, LoadForWaiters, ReadWaiters, RefuseRemove, UnlinkRoom, Leave
<1> QED
  BY <1>1, <1>2

\* No step loses a wake-up.
LEMMA WakeUpStep ==
  ASSUME IInv, NoLostWakeUp, NEW t \in Threads, Call(t) \/ Signal(t) \/ Step(t)
  PROVE  NoLostWakeUp'
<1> USE DEF IInv, TypeOK
<1>1. SUFFICES ASSUME NEW u \in Threads, pc'[u] = "sleep", ready'[cur'[u]],
                      u \in readerQueue'[cur'[u]]
               PROVE  \E w \in Threads : pc'[w] = "wake_up_all" /\ cur'[w] = cur'[u]
  BY DEF NoLostWakeUp
<1>2. CASE u = t
  <2>1. UNCHANGED <<pc, readerQueue, cur, ready>>
    BY <1>1, <1>2, QueueStep
  <2> QED
    BY <1>1, <1>2, <2>1 DEF NoLostWakeUp
<1>3. CASE u # t
  <2>1. pc[u] = "sleep" /\ cur'[u] = cur[u]
    BY <1>1, <1>3, OthersStay
  <2>2. cur[u] \in ExIds
    BY <2>1 DEF LiveInv, DerefPCs, HoldPCs
  <2>3. u \in readerQueue[cur[u]]
    BY <1>1, <1>3, <2>1, <2>2, QueueStep
  <2>4. CASE ready[cur[u]]
    <3>1. PICK w \in Threads : pc[w] = "wake_up_all" /\ cur[w] = cur[u]
      BY <2>1, <2>3, <2>4 DEF NoLostWakeUp
    <3>2. w # t
      BY <1>1, <2>1, <2>2, <3>1, QueueStep
    <3> QED
      BY <2>1, <3>1, <3>2, OthersStay
  <2>5. CASE ~ready[cur[u]]
    <3>1. pc[t] = "ready" /\ cur[t] = cur[u]
      BY <1>1, <2>1, <2>2, <2>5, PublishStep
    <3> QED
      BY <2>1, <3>1, SetReadyStep
  <2> QED
    BY <2>4, <2>5
<1> QED
  BY <1>2, <1>3

-----------------------------------------------------------------------------
(* No leak, without signals and on kernels that count from zero *)

\* Without signals every receive ends with a message, so everyone frees.
NoSignalInv == \A t \in Threads : ~sig[t] /\ pc[t] # "recheck_sig" /\ execFree(t)

\* No step delivers a signal then.
LEMMA NoSignalStep ==
  ASSUME ~Signals, IInv, NoSignalInv,
         NEW t \in Threads, Call(t) \/ Signal(t) \/ Step(t)
  PROVE  NoSignalInv'
<1> USE DEF vars, Goto, IInv, TypeOK, NoSignalInv, execFree
<1>0. ERESTART \notin Contents \cup {NoMes}
  BY ConstantsAssumption DEF Contents
<1>1. CASE Call(t)
  <2>1. /\ sig' = sig /\ (pc' = pc \/ pc'[t] # "recheck_sig")
        /\ \A u \in Threads : buf'[u] = buf[u] \/ buf'[u] \in Contents \cup {NoMes}
    BY <1>1 DEF Call, FindToReceive, FindToSend, FindToAwake, FindToRemove, FindNothing, Find,
       Admitted, Contents
  <2> QED
    BY <1>0, <2>1, <1>1, OthersStay
<1>2. CASE Signal(t)
  BY <1>2 DEF Signal
<1>3. CASE Receive(t)
  <2>1. CASE TakeMessage(t) \/ CopyRetried(t)
    BY <1>0, <2>1 DEF TakeMessage, CopyRetried, LiveInv, DerefPCs, HoldPCs
  <2>2. CASE RecheckWithSignal(t)
    BY <2>2 DEF RecheckWithSignal
  <2>3. CASE ~TakeMessage(t) /\ ~CopyRetried(t) /\ ~RecheckWithSignal(t)
    BY <1>3, <2>3 DEF Receive, freeMem_Lock, LoadExange, CountReader, freeMem_unLock,
       TestCondition, PrepareToWait, RecheckCondition, WakeUp, CopyFaults
  <2> QED
    BY <2>1, <2>2, <2>3
<1>4. CASE Write(t)
  BY <1>4 DEF Write, SwapExange, CountWriter, FillExange, SetReady, WakeUpReaders
<1>5. CASE TryFree(t)
  BY <1>5 DEF TryFree, FreeEmpty, DecNotOne, waitUntil_unlock, DecAndTest, Released
<1>6. CASE Remove(t)
  BY <1>6 DEF Remove, LoadForWaiters, ReadWaiters, RefuseRemove, UnlinkRoom
<1>7. CASE Leave(t)
  BY <1>0, <1>7 DEF Leave
<1> QED
  BY <1>1, <1>2, <1>3, <1>4, <1>5, <1>6, <1>7 DEF Step

\* How a thread stops following its pointer to an exchange: by dropping its
\* reference, which the count tells was not the last one unless it frees it.
LEMMA DropStep ==
  ASSUME IInv, NEW t \in Threads, Call(t) \/ Signal(t) \/ Step(t), pc[t] \in DerefPCs
  PROVE  \/ pc'[t] \in DerefPCs /\ cur'[t] = cur[t]
         \/ pc[t] \in FreePCs /\ refCount[cur[t]] # 1
         \/ pc[t] \in FreePCs /\ refCount[cur[t]] = 1
            /\ (execFree(t) => Free({cur[t]}, refCount))
<1> USE DEF vars, exVars, Goto, DerefPCs, HoldPCs, FreePCs, IInv, TypeOK
<1>1. CASE Call(t)
  BY <1>1 DEF Call, FindToReceive, FindToSend, FindToAwake, FindToRemove, FindNothing, Find, Admitted
<1>2. CASE Signal(t)
  BY <1>2 DEF Signal
<1>3. CASE Receive(t)
  BY <1>3 DEF Receive, freeMem_Lock, LoadExange, CountReader, freeMem_unLock, TestCondition,
     PrepareToWait, RecheckCondition, RecheckWithSignal, WakeUp, TakeMessage, CopyFaults,
     CopyRetried
<1>4. CASE Write(t)
  BY <1>4 DEF Write, SwapExange, CountWriter, FillExange, SetReady, WakeUpReaders
<1>5. CASE TryFree(t)
  BY <1>5, NeverEmpty DEF TryFree, FreeEmpty, DecNotOne, waitUntil_unlock, DecAndTest,
     refcount_dec_not_one, refcount_dec_and_test
<1>6. CASE Remove(t)
  BY <1>6 DEF Remove, LoadForWaiters, ReadWaiters, RefuseRemove, UnlinkRoom
<1>7. CASE Leave(t)
  BY <1>7 DEF Leave
<1> QED
  BY <1>1, <1>2, <1>3, <1>4, <1>5, <1>6, <1>7 DEF Step

\* A holder of an exchange whose exact count is not one is not alone.
LEMMA OtherHolder ==
  ASSUME IInv, NEW x \in ExIds, NEW t \in Holders(x), Counted(x), refCount[x] # 1
  PROVE  \E u \in Holders(x) : u # t
<1>1. SUFFICES ASSUME Holders(x) = {t} PROVE FALSE
  OBVIOUS
<1>2. Cardinality({t}) = 1
  BY FS_Singleton
<1> QED
  BY <1>1, <1>2 DEF Counted

\* Where the count of the room goes: only the last call takes it to zero.
LEMMA RoomStaysAlive ==
  ASSUME IInv, NEW t \in Threads, Call(t) \/ Signal(t) \/ Step(t), roomRef > 0,
         ~(Leave(t) /\ refcount_dec_and_test(roomRef))
  PROVE  roomRef' > 0
<1>1. CASE pc'[t] # "idle"
  <2>1. InCall' \subseteq Threads /\ t \in InCall'
    BY <1>1 DEF InCall
  <2>2. Cardinality(InCall') \in Nat /\ Cardinality(InCall') # 0
    BY <2>1, ThreadSet, NoThreadLeft
  <2>3. trees' \in {{}, {"tag"}, {"tag", "key"}}
    BY TreesStep DEF TreesInv
  <2>4. Cardinality(trees') \in 0 .. 2
    BY <2>3, TreesCardinality
  <2> QED
    BY <2>2, <2>4, RoomRefStep DEF RoomRefExact
<1>2. CASE Leave(t)
  BY <1>2 DEF IInv, TypeOK, Leave, refcount_dec_and_test, AfterDecAndTest
<1>3. CASE pc'[t] = "idle" /\ ~Leave(t)
  <2>1. CASE Call(t) \/ Signal(t)
    BY <1>3, <2>1 DEF Call, FindToReceive, FindToSend, FindToAwake, FindToRemove, FindNothing,
       Find, Admitted, Signal, vars, roomVars, Goto, IInv, TypeOK
  <2>2. CASE Step(t)
    BY <1>3, <2>2 DEF Step, Receive, freeMem_Lock, LoadExange, CountReader, freeMem_unLock,
       TestCondition, PrepareToWait, RecheckCondition, RecheckWithSignal, WakeUp,
       TakeMessage, CopyFaults, CopyRetried, Write, SwapExange, CountWriter, FillExange, SetReady,
       WakeUpReaders,
       TryFree, FreeEmpty, DecNotOne, waitUntil_unlock, DecAndTest, Released, Remove,
       LoadForWaiters, ReadWaiters, RefuseRemove, UnlinkRoom, Goto, roomVars, IInv, TypeOK
  <2> QED
    BY <2>1, <2>2
<1> QED
  BY <1>1, <1>2, <1>3

\* No step loses the last pointer to an exchange.
LEMMA OrphanStep ==
  ASSUME RefcountKind = "counts", IInv, NoSignalInv, NoOrphan,
         NEW t \in Threads, Call(t) \/ Signal(t) \/ Step(t)
  PROVE  NoOrphan'
<1> USE DEF IInv, TypeOK
<1>1. SUFFICES ASSUME NEW x \in ExIds, live'[x]
               PROVE  \/ roomRef' > 0 /\ x \in Current'
                      \/ \E u \in Threads : cur'[u] = x /\ pc'[u] \in DerefPCs
  BY DEF NoOrphan
<1>2. Counted(x)
  BY DEF CountInv, Saturated
<1>3. CASE live[x] /\ roomRef > 0 /\ x \in Current
  <2>1. CASE SwapExange(t)
    <3>1. pc'[t] = "refcount_inc" /\ cur'[t] = ex[lev[t]]
      BY <2>1 DEF SwapExange, Goto
    <3>2. CASE x = ex[lev[t]]
      BY <3>1, <3>2 DEF DerefPCs
    <3>3. CASE x # ex[lev[t]]
      <4>1. x \in Current'
        BY <1>3, <2>1, <3>3 DEF SwapExange, Current
      <4>2. roomRef' > 0
        BY <1>3, <2>1 DEF SwapExange, roomVars
      <4> QED
        BY <4>1, <4>2
    <3> QED
      BY <3>2, <3>3
  <2>2. CASE Leave(t) /\ refcount_dec_and_test(roomRef)
    <3>1. InCall = {t} /\ pc[t] = "leave"
      BY <2>2, LastOut DEF Leave, Goto
    <3>2. Holders(x) = {}
      BY <3>1 DEF InCall, Holders, HoldPCs, FreePCs
    <3>3. refCount[x] = 0
      BY <1>2, <3>2, TreesCardinality DEF Counted
    <3> QED
      BY <1>1, <1>3, <2>2, <3>3 DEF Leave, FreeRoomExanges, Free
  <2>3. CASE ~SwapExange(t) /\ ~(Leave(t) /\ refcount_dec_and_test(roomRef))
    <3>1. Current' = Current
      BY <2>3, MemoryStep DEF Current
    <3> QED
      BY <1>3, <2>3, <3>1, RoomStaysAlive
  <2> QED
    BY <2>1, <2>2, <2>3
<1>4. ASSUME NEW u \in Threads, cur[u] = x, pc[u] \in DerefPCs
      PROVE  \E v \in Threads : cur'[v] = x /\ pc'[v] \in DerefPCs
  <2>1. CASE u # t
    BY <1>4, <2>1, OthersStay
  <2>2. CASE u = t /\ pc'[t] \in DerefPCs /\ cur'[t] = x
    BY <2>2
  <2>3. CASE u = t /\ pc[t] \in FreePCs /\ refCount[x] # 1
    <3>1. t \in Holders(x)
      BY <1>4, <2>3 DEF Holders, HoldPCs
    <3>2. PICK v \in Holders(x) : v # t
      BY <1>2, <2>3, <3>1, OtherHolder
    <3> QED
      BY <3>2, OthersStay DEF Holders, DerefPCs
  <2>4. CASE u = t /\ pc[t] \in FreePCs /\ Free({x}, refCount)
    BY <1>1, <2>4 DEF Free
  <2> QED
    BY <1>4, <2>1, <2>2, <2>3, <2>4, DropStep DEF NoSignalInv
<1>5. CASE ~live[x]
  <2>1. SwapExange(t)
    BY <1>1, <1>5, MemoryStep DEF FreeRoomExanges, Free
  <2>2. x \in Current'
    BY <1>1, <1>5, <2>1 DEF SwapExange, Current
  <2>3. roomRef' > 0
    BY <2>1, RoomAlive DEF SwapExange, Goto, roomVars
  <2> QED
    BY <2>2, <2>3
<1> QED
  BY <1>3, <1>4, <1>5 DEF NoOrphan

-----------------------------------------------------------------------------
(* The theorems *)

\* The invariant holds before the first call.
LEMMA InitIInv == Init => IInv
<1> SUFFICES ASSUME Init PROVE IInv
  OBVIOUS
<1> USE DEF Init
<1>0. 0 \in Levels /\ Cardinality({}) = 0
  BY ConstantsAssumption, TreesCardinality DEF Levels
<1>a. Cardinality(trees) \in Int
  <2>1. CASE trees = {"tag"}
    BY <2>1, TreesCardinality
  <2>2. CASE trees = {"tag", "key"}
    BY <2>2, TreesCardinality
  <2> QED
    BY <2>1, <2>2
<1>1. TypeOK
  <2>1. /\ live \in [ExIds -> BOOLEAN] /\ ready \in [ExIds -> BOOLEAN]
        /\ refCount \in [ExIds -> Int] /\ ex \in [Levels -> ExIds]
    OBVIOUS
  <2>2. /\ mes \in [ExIds -> Contents \cup {NoMes}]
        /\ readerQueue \in [ExIds -> SUBSET Threads]
        /\ freeLockCnt \in [Levels -> Int]
    OBVIOUS
  <2>3. /\ trees \in SUBSET {"tag", "key"} /\ roomRef \in Int
        /\ searchLock \in Threads \cup {NoThread}
    BY <1>a
  <2>4. /\ pc \in [Threads -> PCs] /\ op \in [Threads -> Ops]
    BY DEF PCs, Ops
  <2>5. /\ lev \in [Threads -> Levels] /\ cur \in [Threads -> ExIds \cup {NoEx}]
        /\ buf \in [Threads -> Contents \cup {ERESTART, NoMes}]
        /\ sig \in [Threads -> BOOLEAN] /\ waiters \in [Threads -> Int]
    BY <1>0
  <2> QED
    BY <2>1, <2>2, <2>3, <2>4, <2>5 DEF TypeOK
<1>2. CountInv
  <2>1. \A x \in ExIds : Holders(x) = {}
    BY DEF Holders, HoldPCs, FreePCs
  <2> QED
    BY <1>0, <2>1 DEF CountInv, Counted
<1>3. LockInv
  <2>1. \A l \in Levels : InLock(l) = {}
    BY DEF InLock
  <2> QED
    BY <1>0, <2>1 DEF LockInv
<1>4. RoomRefExact
  <2>1. InCall = {}
    BY DEF InCall
  <2> QED
    BY <1>0, <1>a, <2>1 DEF RoomRefExact
<1>5. TreesInv
  BY DEF TreesInv, RemovePCs
<1>6. LiveInv
  BY DEF LiveInv, DerefPCs, HoldPCs, FreePCs
<1>7. LevelInv
  BY DEF LevelInv, DerefPCs, HoldPCs, FreePCs
<1>8. WriterInv
  BY DEF WriterInv, FillPCs, WritePCs, ReceivePCs
<1>9. FreeInv
  BY DEF FreeInv, FreePCs
<1>10. CallInv
  BY DEF CallInv, ReceivePCs, WritePCs, RemovePCs, FreePCs
<1> QED
  BY <1>1, <1>2, <1>3, <1>4, <1>5, <1>6, <1>7, <1>8, <1>9, <1>10 DEF IInv

\* Every step keeps the invariant.
LEMMA NextIInv == IInv /\ [Next]_vars => IInv'
<1>1. ASSUME IInv, NEW t \in Threads, Call(t) \/ Signal(t) \/ Step(t)
      PROVE  IInv'
  BY <1>1, TypeStep, CountStep, LockStep, RoomRefStep, TreesStep, LiveStep, LevelStep,
     WriterStep, FreeStep, CallStep DEF IInv
<1>2. ASSUME IInv, UNCHANGED vars
      PROVE  IInv'
  BY <1>2 DEF vars, exVars, levelVars, roomVars, IInv, TypeOK, CountInv, Counted, Saturated,
     Holders, LockInv, InLock, RoomRefExact, InCall, TreesInv, LiveInv, LevelInv,
     WriterInv, FreeInv, CallInv, Current, execFree
<1> QED
  BY <1>1, <1>2 DEF Next

\* The inductive invariant of the room.
THEOREM Inductive == Spec => []IInv
BY InitIInv, NextIInv, PTL DEF Spec

\* Every variable of the room keeps its type.
THEOREM TypeCorrect == Spec => []TypeOK
<1>1. IInv => TypeOK
  BY DEF IInv
<1> QED
  BY <1>1, Inductive, PTL

\* No thread ever follows a pointer to freed memory in tag_receive, tag_send or
\* AWAKE_ALL, on any kernel, with any number of threads and with signals.
THEOREM MemorySafety == Spec => []NoUseAfterFree
<1>1. IInv => NoUseAfterFree
  <2>1. ASSUME IInv, InCall # {}
        PROVE  roomRef > 0 /\ \A l \in Levels : live[ex[l]]
    BY <2>1, RoomAlive DEF InCall
  <2> QED
    BY <2>1 DEF IInv, LiveInv, NoUseAfterFree
<1> QED
  BY <1>1, Inductive, PTL

\* The count of the room is exactly the trees and the calls that point to it.
THEOREM RoomCountExact == Spec => []RoomRefExact
<1>1. IInv => RoomRefExact
  BY DEF IInv
<1> QED
  BY <1>1, Inductive, PTL

\* On kernels that count from zero, the count of an exchange is exactly the
\* number of its holders.
THEOREM ExchangeCountExact ==
  ASSUME RefcountKind = "counts" PROVE Spec => []RefCountExact
<1>1. IInv => RefCountExact
  BY DEF IInv, CountInv, Counted, Saturated, RefCountExact
<1> QED
  BY <1>1, Inductive, PTL

\* A reader that sleeps on a published exchange, and is still in its queue, has
\* a writer on its way to wake it: nobody falls asleep after the wake-up.
THEOREM NoWakeUpLost == Spec => []NoLostWakeUp
<1>1. Init => NoLostWakeUp
  BY DEF Init, NoLostWakeUp
<1>2. IInv /\ NoLostWakeUp /\ [Next]_vars => NoLostWakeUp'
  <2>1. ASSUME IInv, NoLostWakeUp, UNCHANGED vars
        PROVE  NoLostWakeUp'
    BY <2>1 DEF vars, exVars, NoLostWakeUp
  <2> QED
    BY <2>1, WakeUpStep DEF Next
<1> QED
  BY <1>1, <1>2, Inductive, PTL DEF Spec

\* Without signals, and on kernels that count from zero, every live exchange can
\* still be reached: nothing leaks, with any number of threads and levels.
THEOREM NothingLeaks ==
  ASSUME ~Signals, RefcountKind = "counts" PROVE Spec => []NoOrphan
<1>1. Init => NoSignalInv /\ NoOrphan
  <2> SUFFICES ASSUME Init PROVE NoSignalInv /\ NoOrphan
    OBVIOUS
  <2>1. NoSignalInv
    BY ConstantsAssumption DEF Init, NoSignalInv, execFree
  <2>2. roomRef > 0
    <3>1. trees \in {{"tag"}, {"tag", "key"}} /\ roomRef = Cardinality(trees)
      BY DEF Init
    <3> QED
      BY <3>1, TreesCardinality
  <2>3. \A x \in ExIds : live[x] => x \in Current
    BY DEF Init, Current
  <2> QED
    BY <2>1, <2>2, <2>3 DEF NoOrphan
<1>2. IInv /\ NoSignalInv /\ NoOrphan /\ [Next]_vars => NoSignalInv' /\ NoOrphan'
  <2>1. ASSUME NoSignalInv, NoOrphan, UNCHANGED vars
        PROVE  NoSignalInv' /\ NoOrphan'
    BY <2>1 DEF vars, exVars, levelVars, roomVars, NoSignalInv, execFree, NoOrphan, Current
  <2> QED
    BY <2>1, NoSignalStep, OrphanStep DEF Next
<1> QED
  BY <1>1, <1>2, Inductive, PTL DEF Spec

=============================================================================
