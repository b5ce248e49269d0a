------------------------------ MODULE ChatRoom ------------------------------
(***************************************************************************)
(* One room of TAG_DataExchange: the threads that call tag_receive,        *)
(* tag_send, tag_ctl(AWAKE_ALL) and tag_ctl(REMOVE) on it, at the          *)
(* granularity of its accesses to shared memory (src/lib/tbde/tbde.c and   *)
(* the macros of tbde.h it is written with).                               *)
(*                                                                         *)
(* A level of the room holds the current exchange, where readers queue.  A *)
(* writer swaps in an empty one and then owns the old: publishes its       *)
(* message there, wakes the queue, drops its reference; the last holder    *)
(* frees it.  An exchange is identified by its address; the allocator may  *)
(* reuse the address of a freed exchange once nobody holds it.             *)
(*                                                                         *)
(* Steps are interleaved one access at a time, in program order.           *)
(***************************************************************************)
EXTENDS Refcount, FiniteSets

CONSTANTS
  Threads,        \* the threads of user space that call the module
  levelDeep,      \* levels of a room (32 in tbdeType.h)
  ExIds,          \* addresses the allocator may give to an exangeRoom
  Msgs,           \* message bodies
  Signals,        \* whether signals are delivered to waiting readers
  Faults,         \* whether the buffer a reader gave may be one it cannot write
  WakeUpAll,      \* content published by AWAKE_ALL (wakeUpALL = 1, no message)
  ERESTART,       \* result of a receive ended by a signal
  NoMes, NoEx, NoThread

MaxThreads == 1000000000   \* far more than the kernel's limit on thread ids

ASSUME ConstantsAssumption ==
  /\ IsFiniteSet(Threads) /\ Cardinality(Threads) < MaxThreads
  /\ levelDeep \in Nat \ {0}
  /\ Signals \in BOOLEAN /\ Faults \in BOOLEAN
  /\ WakeUpAll \notin Msgs
  /\ {ERESTART, NoMes} \cap (Msgs \cup {WakeUpAll}) = {} /\ ERESTART # NoMes
  /\ NoEx \notin ExIds /\ NoThread \notin Threads

Levels == 0 .. levelDeep - 1
Contents == Msgs \cup {WakeUpAll}
Ops == {"receive", "send", "awake", "remove", "none"}

VARIABLES
  live, refCount, mes, ready, readerQueue,     \* exangeRoom, by address
  ex, freeLockCnt,                             \* chatRoom, by level
  trees, roomRef, searchLock,                  \* the room and who indexes it
  pc, op, lev, cur, buf, sig, waiters          \* locals, by thread

exVars    == <<live, refCount, mes, ready, readerQueue>>
roomVars  == <<trees, roomRef, searchLock>>
levelVars == <<ex, freeLockCnt>>
vars == <<exVars, levelVars, roomVars, pc, op, lev, cur, buf, sig, waiters>>

-----------------------------------------------------------------------------
(* Where a thread can be. *)

ReceivePCs == {"freeMem_Lock", "load_ex", "atomic_inc", "freeMem_unLock",
               "condition", "prepare", "recheck", "recheck_sig", "sleep", "woken", "copy"}
WritePCs   == {"swap", "refcount_inc", "fill", "ready", "wake_up_all"}
FreePCs    == {"free_read", "free_dec", "free_wait", "free_test"}
RemovePCs  == {"waiters_load", "waiters_read", "remove"}
PCs == {"idle", "leave"} \cup ReceivePCs \cup WritePCs \cup FreePCs \cup RemovePCs

Init ==
  /\ \E first \in [Levels -> ExIds] :
       /\ \A k, l \in Levels : first[k] = first[l] => k = l
       /\ ex = first
       /\ live = [x \in ExIds |-> \E l \in Levels : first[l] = x]
  /\ refCount = [x \in ExIds |-> 0]
  /\ mes = [x \in ExIds |-> NoMes]
  /\ ready = [x \in ExIds |-> FALSE]
  /\ readerQueue = [x \in ExIds |-> {}]
  /\ freeLockCnt = [l \in Levels |-> 0]
  /\ trees \in {{"tag"}, {"tag", "key"}}
  /\ roomRef = Cardinality(trees)
  /\ searchLock = NoThread
  /\ pc = [t \in Threads |-> "idle"]
  /\ op = [t \in Threads |-> "none"]
  /\ lev = [t \in Threads |-> 0]
  /\ cur = [t \in Threads |-> NoEx]
  /\ buf = [t \in Threads |-> NoMes]
  /\ sig = [t \in Threads |-> FALSE]
  /\ waiters = [t \in Threads |-> 0]

Goto(t, from, to) ==
  /\ pc[t] = from
  /\ pc' = [pc EXCEPT ![t] = to]

\* realExangeFree of the exchanges in X, the others keep count[x].  A freed
\* exchange is wiped as kzalloc will hand it out.
Free(X, count) ==
  /\ live' = [x \in ExIds |-> live[x] /\ x \notin X]
  /\ refCount' = [x \in ExIds |-> IF x \in X THEN 0 ELSE count[x]]
  /\ mes' = [x \in ExIds |-> IF x \in X THEN NoMes ELSE mes[x]]
  /\ ready' = [x \in ExIds |-> ready[x] /\ x \notin X]
  /\ readerQueue' = [x \in ExIds |-> IF x \in X THEN {} ELSE readerQueue[x]]

-----------------------------------------------------------------------------
(* Entering a room.  tag_send and tag_receive look the tag up under the    *)
(* read lock and take a reference there; a reader's critical section is    *)
(* one step, because only writers of the lock change what it reads.        *)
(* operationValid depends on who calls: it may say either.  That check and *)
(* the one of the level touch only the caller's own reference; levelDeep   *)
(* stands for every level that is too high.                                *)

FaultyAdmitted(valid, l) == valid /\ l <= levelDeep   \* fault: > for >=
Admitted(valid, l) == valid /\ l < levelDeep

Find(t, o, l, b, first) ==
  \E valid \in BOOLEAN :
    /\ searchLock = NoThread /\ "tag" \in trees
    /\ Goto(t, "idle", IF Admitted(valid, l) THEN first ELSE "leave")
    /\ op' = [op EXCEPT ![t] = o]
    /\ lev' = [lev EXCEPT ![t] = IF Admitted(valid, l) THEN l ELSE 0]
    /\ buf' = [buf EXCEPT ![t] = IF Admitted(valid, l) THEN b ELSE NoMes]
    /\ roomRef' = refcount_inc(roomRef)
    /\ UNCHANGED <<exVars, levelVars, trees, cur, sig, waiters>>

FindToReceive(t, l) == Find(t, "receive", l, NoMes, "freeMem_Lock") /\ UNCHANGED searchLock
FindToSend(t, l, m) == Find(t, "send", l, m, "swap") /\ UNCHANGED searchLock

\* The two commands of tag_ctl keep the write lock until they are done.
FindToAwake(t)  == Find(t, "awake", 0, WakeUpAll, "swap") /\ searchLock' = t
FindToRemove(t) == Find(t, "remove", 0, NoMes, "waiters_load") /\ searchLock' = t

\* Every call returns at once when the tag is not found.
FindNothing(t) ==
  /\ searchLock = NoThread /\ "tag" \notin trees /\ pc[t] = "idle"
  /\ UNCHANGED vars

-----------------------------------------------------------------------------
(* tag_receive *)

freeMem_Lock(t) ==
  /\ Goto(t, "freeMem_Lock", "load_ex")
  /\ freeLockCnt' = [freeLockCnt EXCEPT ![lev[t]] = atomic_inc(@)]
  /\ UNCHANGED <<exVars, ex, roomVars, op, lev, cur, buf, sig, waiters>>

LoadExange(t) ==
  /\ Goto(t, "load_ex", "atomic_inc")
  /\ cur' = [cur EXCEPT ![t] = ex[lev[t]]]
  /\ UNCHANGED <<exVars, levelVars, roomVars, op, lev, buf, sig, waiters>>

CountReader(t) ==
  /\ Goto(t, "atomic_inc", "freeMem_unLock")
  /\ refCount' = [refCount EXCEPT ![cur[t]] = atomic_inc(@)]
  /\ UNCHANGED <<live, mes, ready, readerQueue, levelVars, roomVars,
                 op, lev, cur, buf, sig, waiters>>

freeMem_unLock(t) ==
  /\ Goto(t, "freeMem_unLock", "condition")
  /\ freeLockCnt' = [freeLockCnt EXCEPT ![lev[t]] = atomic_dec(@)]
  /\ UNCHANGED <<exVars, ex, roomVars, op, lev, cur, buf, sig, waiters>>

\* wait_event_interruptible evaluates its condition before it queues at all.
TestCondition(t) ==
  /\ Goto(t, "condition", IF ready[cur[t]] THEN "woken" ELSE "prepare")
  /\ UNCHANGED <<exVars, levelVars, roomVars, op, lev, cur, buf, sig, waiters>>

\* prepare_to_wait_event: under the queue's lock, either the thread has a
\* signal pending and leaves the queue, or it is in the queue.
PrepareToWait(t) ==
  /\ Goto(t, "prepare", IF sig[t] THEN "recheck_sig" ELSE "recheck")
  /\ readerQueue' = [readerQueue EXCEPT ![cur[t]] =
                       IF sig[t] THEN @ \ {t} ELSE @ \cup {t}]
  /\ UNCHANGED <<live, refCount, mes, ready, levelVars, roomVars,
                 op, lev, cur, buf, sig, waiters>>

RecheckCondition(t) ==
  /\ Goto(t, "recheck", IF ready[cur[t]] THEN "woken" ELSE "sleep")
  /\ UNCHANGED <<exVars, levelVars, roomVars, op, lev, cur, buf, sig, waiters>>

\* The condition wins over a pending signal.
RecheckWithSignal(t) ==
  /\ Goto(t, "recheck_sig", IF ready[cur[t]] THEN "woken" ELSE "free_read")
  /\ buf' = [buf EXCEPT ![t] = IF ready[cur[t]] THEN NoMes ELSE ERESTART]
  /\ UNCHANGED <<exVars, levelVars, roomVars, op, lev, cur, sig, waiters>>

\* schedule() returns to a thread taken off the queue or that has a signal.
WakeUp(t) ==
  /\ Goto(t, "sleep", "prepare")
  /\ t \notin readerQueue[cur[t]] \/ sig[t]
  /\ UNCHANGED <<exVars, levelVars, roomVars, op, lev, cur, buf, sig, waiters>>

\* finish_wait, then the reader looks at wakeUpALL and copies the message.
TakeMessage(t) ==
  /\ Goto(t, "woken", "free_read")
  /\ readerQueue' = [readerQueue EXCEPT ![cur[t]] = @ \ {t}]
  /\ buf' = [buf EXCEPT ![t] = mes[cur[t]]]
  /\ UNCHANGED <<live, refCount, mes, ready, levelVars, roomVars,
                 op, lev, cur, sig, waiters>>

\* The same, but copy_to_user cannot write all of the buffer: data2UserForce
\* goes round, and holds the exchange meanwhile.
CopyFaults(t) ==
  /\ Faults
  /\ Goto(t, "woken", "copy")
  /\ mes[cur[t]] \in Msgs
  /\ readerQueue' = [readerQueue EXCEPT ![cur[t]] = @ \ {t}]
  /\ UNCHANGED <<live, refCount, mes, ready, levelVars, roomVars,
                 op, lev, cur, buf, sig, waiters>>

\* The loop ends when another thread has made the buffer one that can be written,
\* and not before: neither a signal nor a count of attempts ends it.
CopyRetried(t) ==
  /\ Goto(t, "copy", "free_read")
  /\ buf' = [buf EXCEPT ![t] = mes[cur[t]]]
  /\ UNCHANGED <<exVars, levelVars, roomVars, op, lev, cur, sig, waiters>>

\* Environment: a signal reaches a reader; one that comes before the wait is
\* first seen by prepare_to_wait_event.
Signal(t) ==
  /\ Signals /\ ~sig[t]
  /\ pc[t] \in {"prepare", "recheck", "sleep"}
  /\ sig' = [sig EXCEPT ![t] = TRUE]
  /\ UNCHANGED <<exVars, levelVars, roomVars, pc, op, lev, cur, buf, waiters>>

-----------------------------------------------------------------------------
(* tag_send, and one level of AWAKE_ALL: the same four calls. *)

\* makeExangeRoom and the compare-and-swap; a failed one has no effect.
SwapExange(t) ==
  /\ Goto(t, "swap", "refcount_inc")
  /\ \E new \in ExIds :
       /\ ~live[new] /\ \A u \in Threads : cur[u] # new
       /\ live' = [live EXCEPT ![new] = TRUE]
       /\ ex' = [ex EXCEPT ![lev[t]] = new]
       /\ cur' = [cur EXCEPT ![t] = ex[lev[t]]]
  /\ UNCHANGED <<refCount, mes, ready, readerQueue, freeLockCnt, roomVars,
                 op, lev, buf, sig, waiters>>

FaultyCountWriter(t) ==   \* fault: the writer does not count itself
  /\ Goto(t, "refcount_inc", "fill")
  /\ UNCHANGED <<exVars, levelVars, roomVars, op, lev, cur, buf, sig, waiters>>

CountWriter(t) ==
  /\ Goto(t, "refcount_inc", "fill")
  /\ refCount' = [refCount EXCEPT ![cur[t]] = refcount_inc(@)]
  /\ UNCHANGED <<live, mes, ready, readerQueue, levelVars, roomVars,
                 op, lev, cur, buf, sig, waiters>>

\* exangeMessage and exangeWakeUpAll: the content first, ready last.
FillExange(t) ==
  /\ Goto(t, "fill", "ready")
  /\ mes' = [mes EXCEPT ![cur[t]] = buf[t]]
  /\ UNCHANGED <<live, refCount, ready, readerQueue, levelVars, roomVars,
                 op, lev, cur, buf, sig, waiters>>

SetReady(t) ==
  /\ Goto(t, "ready", "wake_up_all")
  /\ ready' = [ready EXCEPT ![cur[t]] = TRUE]
  /\ UNCHANGED <<live, refCount, mes, readerQueue, levelVars, roomVars,
                 op, lev, cur, buf, sig, waiters>>

FaultyWakeUpReaders(t) ==   \* fault: wake_up, of one reader, for wake_up_all
  /\ Goto(t, "wake_up_all", "free_read")
  /\ \E r \in Threads : readerQueue' = [readerQueue EXCEPT ![cur[t]] = @ \ {r}]
  /\ UNCHANGED <<live, refCount, mes, ready, levelVars, roomVars,
                 op, lev, cur, buf, sig, waiters>>

WakeUpReaders(t) ==
  /\ Goto(t, "wake_up_all", "free_read")
  /\ readerQueue' = [readerQueue EXCEPT ![cur[t]] = {}]
  /\ UNCHANGED <<live, refCount, mes, ready, levelVars, roomVars,
                 op, lev, cur, buf, sig, waiters>>

-----------------------------------------------------------------------------
(* try_freeExangeRoom and exitOnly_freeExangeRoom: one function, which     *)
(* frees only if execFree holds, that is, unless a signal ended a receive. *)

FaultyExecFree(t) == FALSE   \* fault: everyone calls exitOnly_freeExangeRoom
execFree(t) == buf[t] # ERESTART

\* The reference is gone: on to the next level of AWAKE_ALL, or out.
Released(t) ==
  LET more == op[t] = "awake" /\ lev[t] + 1 < levelDeep IN
  /\ pc' = [pc EXCEPT ![t] = IF more THEN "swap" ELSE "leave"]
  /\ lev' = [lev EXCEPT ![t] = IF more THEN @ + 1 ELSE @]
  /\ cur' = [cur EXCEPT ![t] = NoEx]
  /\ UNCHANGED <<levelVars, roomVars, op, buf, sig, waiters>>

Decrease(t, count) ==
  /\ refCount' = [refCount EXCEPT ![cur[t]] = count]
  /\ UNCHANGED <<live, mes, ready, readerQueue>>

FreeEmpty(t) ==
  /\ pc[t] = "free_read"
  /\ IF refCount[cur[t]] = 0
     THEN /\ Free(IF execFree(t) THEN {cur[t]} ELSE {}, refCount)
          /\ Released(t)
     ELSE /\ pc' = [pc EXCEPT ![t] = "free_dec"]
          /\ UNCHANGED <<exVars, levelVars, roomVars, op, lev, cur, buf, sig, waiters>>

DecNotOne(t) ==
  /\ pc[t] = "free_dec"
  /\ Decrease(t, AfterDecNotOne(refCount[cur[t]]))
  /\ IF refcount_dec_not_one(refCount[cur[t]])
     THEN Released(t)
     ELSE /\ pc' = [pc EXCEPT ![t] = "free_wait"]
          /\ UNCHANGED <<levelVars, roomVars, op, lev, cur, buf, sig, waiters>>

FaultyWaitUntil_unlock(t) ==   \* fault: the test of the spin inverted
  /\ freeLockCnt[lev[t]] # 0
  /\ Goto(t, "free_wait", "free_test")
  /\ UNCHANGED <<exVars, levelVars, roomVars, op, lev, cur, buf, sig, waiters>>

FaultySpinsElsewhere(t) ==   \* fault: always the counter of the first level
  /\ freeLockCnt[0] = 0
  /\ Goto(t, "free_wait", "free_test")
  /\ UNCHANGED <<exVars, levelVars, roomVars, op, lev, cur, buf, sig, waiters>>

waitUntil_unlock(t) ==
  /\ freeLockCnt[lev[t]] = 0
  /\ Goto(t, "free_wait", "free_test")
  /\ UNCHANGED <<exVars, levelVars, roomVars, op, lev, cur, buf, sig, waiters>>

DecAndTest(t) ==
  /\ pc[t] = "free_test"
  /\ IF refcount_dec_and_test(refCount[cur[t]]) /\ execFree(t)
     THEN Free({cur[t]}, refCount)
     ELSE Decrease(t, AfterDecAndTest(refCount[cur[t]]))
  /\ Released(t)

-----------------------------------------------------------------------------
(* freeRoom, and the end of the call.  Whoever drops the last reference to *)
(* the room runs try_freeExangeRoom on what its levels hold.               *)

Current == {ex[l] : l \in Levels}

FreeRoomExanges ==
  /\ \A l \in Levels : refCount[ex[l]] = 1 => freeLockCnt[l] = 0
  /\ Free({x \in Current : refCount[x] \in {0, 1}},
          [x \in ExIds |-> IF x \in Current THEN AfterDecNotOne(refCount[x])
                           ELSE refCount[x]])

Leave(t) ==
  /\ Goto(t, "leave", "idle")
  /\ roomRef' = AfterDecAndTest(roomRef)
  /\ IF refcount_dec_and_test(roomRef) THEN FreeRoomExanges ELSE UNCHANGED exVars
  /\ searchLock' = IF searchLock = t THEN NoThread ELSE searchLock
  /\ op' = [op EXCEPT ![t] = "none"]
  /\ lev' = [lev EXCEPT ![t] = 0]
  /\ buf' = [buf EXCEPT ![t] = NoMes]
  /\ sig' = [sig EXCEPT ![t] = FALSE]
  /\ waiters' = [waiters EXCEPT ![t] = 0]
  /\ UNCHANGED <<levelVars, trees, cur>>

-----------------------------------------------------------------------------
(* tag_ctl(REMOVE), under the write lock: waitersInRoom level by level,    *)
(* then either EADDRINUSE or the room leaves the trees.                    *)

LoadForWaiters(t) ==
  /\ Goto(t, "waiters_load", "waiters_read")
  /\ cur' = [cur EXCEPT ![t] = ex[lev[t]]]
  /\ UNCHANGED <<exVars, levelVars, roomVars, op, lev, buf, sig, waiters>>

\* A count read from freed memory is any count.
ReadWaiters(t) ==
  LET more == lev[t] + 1 < levelDeep IN
  /\ Goto(t, "waiters_read", IF more THEN "waiters_load" ELSE "remove")
  /\ \E w \in IF live[cur[t]] THEN {refCount[cur[t]]} ELSE {0, 1} :
       waiters' = [waiters EXCEPT ![t] = @ + w]
  /\ lev' = [lev EXCEPT ![t] = IF more THEN @ + 1 ELSE @]
  /\ cur' = [cur EXCEPT ![t] = NoEx]
  /\ UNCHANGED <<exVars, levelVars, roomVars, op, buf, sig>>

RefuseRemove(t) ==
  /\ waiters[t] # 0
  /\ Goto(t, "remove", "leave")
  /\ UNCHANGED <<exVars, levelVars, roomVars, op, lev, cur, buf, sig, waiters>>

\* One freeRoom on account of each tree; REMOVE's own reference remains.
FaultyDropTreeRefs(r) == AfterDecAndTest(r)   \* fault: keyTree's is forgotten
DropTreeRefs(r) == IF "key" \in trees THEN AfterDecAndTest(AfterDecAndTest(r))
                   ELSE AfterDecAndTest(r)

UnlinkRoom(t) ==
  /\ waiters[t] = 0
  /\ Goto(t, "remove", "leave")
  /\ trees' = {}
  /\ roomRef' = DropTreeRefs(roomRef)
  /\ searchLock' = NoThread
  /\ UNCHANGED <<exVars, levelVars, op, lev, cur, buf, sig, waiters>>

-----------------------------------------------------------------------------
(* The calls.  A definition named Faulty... is not part of the model: it is *)
(* the definition after it with a bug a programmer could have written, for  *)
(* showing that the properties notice.                                      *)

FaultyReceive(t) ==   \* fault: the reader unlocks before it counts itself
  \/ /\ Goto(t, "atomic_inc", "freeMem_unLock")
     /\ freeLockCnt' = [freeLockCnt EXCEPT ![lev[t]] = atomic_dec(@)]
     /\ UNCHANGED <<exVars, ex, roomVars, op, lev, cur, buf, sig, waiters>>
  \/ /\ Goto(t, "freeMem_unLock", "condition")
     /\ refCount' = [refCount EXCEPT ![cur[t]] = atomic_inc(@)]
     /\ UNCHANGED <<live, mes, ready, readerQueue, levelVars, roomVars,
                    op, lev, cur, buf, sig, waiters>>
  \/ freeMem_Lock(t) \/ LoadExange(t)
  \/ TestCondition(t) \/ PrepareToWait(t) \/ RecheckCondition(t)
  \/ RecheckWithSignal(t) \/ WakeUp(t)
  \/ TakeMessage(t) \/ CopyFaults(t) \/ CopyRetried(t)

Receive(t) ==
  \/ freeMem_Lock(t) \/ LoadExange(t) \/ CountReader(t) \/ freeMem_unLock(t)
  \/ TestCondition(t) \/ PrepareToWait(t) \/ RecheckCondition(t)
  \/ RecheckWithSignal(t) \/ WakeUp(t)
  \/ TakeMessage(t) \/ CopyFaults(t) \/ CopyRetried(t)

FaultyWrite(t) ==   \* fault: ready is set before the message is there
  \/ /\ Goto(t, "fill", "ready")
     /\ ready' = [ready EXCEPT ![cur[t]] = TRUE]
     /\ UNCHANGED <<live, refCount, mes, readerQueue, levelVars, roomVars,
                    op, lev, cur, buf, sig, waiters>>
  \/ /\ Goto(t, "ready", "wake_up_all")
     /\ mes' = [mes EXCEPT ![cur[t]] = buf[t]]
     /\ UNCHANGED <<live, refCount, ready, readerQueue, levelVars, roomVars,
                    op, lev, cur, buf, sig, waiters>>
  \/ SwapExange(t) \/ CountWriter(t) \/ WakeUpReaders(t)

SleepyWrite(t) ==   \* fault: the queue is woken before ready is set
  \/ /\ Goto(t, "ready", "wake_up_all")
     /\ readerQueue' = [readerQueue EXCEPT ![cur[t]] = {}]
     /\ UNCHANGED <<live, refCount, mes, ready, levelVars, roomVars,
                    op, lev, cur, buf, sig, waiters>>
  \/ /\ Goto(t, "wake_up_all", "free_read")
     /\ ready' = [ready EXCEPT ![cur[t]] = TRUE]
     /\ UNCHANGED <<live, refCount, mes, readerQueue, levelVars, roomVars,
                    op, lev, cur, buf, sig, waiters>>
  \/ SwapExange(t) \/ CountWriter(t) \/ FillExange(t)

Write(t) ==
  SwapExange(t) \/ CountWriter(t) \/ FillExange(t) \/ SetReady(t) \/ WakeUpReaders(t)

FaultyTryFree(t) ==   \* fault: the last holder does not wait for freeLockCnt
  \/ /\ Goto(t, "free_wait", "free_test")
     /\ UNCHANGED <<exVars, levelVars, roomVars, op, lev, cur, buf, sig, waiters>>
  \/ FreeEmpty(t) \/ DecNotOne(t) \/ DecAndTest(t)

TryFree(t) == FreeEmpty(t) \/ DecNotOne(t) \/ waitUntil_unlock(t) \/ DecAndTest(t)

Remove(t) == LoadForWaiters(t) \/ ReadWaiters(t) \/ RefuseRemove(t) \/ UnlinkRoom(t)

\* What a thread does on its own once it is inside a call.
Step(t) == Receive(t) \/ Write(t) \/ TryFree(t) \/ Remove(t) \/ Leave(t)

Call(t) ==
  \/ \E l \in 0 .. levelDeep : FindToReceive(t, l)
  \/ \E l \in 0 .. levelDeep, m \in Msgs : FindToSend(t, l, m)
  \/ FindToAwake(t) \/ FindToRemove(t) \/ FindNothing(t)

Next == \E t \in Threads : Call(t) \/ Signal(t) \/ Step(t)

Spec == Init /\ [][Next]_vars

\* A thread that can take a step inside a call is eventually scheduled; no
\* call is ever obliged to be made, no signal to arrive, no buffer to be mended.
FairSpec == Spec /\ \A t \in Threads : WF_vars(pc[t] # "copy" /\ Step(t))

-----------------------------------------------------------------------------
(* Properties *)

TypeOK ==
  /\ live \in [ExIds -> BOOLEAN]
  /\ refCount \in [ExIds -> Int]
  /\ mes \in [ExIds -> Contents \cup {NoMes}]
  /\ ready \in [ExIds -> BOOLEAN]
  /\ readerQueue \in [ExIds -> SUBSET Threads]
  /\ ex \in [Levels -> ExIds]
  /\ freeLockCnt \in [Levels -> Int]
  /\ trees \in SUBSET {"tag", "key"}
  /\ roomRef \in Int
  /\ searchLock \in Threads \cup {NoThread}
  /\ pc \in [Threads -> PCs]
  /\ op \in [Threads -> Ops]
  /\ lev \in [Threads -> Levels]
  /\ cur \in [Threads -> ExIds \cup {NoEx}]
  /\ buf \in [Threads -> Contents \cup {ERESTART, NoMes}]
  /\ sig \in [Threads -> BOOLEAN]
  /\ waiters \in [Threads -> Int]

\* Where a thread follows its pointer to an exchange, and where that pointer
\* is counted in the exchange.
HoldPCs == {"freeMem_unLock", "condition", "prepare", "recheck", "recheck_sig",
            "sleep", "woken", "copy", "fill", "ready", "wake_up_all"} \cup FreePCs
DerefPCs == HoldPCs \cup {"atomic_inc", "refcount_inc"}

Holders(x) == {t \in Threads : cur[t] = x /\ pc[t] \in HoldPCs}
InCall == {t \in Threads : pc[t] # "idle"}

\* No thread in tag_receive, tag_send or AWAKE_ALL ever follows a pointer to
\* an exchange that was freed, and the room it works in outlives its call:
\* what freeLockCnt and the two reference counts are for (tbde.h:57-60).
NoUseAfterFree ==
  /\ \A t \in Threads : pc[t] \in DerefPCs => live[cur[t]]
  /\ InCall # {} => roomRef > 0 /\ \A l \in Levels : live[ex[l]]

\* The count of an exchange is the number of threads that hold it, so the
\* thread that takes it to zero is the last one.
RefCountExact ==
  \A x \in ExIds : live[x] => refCount[x] = Cardinality(Holders(x))

\* The count of the room is the number of trees and calls that point to it.
RoomRefExact == roomRef = Cardinality(trees) + Cardinality(InCall)

\* Every live exchange can still be reached, from the room or from a thread:
\* nothing leaks.
NoOrphan ==
  \A x \in ExIds : live[x] =>
     \/ roomRef > 0 /\ x \in Current
     \/ \E t \in Threads : cur[t] = x /\ pc[t] \in DerefPCs

\* A thread that sleeps on a published exchange is still in its queue only
\* while the writer has yet to wake that queue (no lost wake-up).
NoLostWakeUp ==
  \A t \in Threads :
     pc[t] = "sleep" /\ ready[cur[t]] /\ t \in readerQueue[cur[t]] =>
        \E w \in Threads : pc[w] = "wake_up_all" /\ cur[w] = cur[t]

\* waitersInRoom reads the count of a live exchange.
WaitersReadLive ==
  \A t \in Threads : pc[t] = "waiters_read" => live[cur[t]]

\* REMOVE leaves nobody behind: a reader asleep in a room that no tag leads to
\* any more still has a writer on its way to it.
NoStrandedReader ==
  \A t \in Threads :
     pc[t] = "sleep" /\ cur[t] = ex[lev[t]] /\ trees = {} =>
        \E w \in Threads : pc[w] = "swap" /\ lev[w] = lev[t]

-----------------------------------------------------------------------------
(* What the room promises: Rendezvous.  A reader waits from the load of    *)
(* its level's exchange; swapping that exchange away captures it, with     *)
(* what the writer has in hand or has already published.                   *)

Content(x) ==
  IF \E w \in Threads : cur[w] = x /\ pc[w] \in {"refcount_inc", "fill"}
  THEN buf[CHOOSE w \in Threads : cur[w] = x /\ pc[w] \in {"refcount_inc", "fill"}]
  ELSE mes[x]

Phase(t) ==
  IF op[t] = "receive" /\ buf[t] # NoMes THEN "returned"
  ELSE IF pc[t] \in ReceivePCs \ {"freeMem_Lock", "load_ex"}
       THEN IF cur[t] = ex[lev[t]] THEN "waiting" ELSE "captured"
       ELSE "out"

phaseBar == [t \in Threads |-> Phase(t)]
whereBar == [t \in Threads |-> IF Phase(t) = "out" THEN NoEx ELSE lev[t]]
valBar == [t \in Threads |-> CASE Phase(t) = "returned" -> buf[t]
                               [] Phase(t) = "captured" -> Content(cur[t])
                               [] OTHER -> NoMes]

Abstract == INSTANCE Rendezvous
  WITH Values <- Contents, Interrupted <- ERESTART, NoValue <- NoMes,
       NoLevel <- NoEx, phase <- phaseBar, where <- whereBar, val <- valBar

\* Every behaviour of the code is one of the rendezvous: one writer captures
\* exactly the readers waiting at its swap, and each returns that writer's
\* message or is interrupted.
Implements == Abstract!Spec

-----------------------------------------------------------------------------
(* Liveness, under FairSpec *)

\* A captured reader returns (with the message, by Implements), whatever becomes
\* of the others, those that copy for ever into a bad buffer included; it does
\* not when its own buffer can never be written (data2UserForce).
CapturedReturns ==
  \A t \in Threads :
    []<>(pc[t] # "copy") => (Phase(t) = "captured" ~> Phase(t) = "returned")

\* The spin of the last holder ends once readers stop entering: then every
\* writer returns, AWAKE_ALL with the write lock it held meanwhile.
WritersReturn ==
  <>[](\A l \in Levels : freeLockCnt[l] = 0) =>
     \A t \in Threads : op[t] \in {"send", "awake"} ~> op[t] = "none"

-----------------------------------------------------------------------------
(* The inductive invariant behind NoUseAfterFree and the exact counts; it  *)
(* holds for either kind of kernel, with and without signals.              *)

InLock(l) == {t \in Threads : pc[t] \in {"load_ex", "atomic_inc", "freeMem_unLock"}
                              /\ lev[t] = l}

Counted(x) == refCount[x] = Cardinality(Holders(x))

\* A count that saturated never comes back to 1, so it frees nothing.
Saturated(x) ==
  /\ RefcountKind = "saturates"
  /\ refCount[x] >= REFCOUNT_SATURATED
  /\ refCount[x] <= REFCOUNT_SATURATED + Cardinality(Holders(x))
  /\ \A t \in Holders(x) : pc[t] \notin {"free_wait", "free_test"}

CountInv == \A x \in ExIds : Counted(x) \/ Saturated(x)

LockInv == \A l \in Levels : freeLockCnt[l] = Cardinality(InLock(l))

\* REMOVE works alone, on a room that is still indexed.
TreesInv ==
  /\ trees \in {{}, {"tag"}, {"tag", "key"}}
  /\ \A t \in Threads : pc[t] \in RemovePCs => searchLock = t /\ "tag" \in trees

LiveInv ==
  /\ \A t \in Threads : pc[t] \in DerefPCs => cur[t] \in ExIds /\ live[cur[t]]
  /\ \A t \in Threads : pc[t] = "waiters_read" => cur[t] \in ExIds
  /\ roomRef > 0 => \A l \in Levels : live[ex[l]]
  /\ \A x \in ExIds : ready[x] => live[x] /\ x \notin Current

\* An exchange belongs to one level all its life.
LevelInv ==
  /\ \A k, l \in Levels : ex[k] = ex[l] => k = l
  /\ \A t \in Threads, l \in Levels :
       pc[t] \in DerefPCs /\ cur[t] = ex[l] => lev[t] = l
  /\ \A t, u \in Threads :
       pc[t] \in DerefPCs /\ pc[u] \in DerefPCs /\ cur[t] = cur[u] => lev[t] = lev[u]

\* The exchange a writer took out of the room has no other writer, and is not
\* ready until that writer says so.
FillPCs == {"refcount_inc", "fill", "ready"}
WriterInv ==
  /\ \A t \in Threads : pc[t] \in FillPCs => cur[t] \notin Current /\ ~ready[cur[t]]
  /\ \A t, u \in Threads :
       pc[t] \in FillPCs /\ pc[u] \in FillPCs /\ cur[t] = cur[u] => t = u
  /\ \A t \in Threads : pc[t] \in WritePCs => buf[t] \in Contents
  /\ \A t \in Threads : op[t] = "awake" => buf[t] \in Contents \/ pc[t] = "leave"
  /\ \A t \in Threads : pc[t] \in ReceivePCs => op[t] = "receive"

\* Only a published exchange is freed, and not while a reader that loaded its
\* address has yet to count itself.
FreeInv ==
  /\ \A t \in Threads : pc[t] \in {"woken", "copy", "wake_up_all"} => ready[cur[t]]
  /\ \A t \in Threads : pc[t] \in FreePCs /\ execFree(t) => ready[cur[t]]
  /\ \A t, u \in Threads :
       pc[t] = "free_test" /\ execFree(t) /\ pc[u] = "atomic_inc" => cur[t] # cur[u]

\* Which call a thread is in, by place; a reader has nothing in hand until it
\* takes the message, and then something; what is published has a content.
CallInv ==
  /\ \A t \in Threads :
       /\ pc[t] = "idle" => op[t] = "none"
       /\ pc[t] \in ReceivePCs => buf[t] = NoMes
       /\ pc[t] \in WritePCs => op[t] \in {"send", "awake"}
       /\ pc[t] \in RemovePCs => op[t] = "remove"
       /\ pc[t] \in FreePCs /\ op[t] = "receive" => buf[t] # NoMes
       /\ pc[t] = "ready" => mes[cur[t]] \in Contents
  /\ \A x \in ExIds : ready[x] => mes[x] \in Contents

IInv == TypeOK /\ CountInv /\ LockInv /\ RoomRefExact /\ TreesInv /\ LiveInv
        /\ LevelInv /\ WriterInv /\ FreeInv /\ CallInv

=============================================================================
