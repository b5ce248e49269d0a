--------------------------- MODULE RendezvousProofs ---------------------------
(***************************************************************************)
(* The room implements the rendezvous: every step of a thread is one step  *)
(* of Rendezvous under the mapping of ChatRoom, or none.  The load of the  *)
(* exchange joins, the swap captures, the end of the wait returns, a       *)
(* signal seen interrupts, and the end of the call leaves.                 *)
(***************************************************************************)
EXTENDS ChatRoomProofs

-----------------------------------------------------------------------------
(* The content of an exchange: what its writer has in hand, or published. *)

HandPCs == {"refcount_inc", "fill"}
HasWriter(x) == \E w \in Threads : cur[w] = x /\ pc[w] \in HandPCs

\* While an exchange has a writer, there is one, and its content is in hand.
LEMMA ContentInHand ==
  IInv => \A w \in Threads : pc[w] \in HandPCs => Content(cur[w]) = buf[w]
<1> SUFFICES ASSUME IInv, NEW w \in Threads, pc[w] \in HandPCs
             PROVE  Content(cur[w]) = buf[w]
  OBVIOUS
<1>1. \A v \in Threads : cur[v] = cur[w] /\ pc[v] \in HandPCs <=> v = w
  BY DEF IInv, WriterInv, FillPCs, HandPCs
<1>2. (CHOOSE v \in Threads : cur[v] = cur[w] /\ pc[v] \in HandPCs) = w
  BY <1>1
<1>3. HasWriter(cur[w])
  BY DEF HasWriter
<1> QED
  BY <1>2, <1>3 DEF Content, HasWriter, HandPCs

\* An exchange without a writer has the content that is stored in it.
LEMMA ContentStored == \A x \in ExIds : ~HasWriter(x) => Content(x) = mes[x]
BY DEF Content, HasWriter, HandPCs

\* The same after a step.
LEMMA ContentNext ==
  /\ IInv' => (\A w \in Threads : pc[w] \in HandPCs => Content(cur[w]) = buf[w])'
  /\ (\A x \in ExIds : ~HasWriter(x) => Content(x) = mes[x])'
BY ContentInHand, ContentStored, PTL

\* How a thread gets to, and stays in, the steps with the content in hand.
LEMMA HandStep ==
  ASSUME IInv, NEW t \in Threads, Call(t) \/ Signal(t) \/ Step(t)
  PROVE  /\ pc'[t] \in HandPCs => \/ SwapExange(t)
                                  \/ pc[t] \in HandPCs /\ cur'[t] = cur[t]
         /\ pc[t] \in HandPCs => \/ pc'[t] \in HandPCs /\ UNCHANGED <<cur, buf>>
                                 \/ FillExange(t)
<1> USE DEF vars, Goto, HandPCs, IInv, TypeOK
<1>1. CASE Call(t)
  BY <1>1 DEF Call, FindToReceive, FindToSend, FindToAwake, FindToRemove, FindNothing, Find, Admitted
<1>2. CASE Signal(t)
  BY <1>2 DEF Signal
<1>3. CASE Receive(t)
  BY <1>3 DEF Receive, freeMem_Lock, LoadExange, CountReader, freeMem_unLock, TestCondition,
     PrepareToWait, RecheckCondition, RecheckWithSignal, WakeUp, TakeMessage, CopyFaults,
     CopyRetried
<1>4. CASE Write(t)
  BY <1>4 DEF Write, SwapExange, CountWriter, FillExange, SetReady, WakeUpReaders
<1>5. CASE TryFree(t)
  BY <1>5 DEF TryFree, FreeEmpty, DecNotOne, waitUntil_unlock, DecAndTest, Released
<1>6. CASE Remove(t)
  BY <1>6 DEF Remove, LoadForWaiters, ReadWaiters, RefuseRemove, UnlinkRoom
<1>7. CASE Leave(t)
  BY <1>7 DEF Leave
<1> QED
  BY <1>1, <1>2, <1>3, <1>4, <1>5, <1>6, <1>7 DEF Step

\* The content of a live exchange does not change, not even when its writer
\* stores it: only the swap that takes it out of the room gives it one.
LEMMA ContentStays ==
  ASSUME IInv, IInv', NEW t \in Threads, Call(t) \/ Signal(t) \/ Step(t),
         NEW x \in ExIds, live'[x], SwapExange(t) => x # ex[lev[t]]
  PROVE  Content(x)' = Content(x)
<1> USE DEF IInv, TypeOK
<1>0. /\ \A w \in Threads : pc'[w] \in HandPCs => Content(cur[w])' = buf'[w]
      /\ ~HasWriter(x)' => Content(x)' = mes'[x]
  BY ContentNext
<1>1. ASSUME NEW w \in Threads, w # t, cur[w] = x, pc[w] \in HandPCs
      PROVE  Content(x)' = Content(x)
  <2>1. cur'[w] = x /\ pc'[w] \in HandPCs /\ buf'[w] = buf[w]
    BY <1>1, OthersStay
  <2> QED
    BY <1>0, <1>1, <2>1, ContentInHand
<1>2. CASE cur[t] = x /\ pc[t] \in HandPCs
  <2>1. Content(x) = buf[t]
    BY <1>2, ContentInHand
  <2>2. CASE pc'[t] \in HandPCs /\ UNCHANGED <<cur, buf>>
    BY <1>0, <1>2, <2>1, <2>2
  <2>3. CASE FillExange(t)
    <3>1. mes'[x] = buf[t] /\ pc'[t] \notin HandPCs
      BY <1>2, <2>3 DEF FillExange, Goto, HandPCs
    <3>2. ~HasWriter(x)'
      <4>1. SUFFICES ASSUME NEW w \in Threads, cur'[w] = x, pc'[w] \in HandPCs
                     PROVE  FALSE
        BY DEF HasWriter
      <4>2. w # t /\ cur[w] = x /\ pc[w] \in HandPCs
        BY <3>1, <4>1, OthersStay
      <4> QED
        BY <1>2, <4>2 DEF WriterInv, FillPCs, HandPCs
    <3> QED
      BY <1>0, <2>1, <3>1, <3>2
  <2> QED
    BY <1>2, <2>2, <2>3, HandStep
<1>3. CASE ~HasWriter(x)
  <2>1. ~HasWriter(x)'
    <3>1. SUFFICES ASSUME NEW w \in Threads, cur'[w] = x, pc'[w] \in HandPCs
                   PROVE  FALSE
      BY DEF HasWriter
    <3>2. CASE w # t
      BY <1>3, <3>1, <3>2, OthersStay DEF HasWriter
    <3>3. CASE w = t /\ SwapExange(t)
      BY <3>1, <3>3 DEF SwapExange
    <3>4. CASE w = t /\ ~SwapExange(t)
      BY <1>3, <3>1, <3>4, HandStep DEF HasWriter
    <3> QED
      BY <3>2, <3>3, <3>4
  <2>2. mes'[x] = mes[x]
    <3>1. FillExange(t) => x # cur[t]
      BY <1>3 DEF FillExange, Goto, HasWriter, HandPCs
    <3> QED
      BY <3>1, ContentStep
  <2> QED
    BY <1>0, <1>3, <2>1, <2>2, ContentStored
<1> QED
  BY <1>1, <1>2, <1>3 DEF HasWriter

-----------------------------------------------------------------------------
(* A step of one thread, seen by the rendezvous *)

WaitPCs == ReceivePCs \ {"freeMem_Lock", "load_ex"}

\* The value a thread's part of the rendezvous has.
Where(t) == IF Phase(t) = "out" THEN NoEx ELSE lev[t]
Val(t) == CASE Phase(t) = "returned" -> buf[t]
            [] Phase(t) = "captured" -> Content(cur[t])
            [] OTHER -> NoMes

\* The rendezvous sees nothing of thread u in this step.
Unseen(u) == Phase(u)' = Phase(u) /\ Where(u)' = Where(u) /\ Val(u)' = Val(u)

\* A thread that keeps its call, its level, its exchange and what it has in
\* hand, and does not join or leave a wait, is not seen.
LEMMA UnseenFrame ==
  ASSUME IInv, IInv', NEW t \in Threads, Call(t) \/ Signal(t) \/ Step(t), ~SwapExange(t),
         NEW u \in Threads, op'[u] = op[u], buf'[u] = buf[u], lev'[u] = lev[u],
         pc[u] \in WaitPCs <=> pc'[u] \in WaitPCs,
         pc[u] \in WaitPCs => cur'[u] = cur[u]
  PROVE  Unseen(u)
<1>1. ex' = ex
  BY MemoryStep
<1>2. Phase(u)' = Phase(u)
  BY <1>1 DEF Phase, WaitPCs
<1>3. Phase(u) = "captured" => Content(cur[u])' = Content(cur[u])
  <2>1. Phase(u) = "captured" => pc[u] \in WaitPCs
    BY DEF Phase, WaitPCs
  <2>2. pc'[u] \in WaitPCs => cur'[u] \in ExIds /\ live'[cur'[u]]
    BY DEF IInv, LiveInv, WaitPCs, ReceivePCs, DerefPCs, HoldPCs
  <2>3. cur'[u] = cur[u] /\ cur[u] \in ExIds /\ live'[cur[u]] => Content(cur[u])' = Content(cur[u])
    <3> SUFFICES ASSUME cur'[u] = cur[u], cur[u] \in ExIds, live'[cur[u]]
                 PROVE  Content(cur[u])' = Content(cur[u])
      OBVIOUS
    <3>1. PICK x \in ExIds : x = cur[u]
      OBVIOUS
    <3>2. Content(x)' = Content(x)
      BY <3>1, ContentStays
    <3> QED
      BY <3>1, <3>2
  <2> QED
    BY <2>1, <2>2, <2>3
<1> QED
  BY <1>2, <1>3 DEF Unseen, Where, Val

\* Only a swap is seen by a thread that takes no step.
LEMMA OthersUnseen ==
  ASSUME IInv, IInv', NEW t \in Threads, Call(t) \/ Signal(t) \/ Step(t), ~SwapExange(t),
         NEW u \in Threads, u # t
  PROVE  Unseen(u)
BY OthersStay, UnseenFrame

\* A thread that is not, and was not, in tag_receive is not seen.
LEMMA OutUnseen ==
  ASSUME IInv, IInv', NEW u \in Threads, Phase(u) = "out", Phase(u)' = "out"
  PROVE  Unseen(u)
BY DEF Unseen, Where, Val

\* The load of the exchange joins its level.
LEMMA LoadJoins ==
  ASSUME IInv, IInv', NEW t \in Threads, LoadExange(t)
  PROVE  /\ Phase(t) = "out" /\ Phase(t)' = "waiting"
         /\ Where(t)' = lev[t] /\ Val(t)' = Val(t)
<1> USE DEF IInv, TypeOK
<1>1. pc[t] = "load_ex" /\ pc'[t] = "atomic_inc" /\ buf'[t] = buf[t] /\ op'[t] = op[t]
      /\ cur'[t] = ex'[lev'[t]] /\ lev'[t] = lev[t]
  BY DEF LoadExange, Goto, levelVars
<1>2. buf[t] = NoMes
  BY <1>1 DEF CallInv, ReceivePCs
<1>3. Phase(t) = "out" /\ Phase(t)' = "waiting"
  BY <1>1, <1>2 DEF Phase, ReceivePCs
<1> QED
  BY <1>1, <1>3 DEF Where, Val

\* The end of the wait returns what the exchange holds, to a captured reader.
LEMMA TakeReturns ==
  ASSUME IInv, IInv', NEW t \in Threads, TakeMessage(t) \/ CopyRetried(t)
  PROVE  /\ Phase(t) = "captured" /\ Phase(t)' = "returned"
         /\ Where(t)' = Where(t) /\ Val(t)' = Val(t)
<1> USE DEF IInv, TypeOK
<1>1. /\ pc[t] \in {"woken", "copy"} /\ buf'[t] = mes[cur[t]]
      /\ op'[t] = op[t] /\ lev'[t] = lev[t]
  BY DEF TakeMessage, CopyRetried, Goto
<1>2. op[t] = "receive" /\ buf[t] = NoMes /\ cur[t] \in ExIds /\ ready[cur[t]]
  BY <1>1 DEF CallInv, WriterInv, FreeInv, LiveInv, ReceivePCs, DerefPCs, HoldPCs
<1>3. mes[cur[t]] \in Contents /\ mes[cur[t]] # NoMes
  BY <1>2, ConstantsAssumption DEF CallInv, Contents
<1>4. ~HasWriter(cur[t])
  BY <1>2 DEF HasWriter, HandPCs, WriterInv, FillPCs
<1>5. Content(cur[t]) = mes[cur[t]]
  BY <1>2, <1>4, ContentStored
<1>6. cur[t] # ex[lev[t]]
  BY <1>2 DEF LiveInv, Current
<1>7. Phase(t) = "captured" /\ Phase(t)' = "returned"
  BY <1>1, <1>2, <1>3, <1>6 DEF Phase, ReceivePCs
<1> QED
  BY <1>1, <1>5, <1>7 DEF Where, Val

\* A signal seen interrupts, a waiting or a captured reader.
LEMMA SignalInterrupts ==
  ASSUME IInv, IInv', NEW t \in Threads, RecheckWithSignal(t), ~ready[cur[t]]
  PROVE  /\ Phase(t) \in {"waiting", "captured"} /\ Phase(t)' = "returned"
         /\ Where(t)' = Where(t) /\ Val(t)' = ERESTART
<1> USE DEF IInv, TypeOK
<1>1. /\ pc[t] = "recheck_sig" /\ buf'[t] = ERESTART /\ op'[t] = op[t] /\ lev'[t] = lev[t]
  BY DEF RecheckWithSignal, Goto
<1>2. op[t] = "receive" /\ buf[t] = NoMes /\ ERESTART # NoMes
  BY <1>1, ConstantsAssumption DEF CallInv, WriterInv, ReceivePCs
<1>3. Phase(t) \in {"waiting", "captured"} /\ Phase(t)' = "returned"
  BY <1>1, <1>2 DEF Phase, ReceivePCs
<1> QED
  BY <1>1, <1>3 DEF Where, Val

\* The end of a receive that returned leaves; any other call is not seen to end.
LEMMA LeaveLeaves ==
  ASSUME IInv, IInv', NEW t \in Threads, Leave(t)
  PROVE  \/ Unseen(t)
         \/ /\ Phase(t) = "returned" /\ Phase(t)' = "out"
            /\ Where(t)' = NoEx /\ Val(t)' = NoMes
<1> USE DEF IInv, TypeOK
<1>1. pc[t] = "leave" /\ op'[t] = "none" /\ pc'[t] = "idle"
  BY DEF Leave, Goto
<1>2. Phase(t) \in {"out", "returned"} /\ Phase(t)' = "out"
  BY <1>1 DEF Phase, ReceivePCs
<1> QED
  BY <1>2, OutUnseen DEF Where, Val

\* A thread on its way to free its exchange is not seen.
LEMMA FreeUnseen ==
  ASSUME IInv, IInv', NEW t \in Threads, TryFree(t)
  PROVE  Unseen(t)
<1> USE DEF IInv, TypeOK
<1>1. /\ pc[t] \in FreePCs /\ op'[t] = op[t] /\ buf'[t] = buf[t]
      /\ pc'[t] \notin ReceivePCs
      /\ op[t] # "awake" => lev'[t] = lev[t]
  BY DEF TryFree, FreeEmpty, DecNotOne, waitUntil_unlock, DecAndTest, Released, Goto, FreePCs,
     ReceivePCs
<1>2. CASE op[t] = "receive"
  <2>1. buf[t] # NoMes
    BY <1>1, <1>2 DEF CallInv
  <2>2. Phase(t) = "returned" /\ Phase(t)' = "returned"
    BY <1>1, <1>2, <2>1 DEF Phase
  <2> QED
    BY <1>1, <1>2, <2>2 DEF Unseen, Where, Val
<1>3. CASE op[t] # "receive"
  <2>1. Phase(t) = "out" /\ Phase(t)' = "out"
    BY <1>1, <1>3 DEF Phase, FreePCs, ReceivePCs
  <2> QED
    BY <2>1, OutUnseen
<1> QED
  BY <1>2, <1>3

\* A call is not seen until it loads an exchange.
LEMMA CallUnseen ==
  ASSUME IInv, IInv', NEW t \in Threads, Call(t)
  PROVE  Unseen(t)
<1> USE DEF IInv, TypeOK, Goto, vars
<1>1. ASSUME NEW o, NEW l, NEW b, NEW first, Find(t, o, l, b, first),
             o = "receive" => b = NoMes,
             first \notin WaitPCs
      PROVE  Unseen(t)
  <2>1. pc[t] = "idle" /\ op[t] = "none"
    BY <1>1 DEF Find, CallInv
  <2>2. Phase(t) = "out"
    BY <2>1 DEF Phase, ReceivePCs
  <2>3. pc'[t] \notin WaitPCs /\ (op'[t] = "receive" => buf'[t] = NoMes)
    BY <1>1 DEF Find, Admitted, WaitPCs, ReceivePCs
  <2>4. Phase(t)' = "out"
    BY <2>3 DEF Phase, WaitPCs
  <2> QED
    BY <2>2, <2>4, OutUnseen
<1>2. CASE FindNothing(t)
  BY <1>2 DEF FindNothing, Unseen, Phase, Where, Val, Content, exVars, levelVars
<1>3. CASE ~FindNothing(t)
  BY <1>1, <1>3 DEF Call, FindToReceive, FindToSend, FindToAwake, FindToRemove, WaitPCs,
     ReceivePCs
<1> QED
  BY <1>2, <1>3

\* What the rendezvous sees of the thread that takes a step other than a swap.
LEMMA OwnStep ==
  ASSUME IInv, IInv', NEW t \in Threads, Call(t) \/ Signal(t) \/ Step(t), ~SwapExange(t)
  PROVE  \/ Unseen(t)
         \/ /\ Phase(t) = "out" /\ Phase(t)' = "waiting"
            /\ Where(t)' = lev[t] /\ Val(t)' = Val(t)
         \/ /\ Phase(t) = "captured" /\ Phase(t)' = "returned"
            /\ Where(t)' = Where(t) /\ Val(t)' = Val(t)
         \/ /\ Phase(t) \in {"waiting", "captured"} /\ Phase(t)' = "returned"
            /\ Where(t)' = Where(t) /\ Val(t)' = ERESTART
         \/ /\ Phase(t) = "returned" /\ Phase(t)' = "out"
            /\ Where(t)' = NoEx /\ Val(t)' = NoMes
<1> USE DEF IInv, TypeOK
<1>1. CASE Call(t)
  BY <1>1, CallUnseen
<1>2. CASE Signal(t)
  BY <1>2, UnseenFrame DEF Signal
<1>3. CASE Receive(t)
  <2>1. CASE LoadExange(t)
    BY <2>1, LoadJoins
  <2>2. CASE TakeMessage(t) \/ CopyRetried(t)
    BY <2>2, TakeReturns
  <2>3. CASE RecheckWithSignal(t) /\ ~ready[cur[t]]
    BY <2>3, SignalInterrupts
  <2>4. CASE RecheckWithSignal(t) /\ ready[cur[t]]
    <3>1. buf[t] = NoMes
      BY <2>4 DEF RecheckWithSignal, Goto, CallInv, ReceivePCs
    <3>2. /\ op'[t] = op[t] /\ lev'[t] = lev[t] /\ buf'[t] = NoMes /\ cur'[t] = cur[t]
          /\ pc[t] \in WaitPCs /\ pc'[t] \in WaitPCs
      BY <2>4 DEF RecheckWithSignal, Goto, WaitPCs, ReceivePCs
    <3> QED
      BY <3>1, <3>2, UnseenFrame
  <2>5. CASE ~LoadExange(t) /\ ~TakeMessage(t) /\ ~CopyRetried(t) /\ ~RecheckWithSignal(t)
    <3>1. /\ op'[t] = op[t] /\ lev'[t] = lev[t] /\ buf'[t] = buf[t] /\ cur'[t] = cur[t]
          /\ pc[t] \in WaitPCs <=> pc'[t] \in WaitPCs
      BY <1>3, <2>5 DEF Receive, freeMem_Lock, CountReader, freeMem_unLock, TestCondition,
         PrepareToWait, RecheckCondition, WakeUp, CopyFaults, Goto, WaitPCs, ReceivePCs
    <3> QED
      BY <3>1, UnseenFrame
  <2> QED
    BY <2>1, <2>2, <2>3, <2>4, <2>5
<1>4. CASE Write(t)
  <2>1. /\ op'[t] = op[t] /\ lev'[t] = lev[t] /\ buf'[t] = buf[t]
        /\ pc[t] \notin WaitPCs /\ pc'[t] \notin WaitPCs
    BY <1>4 DEF Write, CountWriter, FillExange, SetReady, WakeUpReaders, Goto, WaitPCs, ReceivePCs
  <2> QED
    BY <2>1, UnseenFrame
<1>5. CASE TryFree(t)
  BY <1>5, FreeUnseen
<1>6. CASE Remove(t)
  <2>1. /\ pc[t] \in RemovePCs /\ pc'[t] \notin WaitPCs /\ op'[t] = op[t]
    BY <1>6 DEF Remove, LoadForWaiters, ReadWaiters, RefuseRemove, UnlinkRoom, Goto, WaitPCs,
       ReceivePCs, RemovePCs
  <2>2. op[t] = "remove" /\ pc[t] \notin WaitPCs
    BY <2>1 DEF CallInv, WaitPCs, ReceivePCs, RemovePCs
  <2>3. Phase(t) = "out" /\ Phase(t)' = "out"
    BY <2>1, <2>2 DEF Phase, WaitPCs
  <2> QED
    BY <2>3, OutUnseen
<1>7. CASE Leave(t)
  BY <1>7, LeaveLeaves
<1> QED
  BY <1>1, <1>2, <1>3, <1>4, <1>5, <1>6, <1>7 DEF Step

\* The swap captures exactly the readers waiting at its level, with what the
\* writer has in hand, and nobody else sees it.
LEMMA SwapCaptures ==
  ASSUME IInv, IInv', NEW t \in Threads, Step(t), SwapExange(t), NEW u \in Threads
  PROVE  IF Phase(u) = "waiting" /\ Where(u) = lev[t]
         THEN Phase(u)' = "captured" /\ Where(u)' = Where(u) /\ Val(u)' = buf[t]
         ELSE Unseen(u)
<1> USE DEF IInv, TypeOK
<1>0. PICK new \in ExIds :
         /\ ~live[new] /\ \A v \in Threads : cur[v] # new
         /\ ex' = [ex EXCEPT ![lev[t]] = new]
         /\ cur' = [cur EXCEPT ![t] = ex[lev[t]]]
  BY DEF SwapExange
<1>1. pc[t] = "swap" /\ pc'[t] = "refcount_inc" /\ op'[t] = op[t] /\ buf'[t] = buf[t]
  BY DEF SwapExange, Goto
<1>2. CASE u = t
  <2>1. op[t] # "receive"
    BY <1>1 DEF CallInv, WritePCs
  <2>2. Phase(t) = "out" /\ Phase(t)' = "out"
    BY <1>1, <2>1 DEF Phase, ReceivePCs
  <2> QED
    BY <1>2, <2>2, OutUnseen
<1>3. CASE u # t
  <2>0. /\ pc'[u] = pc[u] /\ op'[u] = op[u] /\ lev'[u] = lev[u]
        /\ cur'[u] = cur[u] /\ buf'[u] = buf[u]
    BY <1>3, OthersStay
  <2>1. pc[u] \in WaitPCs => /\ cur[u] \in ExIds /\ live'[cur[u]] /\ pc[u] \in DerefPCs
    BY <2>0 DEF LiveInv, WaitPCs, ReceivePCs, DerefPCs, HoldPCs
  <2>2. CASE Phase(u) = "waiting" /\ Where(u) = lev[t]
    <3>1. pc[u] \in WaitPCs /\ lev[u] = lev[t] /\ cur[u] = ex[lev[t]]
      BY <2>2 DEF Phase, Where, WaitPCs
    <3>2. cur'[u] # ex'[lev'[u]]
      BY <1>0, <2>0, <3>1
    <3>3. Phase(u)' = "captured"
      BY <2>0, <2>2, <3>2 DEF Phase
    <3>4. cur'[t] = cur'[u] /\ pc'[t] \in HandPCs
      BY <1>0, <1>1, <2>0, <3>1 DEF HandPCs
    <3>5. Content(cur[u])' = buf[t]
      BY <1>1, <3>4, ContentNext
    <3> QED
      BY <2>0, <2>2, <3>3, <3>5 DEF Where, Val
  <2>3. CASE ~(Phase(u) = "waiting" /\ Where(u) = lev[t])
    <3>1. pc[u] \in WaitPCs => (cur'[u] = ex'[lev'[u]] <=> cur[u] = ex[lev[u]])
          \/ Phase(u) = "returned"
      BY <1>0, <2>0, <2>3 DEF Phase, Where, WaitPCs
    <3>2. Phase(u)' = Phase(u)
      BY <2>0, <3>1 DEF Phase, WaitPCs
    <3>3. Phase(u) = "captured" => Content(cur[u])' = Content(cur[u])
      <4>1. SUFFICES ASSUME Phase(u) = "captured"
                     PROVE  Content(cur[u])' = Content(cur[u])
        OBVIOUS
      <4>2. pc[u] \in WaitPCs /\ cur[u] # ex[lev[u]]
        BY <4>1 DEF Phase, WaitPCs
      <4>3. cur[u] # ex[lev[t]]
        BY <2>1, <4>2 DEF LevelInv
      <4>4. PICK x \in ExIds : x = cur[u]
        BY <2>1, <4>2
      <4>5. Content(x)' = Content(x)
        BY <2>1, <4>2, <4>3, <4>4, ContentStays
      <4> QED
        BY <2>0, <4>4, <4>5
    <3> QED
      BY <2>0, <2>3, <3>2, <3>3 DEF Unseen, Where, Val
  <2> QED
    BY <2>2, <2>3
<1> QED
  BY <1>2, <1>3

-----------------------------------------------------------------------------
(* The refinement *)

\* The mapping, thread by thread.
LEMMA Mapping ==
  /\ phaseBar = [u \in Threads |-> Phase(u)]
  /\ whereBar = [u \in Threads |-> Where(u)]
  /\ valBar = [u \in Threads |-> Val(u)]
BY DEF phaseBar, whereBar, valBar, Where, Val

\* The same after a step.
LEMMA MappingNext ==
  /\ phaseBar' = [u \in Threads |-> Phase(u)']
  /\ whereBar' = [u \in Threads |-> Where(u)']
  /\ valBar' = [u \in Threads |-> Val(u)']
<1>1. /\ (phaseBar = [u \in Threads |-> Phase(u)])'
      /\ (whereBar = [u \in Threads |-> Where(u)])'
      /\ (valBar = [u \in Threads |-> Val(u)])'
  BY Mapping, PTL
<1> QED
  BY <1>1

\* Every step of a thread is a step of the rendezvous, or none.
LEMMA StepSimulation ==
  ASSUME IInv, IInv', NEW t \in Threads, Call(t) \/ Signal(t) \/ Step(t)
  PROVE  [Abstract!Next]_(Abstract!avars)
<1> USE Mapping, MappingNext
<1>0. lev[t] \in Levels
  BY DEF IInv, TypeOK
<1>1. CASE SwapExange(t)
  <2>1. Step(t)
    BY <1>1 DEF Step, Write
  <2>2. buf[t] \in Contents
    BY <1>1 DEF SwapExange, Goto, IInv, WriterInv, WritePCs
  <2>3. \A u \in Threads :
           IF Phase(u) = "waiting" /\ Where(u) = lev[t]
           THEN Phase(u)' = "captured" /\ Where(u)' = Where(u) /\ Val(u)' = buf[t]
           ELSE Phase(u)' = Phase(u) /\ Where(u)' = Where(u) /\ Val(u)' = Val(u)
    BY <1>1, <2>1, SwapCaptures DEF Unseen
  <2>4. Abstract!Send(lev[t], buf[t])
    BY <2>3 DEF Abstract!Send, Abstract!WaitingAt
  <2> QED
    BY <1>0, <2>2, <2>4 DEF Abstract!Next
<1>2. CASE ~SwapExange(t)
  <2>1. \A u \in Threads \ {t} :
           Phase(u)' = Phase(u) /\ Where(u)' = Where(u) /\ Val(u)' = Val(u)
    BY <1>2, OthersUnseen DEF Unseen
  <2>2. CASE Unseen(t)
    BY <2>1, <2>2 DEF Unseen, Abstract!avars
  <2>3. CASE /\ Phase(t) = "out" /\ Phase(t)' = "waiting"
             /\ Where(t)' = lev[t] /\ Val(t)' = Val(t)
    <3>1. Abstract!Join(t, lev[t])
      BY <2>1, <2>3 DEF Abstract!Join
    <3> QED
      BY <1>0, <3>1 DEF Abstract!Next
  <2>4. CASE /\ Phase(t) = "captured" /\ Phase(t)' = "returned"
             /\ Where(t)' = Where(t) /\ Val(t)' = Val(t)
    <3>1. Abstract!Return(t)
      BY <2>1, <2>4 DEF Abstract!Return
    <3> QED
      BY <3>1 DEF Abstract!Next
  <2>5. CASE /\ Phase(t) \in {"waiting", "captured"} /\ Phase(t)' = "returned"
             /\ Where(t)' = Where(t) /\ Val(t)' = ERESTART
    <3>1. Abstract!Interrupt(t)
      BY <2>1, <2>5 DEF Abstract!Interrupt
    <3> QED
      BY <3>1 DEF Abstract!Next
  <2>6. CASE /\ Phase(t) = "returned" /\ Phase(t)' = "out"
             /\ Where(t)' = NoEx /\ Val(t)' = NoMes
    <3>1. Abstract!Leave(t)
      BY <2>1, <2>6 DEF Abstract!Leave
    <3> QED
      BY <3>1 DEF Abstract!Next
  <2> QED
    BY <1>2, <2>2, <2>3, <2>4, <2>5, <2>6, OwnStep
<1> QED
  BY <1>1, <1>2

\* Every behaviour of the code is one of the rendezvous, with any number of
\* threads, levels and addresses, on any kernel, with and without signals.
THEOREM RoomImplementsRendezvous == Spec => Implements
<1>1. Init => Abstract!Init
  <2> SUFFICES ASSUME Init PROVE Abstract!Init
    OBVIOUS
  <2>1. \A u \in Threads : Phase(u) = "out" /\ Where(u) = NoEx /\ Val(u) = NoMes
    BY DEF Init, Phase, ReceivePCs, Where, Val
  <2> QED
    BY <2>1, Mapping DEF Abstract!Init
<1>2. IInv /\ IInv' /\ [Next]_vars => [Abstract!Next]_(Abstract!avars)
  <2>1. ASSUME UNCHANGED vars
        PROVE  UNCHANGED Abstract!avars
    BY <2>1 DEF vars, exVars, levelVars, roomVars, Abstract!avars, phaseBar, whereBar, valBar,
       Phase, Content
  <2> QED
    BY <2>1, StepSimulation DEF Next
<1> QED
  BY <1>1, <1>2, Inductive, PTL DEF Spec, Implements, Abstract!Spec
=============================================================================
