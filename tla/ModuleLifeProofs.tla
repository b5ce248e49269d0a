-------------------------- MODULE ModuleLifeProofs --------------------------
(***************************************************************************)
(* The life of the module, for any finite sets of threads and files, any   *)
(* memory, any entries that other modules borrow, and any lengths.         *)
(***************************************************************************)
EXTENDS ModuleLife, SyscallTableProofs, StatusDeviceProofs

DevicePCs == {"walk", "no_trees", "read", "store", "seek"}

-----------------------------------------------------------------------------
(* The device *)

\* A thread begins to open a file that nobody has.
LEMMA OpeningKeeps ==
  ASSUME IInv, NEW t \in Threads, NEW f \in Files, OpenDevice(t, f)
  PROVE  DeviceSafe'
<1> USE DEF IInv, TypeOK, DeviceTypes, DeviceSafe
<1>1. /\ ~open[f] /\ Users(f) = {} /\ pc[t] = "idle"
      /\ pc' = [pc EXCEPT ![t] = "walk"] /\ fd' = [fd EXCEPT ![t] = f]
      /\ UNCHANGED <<open, size, pos, off, accounted>>
  BY DEF OpenDevice, try_module_get, Goto
<1>2. fd[t] = NoFile /\ off[t] = 0
  BY <1>1 DEF DeviceInv
<1>3. DeviceTypes' /\ TextFits' /\ NothingSkipped' /\ PosInBounds'
  BY <1>1 DEF TextFits, NothingSkipped, PosInBounds
<1>4. Users(f)' = {t}
  BY <1>1 DEF Users
<1>5. ASSUME NEW u \in Threads, u # t, pc[u] \in {"walk", "no_trees"}
      PROVE  Users(fd[u])' = Users(fd[u])
  <2>1. PICK h \in Files : h = fd[u]
    BY <1>5 DEF DeviceInv
  <2>2. h # f
    BY <1>1, <2>1 DEF Users
  <2>3. h # NoFile /\ fd'[u] = h
    BY <1>1, <1>5, <2>1, DeviceAssumption
  <2>4. Users(h)' = Users(h)
    BY <1>1, <1>2, <2>2, <2>3, UsersMove
  <2> QED
    BY <2>1, <2>3, <2>4 DEF Users
<1>6. DeviceInv'
  <2>1. 0 < OBJECT_MAX_SIZE
    BY DeviceAssumption
  <2>2. \A u \in Threads : u # t => pc'[u] = pc[u] /\ fd'[u] = fd[u]
    BY <1>1
  <2>3. pc'[t] = "walk" /\ fd'[t] = f
    BY <1>1
  <2> QED
    BY <1>1, <1>2, <1>4, <1>5, <2>1, <2>2, <2>3 DEF DeviceInv
<1> QED
  BY <1>3, <1>6

\* The device stays consistent whatever happens.
LEMMA DeviceStep ==
  ASSUME IInv, [Next]_vars
  PROVE  DeviceSafe'
<1>1. DeviceSafe /\ pc \in [Threads -> PCs]
  BY DEF IInv, TypeOK, DeviceSafe
<1> USE <1>1 DEF DeviceSafe
<1>2. ASSUME NEW t \in Threads, Reader(t)
      PROVE  DeviceSafe'
  <2>1. ASSUME NEW f \in Files, OpenDevice(t, f)
        PROVE  DeviceSafe'
    BY <2>1, OpeningKeeps
  <2>2. CASE TakeStatus(t)
    BY <2>2, PrintKeeps, OpenKeeps DEF TakeStatus
  <2>3. CASE WalkNothing(t)
    <3>1. pc[t] = "walk" /\ pc' = [pc EXCEPT ![t] = "no_trees"] /\ UNCHANGED deviceVars
      BY <2>3 DEF WalkNothing, Goto
    <3>2. \A u \in Threads : pc'[u] = pc[u] \/ (pc[u] = "walk" /\ pc'[u] = "no_trees")
      BY <3>1
    <3> QED
      BY <3>1, <3>2, DeviceFrame
  <2>4. CASE UseFile(t)
    BY <2>4, BeginKeeps, ReadKeeps, StoreKeeps DEF UseFile
  <2> QED
    BY <1>2, <2>1, <2>2, <2>3, <2>4 DEF Reader
<1>3. ASSUME NEW f \in Files, CloseDevice(f)
      PROVE  DeviceSafe'
  BY <1>3, ReleaseKeeps DEF CloseDevice
<1>4. ASSUME UNCHANGED deviceVars,
             \A t \in Threads :
               pc'[t] = pc[t] \/ {pc[t], pc'[t]} \cap {"walk", "no_trees", "read", "store", "seek"} = {}
      PROVE  DeviceSafe'
  BY <1>4, DeviceFrame
<1>5. CASE FreeModule
  BY <1>4, <1>5 DEF FreeModule
<1>6. ASSUME NEW t \in Threads, Caller(t)
      PROVE  DeviceSafe'
  BY <1>4, <1>6
  DEF Caller, Call, Enter, try_module_get, module_put, ReturnNoData, Return, Goto
<1>7. CASE UNCHANGED <<deviceVars, pc>>
  BY <1>4, <1>7
<1> QED
  BY <1>2, <1>3, <1>5, <1>6, <1>7
  DEF Next, LoadModule, Rmmod, LoaderStep, Search, Explore, initTBDE, exposeNewSyscall, devkoInit,
      removeAllSyscall, devkoExit, unmountTBDE, ReadNumbers, Others, vars

-----------------------------------------------------------------------------
(* The system call table *)

\* What the table goes through.
LEMMA TableStep ==
  ASSUME IInv, [Next]_vars
  PROVE  /\ TableSafe'
         /\ EntriesReady /\ ~LoadModule /\ ~Search => EntriesReady'
         /\ Explore => EntriesReady'
<1>1. /\ TableSafe
      /\ nextFree > 0 => EntriesReady
      /\ loader \in {"unloaded", "search", "explore"} => nextFree = 0
      /\ cursor \in Nat /\ nextFree \in Nat
  BY TableAssumption DEF IInv, TypeOK, TableTypes, TableSafe, KnownInv
<1>2. CASE LoadModule
  <2>1. nextFree = 0 /\ FreshVariables /\ ~Explore
    BY <1>1, <1>2 DEF LoadModule, LoaderGoto, Explore
  <2> QED
    BY <1>1, <1>2, <2>1, FreshKeeps
<1>3. CASE Search
  <2>1. loader = "search" /\ ~Explore
    BY <1>3 DEF Search, LoaderGoto, Explore
  <2>2. CASE FindTable
    BY <1>1, <1>3, <2>1, <2>2, FoundKeeps
  <2>3. CASE SkipPage \/ NextWord \/ UNCHANGED tableVars
    BY <1>1, <1>3, <2>1, <2>3, TableFrame
    DEF SkipPage, NextWord, tableVars, found, installed, machine
  <2> QED
    BY <1>3, <2>2, <2>3 DEF Search
<1>4. CASE Explore
  <2>1. nextFree = 0 /\ hacked_syscall_tbl # NoTable /\ foundFree_entries
    BY <1>1, <1>4 DEF Explore, LoaderGoto, IInv, KnownInv
  <2> QED
    BY <1>1, <2>1, ExploreKeeps
<1>5. CASE exposeNewSyscall
  <2>1. EntriesReady /\ nextFree < NumCalls /\ add_syscall(nextFree) /\ ~Explore
    BY <1>5 DEF IInv, KnownInv, exposeNewSyscall, LoaderGoto, Explore
  <2> QED
    BY <1>1, <2>1, InstallKeeps
<1>6. CASE removeAllSyscall
  <2>1. loader = "exit_table" /\ ~Explore
    BY <1>6 DEF removeAllSyscall, LoaderGoto, Explore
  <2>2. CASE removeSyscall
    <3>1. EntriesReady
      BY <1>1, <2>2 DEF removeSyscall, ToRestore
    <3> QED
      BY <1>1, <2>1, <2>2, <3>1, RestoreKeeps
  <2>3. CASE UNCHANGED tableVars
    BY <1>1, <2>1, <2>3, TableFrame DEF tableVars, found, installed, machine
  <2> QED
    BY <1>6, <2>2, <2>3 DEF removeAllSyscall
<1>7. CASE Others
  <2>1. PICK e \in Foreigns : OthersWrite(e)
    BY <1>7 DEF Others
  <2>2. loader' = loader
    BY <1>7 DEF Others
  <2>3. Explore => loader = "explore" /\ loader' \in {"oops", "trees", "device"}
    BY DEF Explore, LoaderGoto, InitOrder
  <2>4. ~Explore
    BY <2>2, <2>3
  <2> QED
    BY <1>1, <2>1, <2>4, OthersKeep
<1>8. CASE UNCHANGED tableVars /\ ~Explore
  BY <1>1, <1>8, TableFrame DEF tableVars, found, installed, machine
<1>9. UNCHANGED vars => UNCHANGED tableVars /\ ~Explore
  BY DEF vars, Explore, LoaderGoto, InitOrder
<1> QED
  BY <1>2, <1>3, <1>4, <1>5, <1>6, <1>7, <1>8, <1>9
  DEF Next, Rmmod, LoaderStep, initTBDE, devkoInit, devkoExit, unmountTBDE, FreeModule, ReadNumbers,
      Caller, Call, Enter, module_put, ReturnNoData, Return,
      Reader, OpenDevice, TakeStatus, WalkNothing, UseFile, CloseDevice

-----------------------------------------------------------------------------
(* What the module knows of the table                                      *)

\* A call is installed and its number published.
LEMMA InstallKnows ==
  ASSUME IInv, exposeNewSyscall
  PROVE  KnownInv'
<1>1. /\ TableSafe /\ EntriesReady /\ nextFree < NumCalls /\ add_syscall(nextFree)
      /\ NumCalls \in Nat /\ nextFree \in Nat /\ loader = "install"
  BY TableAssumption
  DEF IInv, TypeOK, TableTypes, TableSafe, KnownInv, exposeNewSyscall, LoaderGoto
<1>2. EntriesReady'
  BY <1>1, InstallKeeps
<1>3. nextFree' = nextFree + 1 /\ free_entries' = free_entries
      /\ sysCallNum' = [sysCallNum EXCEPT ![nextFree] = free_entries[nextFree]]
  BY <1>1 DEF add_syscall, found
<1>4. IF nextFree = NumCalls - 1 THEN loader' = "device" ELSE loader' = "install"
  BY DEF exposeNewSyscall, LoaderGoto, InitOrder
<1>5. \A c \in Calls : sysCallNum[c] = IF c < nextFree THEN free_entries[c] ELSE 0
  BY <1>1 DEF IInv, KnownInv, module_is_live
<1>6. \A c \in Calls : sysCallNum'[c] = IF c < nextFree' THEN free_entries'[c] ELSE 0
  <2>1. sysCallNum \in [Calls -> Entries] /\ \A c \in Calls : c \in Nat
    BY DEF IInv, TypeOK, Calls
  <2>2. TAKE c \in Calls
  <2>3. CASE c = nextFree
    BY <1>1, <1>3, <2>1, <2>3
  <2>4. CASE c # nextFree
    <3>1. sysCallNum'[c] = sysCallNum[c] /\ (c < nextFree' <=> c < nextFree)
      BY <1>1, <1>3, <2>1, <2>4
    <3> QED
      BY <1>3, <1>5, <3>1
  <2> QED
    BY <2>3, <2>4
<1> QED
  BY <1>1, <1>2, <1>3, <1>4, <1>6 DEF KnownInv

\* The same for every step.
LEMMA KnownStep ==
  ASSUME IInv, [Next]_vars
  PROVE  KnownInv'
<1> USE DEF KnownInv, module_is_live
<1>1. KnownInv /\ nextFree \in Nat /\ NumCalls \in Nat \ {0}
  BY TableAssumption DEF IInv, TypeOK
<1>2. CASE LoadModule
  BY <1>1, <1>2 DEF LoadModule, LoaderGoto, FreshVariables, Calls
<1>3. CASE Search
  <2>1. CASE LoaderGoto("search", "explore") /\ FindTable
    <3>1. hacked_syscall_tbl' # NoTable
      BY <2>1 DEF FindTable, SearchEnds, Words, NoTable
    <3> QED
      BY <1>1, <2>1, <3>1 DEF LoaderGoto, FindTable, installed
  <2>2. CASE LoaderGoto("search", "search") /\ (SkipPage \/ NextWord)
    BY <1>1, <2>2 DEF LoaderGoto, SkipPage, NextWord, found, installed
  <2>3. CASE LoaderGoto("search", "device") /\ UNCHANGED tableVars
    BY <1>1, <2>3 DEF LoaderGoto, tableVars, found, installed
  <2> QED
    BY <1>3, <2>1, <2>2, <2>3 DEF Search
<1>4. CASE Explore
  <2>1. loader = "explore" /\ loader' \in {"trees", "device", "oops"} /\ UNCHANGED <<nextFree, sysCallNum>>
    BY <1>4 DEF Explore, LoaderGoto, InitOrder, foundFree_entries, installed
  <2>2. \A c \in Calls : ~ (c < 0)
    BY DEF Calls
  <2> QED
    BY <1>1, <1>4, <2>1, <2>2, TableStep
<1>5. CASE exposeNewSyscall
  BY <1>5, InstallKnows
<1>6. CASE removeAllSyscall
  <2>1. loader = "exit_table" /\ loader' \in {"exit_table", "exit_device"}
        /\ (loader' = "exit_device" => nextFree' = 0) /\ (nextFree' > 0 => nextFree > 0)
    BY <1>1, <1>6
    DEF removeAllSyscall, LoaderGoto, removeSyscall, ToRestore, tableVars, installed
  <2>2. ~LoadModule /\ ~Search
    BY <2>1 DEF LoadModule, Search, LoaderGoto
  <2> QED
    BY <1>1, <2>1, <2>2, TableStep
<1>7. CASE Others
  <2>1. UNCHANGED <<loader, hacked_syscall_tbl, free_entries, nextFree, sysCallNum>>
    BY <1>7 DEF Others, OthersWrite, found, installed
  <2>2. (~LoadModule /\ ~Search) \/ loader \in {"unloaded", "search"}
    BY DEF LoadModule, Search, LoaderGoto
  <2> QED
    BY <1>1, <2>1, <2>2, TableStep
<1>8. ASSUME UNCHANGED tableVars,
             loader' = loader \/ initTBDE \/ devkoInit \/ Rmmod \/ devkoExit \/ unmountTBDE \/ FreeModule
      PROVE  KnownInv'
  <2>1. UNCHANGED <<hacked_syscall_tbl, free_entries, nextFree, sysCallNum>>
    BY <1>8 DEF tableVars, found, installed
  <2>2. EntriesReady' = EntriesReady
    BY <1>8 DEF tableVars, found, machine, EntriesReady, Mapped, EnoughSpare
  <2> QED
    BY <1>1, <1>8, <2>1, <2>2
    DEF initTBDE, devkoInit, Rmmod, devkoExit, unmountTBDE, FreeModule, LoaderGoto, InitOrder
<1> QED
  BY <1>2, <1>3, <1>4, <1>5, <1>6, <1>7, <1>8
  DEF Next, Rmmod, LoaderStep, initTBDE, devkoInit, devkoExit, unmountTBDE, FreeModule, ReadNumbers,
      Caller, Call, Enter, try_module_get, module_put, ReturnNoData, Return,
      Reader, OpenDevice, TakeStatus, WalkNothing, UseFile, CloseDevice, vars

-----------------------------------------------------------------------------
(* The reference count *)

References == Cardinality(Inside) + Cardinality(Walking) + Cardinality(OpenFiles)

\* Holders are finitely many; while there is one the count is not zero.
LEMMA Holders ==
  ASSUME IInv
  PROVE  /\ IsFiniteSet(Inside) /\ IsFiniteSet(Walking) /\ IsFiniteSet(OpenFiles)
         /\ Cardinality(Inside) \in Nat /\ Cardinality(Walking) \in Nat
         /\ Cardinality(OpenFiles) \in Nat /\ lost \in Nat /\ refcnt = References + lost
         /\ Inside # {} \/ Walking # {} \/ OpenFiles # {} => refcnt > 0
<1>1. IsFiniteSet(Inside) /\ IsFiniteSet(Walking) /\ IsFiniteSet(OpenFiles)
  BY LifeAssumption, FS_Subset DEF Inside, Walking, OpenFiles
<1>2. /\ Cardinality(Inside) \in Nat /\ Cardinality(Walking) \in Nat
      /\ Cardinality(OpenFiles) \in Nat
  BY <1>1, FS_CardinalityType
<1>3. lost \in Nat /\ refcnt = References + lost
  BY LifeAssumption DEF IInv, TypeOK, ModuleRefExact, References
<1>4. \A S \in {Inside, Walking, OpenFiles} : S # {} => Cardinality(S) > 0
  BY <1>1, <1>2, FS_EmptySet
<1> QED
  BY <1>1, <1>2, <1>3, <1>4 DEF References

\* A thread that is at no place where it holds a reference, and goes to none.
LEMMA CallersKeepRefs ==
  ASSUME IInv, UNCHANGED <<refcnt, lost, open>>,
         \A t \in Threads : \/ pc'[t] = pc[t]
                            \/ {pc[t], pc'[t]} \cap {"inside", "walk", "no_trees"} = {}
                            \/ pc[t] = "walk" /\ pc'[t] = "no_trees"
  PROVE  ModuleRefExact'
<1>1. Inside' = Inside /\ Walking' = Walking /\ OpenFiles' = OpenFiles
  BY DEF Inside, Walking, OpenFiles
<1> QED
  BY <1>1 DEF IInv, ModuleRefExact

\* A thread takes a reference.
LEMMA TakeCounts ==
  ASSUME IInv, UNCHANGED <<open, lost>>, refcnt' = refcnt + 1, NEW t \in Threads,
         pc[t] \in {"idle", "entered"}, NEW to \in {"inside", "walk"},
         pc' = [pc EXCEPT ![t] = to]
  PROVE  ModuleRefExact'
<1>1. pc \in [Threads -> PCs]
  BY DEF IInv, TypeOK
<1>2. OpenFiles' = OpenFiles /\ t \notin Inside /\ t \notin Walking
  BY DEF OpenFiles, Inside, Walking
<1>3. CASE to = "inside"
  <2>1. Inside' = Inside \cup {t} /\ Walking' = Walking
    BY <1>1, <1>3 DEF Inside, Walking
  <2>2. Cardinality(Inside \cup {t}) = Cardinality(Inside) + 1
    BY <1>2, Holders, CountMembers
  <2> QED
    BY <1>2, <2>1, <2>2, Holders DEF ModuleRefExact, References
<1>4. CASE to = "walk"
  <2>1. Walking' = Walking \cup {t} /\ Inside' = Inside
    BY <1>1, <1>4 DEF Inside, Walking
  <2>2. Cardinality(Walking \cup {t}) = Cardinality(Walking) + 1
    BY <1>2, Holders, CountMembers
  <2> QED
    BY <1>2, <2>1, <2>2, Holders DEF ModuleRefExact, References
<1> QED
  BY <1>3, <1>4

\* A call ends: its reference is given back, or is lost.
LEMMA LeaveCounts ==
  ASSUME IInv, NEW t \in Threads, module_put(t) \/ ReturnNoData(t)
  PROVE  ModuleRefExact'
<1>1. pc \in [Threads -> PCs] /\ pc[t] = "inside" /\ pc' = [pc EXCEPT ![t] = "leaving"]
      /\ UNCHANGED open
  BY DEF IInv, TypeOK, module_put, ReturnNoData, Goto, deviceVars
<1>2. OpenFiles' = OpenFiles /\ Walking' = Walking /\ Inside' = Inside \ {t} /\ t \in Inside
  BY <1>1 DEF OpenFiles, Inside, Walking
<1>3. Cardinality(Inside \ {t}) = Cardinality(Inside) - 1
  BY <1>2, Holders, CountMembers
<1>4. refcnt' - lost' = refcnt - lost - 1 /\ refcnt' \in Int /\ lost' \in Int
  BY Holders DEF IInv, TypeOK, module_put, ReturnNoData
<1> QED
  BY <1>2, <1>3, <1>4, Holders DEF ModuleRefExact, References

\* The reference of a thread that opens becomes the one of the open file.
LEMMA OpenCounts ==
  ASSUME IInv, NEW t \in Threads, dev_open(t), UNCHANGED refs
  PROVE  ModuleRefExact'
<1>1. /\ pc \in [Threads -> PCs] /\ pc[t] = "walk" /\ open \in [Files -> BOOLEAN]
      /\ pc' = [pc EXCEPT ![t] = "idle"] /\ open' = [open EXCEPT ![fd[t]] = TRUE]
  BY DEF IInv, TypeOK, DeviceTypes, dev_open, Done, Goto
<1>2. fd[t] \in Files /\ ~open[fd[t]]
  BY <1>1 DEF IInv, DeviceInv
<1>3. /\ Inside' = Inside
      /\ Walking' = Walking \ {t} /\ t \in Walking
      /\ OpenFiles' = OpenFiles \cup {fd[t]} /\ fd[t] \notin OpenFiles
  BY <1>1, <1>2 DEF OpenFiles, Inside, Walking
<1>4. /\ Cardinality(Walking \ {t}) = Cardinality(Walking) - 1
      /\ Cardinality(OpenFiles \cup {fd[t]}) = Cardinality(OpenFiles) + 1
  BY <1>3, Holders, CountMembers
<1> QED
  BY <1>3, <1>4, Holders DEF ModuleRefExact, References, refs

\* Closing gives the reference of the file back.
LEMMA CloseCounts ==
  ASSUME IInv, NEW f \in Files, CloseDevice(f)
  PROVE  ModuleRefExact'
<1>1. /\ open[f] /\ open \in [Files -> BOOLEAN] /\ open' = [open EXCEPT ![f] = FALSE]
      /\ UNCHANGED <<pc, lost>> /\ refcnt' = refcnt - 1
  BY DEF IInv, TypeOK, DeviceTypes, CloseDevice, dev_release
<1>2. /\ Inside' = Inside /\ Walking' = Walking
      /\ OpenFiles' = OpenFiles \ {f} /\ f \in OpenFiles
  BY <1>1 DEF OpenFiles, Inside, Walking
<1>3. Cardinality(OpenFiles \ {f}) = Cardinality(OpenFiles) - 1
  BY <1>2, Holders, CountMembers
<1> QED
  BY <1>1, <1>2, <1>3, Holders DEF ModuleRefExact, References

\* The count stays exact whatever happens.
LEMMA RefStep ==
  ASSUME IInv, [Next]_vars
  PROVE  ModuleRefExact'
<1>1. pc \in [Threads -> PCs]
  BY DEF IInv, TypeOK
<1>2. ASSUME UNCHANGED <<pc, refs, open>>
      PROVE  ModuleRefExact'
  BY <1>2, CallersKeepRefs DEF refs
<1>3. ASSUME NEW t \in Threads, Caller(t)
      PROVE  ModuleRefExact'
  <2>1. CASE Enter(t) /\ module_is_live
    BY <2>1, TakeCounts DEF Enter, try_module_get, Goto, deviceVars
  <2>2. CASE Enter(t) /\ ~module_is_live
    BY <1>1, <2>2, CallersKeepRefs DEF Enter, try_module_get, Goto, deviceVars
  <2>3. CASE module_put(t) \/ ReturnNoData(t)
    BY <2>3, LeaveCounts
  <2>4. CASE Return(t) \/ Call(t)
    BY <1>1, <2>4, CallersKeepRefs DEF Return, Call, Goto, deviceVars, refs
  <2> QED
    BY <1>3, <2>1, <2>2, <2>3, <2>4 DEF Caller
<1>4. ASSUME NEW t \in Threads, Reader(t)
      PROVE  ModuleRefExact'
  <2>1. ASSUME NEW f \in Files, OpenDevice(t, f)
        PROVE  ModuleRefExact'
    BY <2>1, TakeCounts DEF OpenDevice, try_module_get, Goto
  <2>2. CASE TakeStatus(t)
    <3>1. UNCHANGED refs
      BY <2>2 DEF TakeStatus
    <3>2. CASE tbdeStatusString(t)
      BY <1>1, <3>1, <3>2, CallersKeepRefs DEF tbdeStatusString, Goto, refs
    <3> QED
      BY <2>2, <3>1, <3>2, OpenCounts DEF TakeStatus
  <2>3. CASE WalkNothing(t)
    BY <1>1, <2>3, CallersKeepRefs DEF WalkNothing, Goto, deviceVars, refs
  <2>4. CASE UseFile(t)
    BY <1>1, <2>4, CallersKeepRefs
    DEF UseFile, LoadPosition, dev_llseek, dev_read, StorePosition, SetPosition, Done, Goto, refs
  <2> QED
    BY <1>4, <2>1, <2>2, <2>3, <2>4 DEF Reader
<1>5. CASE FreeModule
  BY <1>1, <1>5, CallersKeepRefs DEF FreeModule, refs, deviceVars
<1> QED
  BY <1>2, <1>3, <1>4, <1>5, CloseCounts
  DEF Next, LoadModule, Rmmod, LoaderStep, Search, Explore, initTBDE, exposeNewSyscall, devkoInit,
      removeAllSyscall, devkoExit, unmountTBDE, ReadNumbers, Others, vars, deviceVars

-----------------------------------------------------------------------------
(* The phases of the module's life *)

\* What a call finds in the table is the module's only while it is installed.
LEMMA CallMeetsModule ==
  ASSUME IInv, NEW t \in Threads, Call(t)
  PROVE  /\ loader \in {"install", "device", "live", "exit_table"}
         /\ module_is_live => trees
<1>1. PICK n \in Entries, k \in Calls : memory[sys_call_table + n] = Code(k)
  BY DEF Call
<1>2. sys_call_table + n \in Words
  BY TablePlace DEF IInv
<1>3. k < nextFree
  BY <1>1, <1>2 DEF IInv, InstalledInv
<1>4. nextFree > 0
  BY <1>3, TableAssumption DEF IInv, TypeOK, Calls
<1>5. loader \in {"install", "device", "live", "exit_table"}
  BY <1>4 DEF IInv, KnownInv
<1> QED
  BY <1>4, <1>5 DEF IInv, LifeInv, module_is_live

\* Steps of calls and of the device do not leave the phase.
LEMMA UsersKeepLife ==
  ASSUME IInv, UNCHANGED <<tableVars, loader, made>>,
         refcnt' = 0 \/ loader \in {"install", "device", "live"},
         Walking' \cup OpenFiles' # {} => loader = "live",
         Callers' # {} =>
           /\ loader \notin {"unloaded", "search", "explore", "trees", "failed"}
           /\ module_is_live => trees
  PROVE  LifeInv'
BY DEF IInv, LifeInv, tableVars, installed, made, module_is_live

\* A step of a call.
LEMMA CallerLife ==
  ASSUME IInv, NEW t \in Threads, Caller(t)
  PROVE  LifeInv'
<1>1. /\ pc \in [Threads -> PCs] /\ LifeInv
      /\ UNCHANGED <<tableVars, loader, made, open>>
  BY DEF IInv, TypeOK, Caller, Call, Enter, module_put, ReturnNoData, Return, deviceVars
<1>2. Walking' = Walking /\ OpenFiles' = OpenFiles
  BY <1>1
  DEF Walking, OpenFiles, Caller, Call, Enter, try_module_get, module_put, ReturnNoData, Return, Goto
<1>3. CASE Call(t)
  <2>1. /\ loader \in {"install", "device", "live", "exit_table"}
        /\ module_is_live => trees
    BY <1>3, CallMeetsModule
  <2>2. UNCHANGED refcnt
    BY <1>3 DEF Call, refs
  <2> QED
    BY <1>1, <1>2, <2>1, <2>2, UsersKeepLife DEF LifeInv
<1>4. CASE Enter(t) \/ module_put(t) \/ ReturnNoData(t) \/ Return(t)
  <2>1. t \in Callers
    BY <1>4 DEF Callers, Enter, try_module_get, module_put, ReturnNoData, Return, Goto
  <2>2. /\ loader \notin {"unloaded", "search", "explore", "trees", "failed"}
        /\ module_is_live => trees
    BY <1>1, <2>1 DEF LifeInv
  <2>3. refcnt' = 0 \/ loader \in {"install", "device", "live"}
    <3>1. CASE loader \in {"install", "device", "live"}
      BY <3>1
    <3>2. CASE loader \notin {"install", "device", "live"}
      <4>1. refcnt = 0 /\ ~module_is_live
        BY <1>1, <2>2, <3>2 DEF LifeInv, module_is_live
      <4>2. Inside = {}
        BY <4>1, Holders
      <4>3. ~module_put(t) /\ ~ReturnNoData(t)
        BY <4>2 DEF Inside, module_put, ReturnNoData, Goto
      <4> QED
        BY <1>4, <4>1, <4>3 DEF Enter, try_module_get, Return, refs
    <3> QED
      BY <3>1, <3>2
  <2> QED
    BY <1>1, <1>2, <2>2, <2>3, UsersKeepLife DEF LifeInv
<1> QED
  BY <1>3, <1>4 DEF Caller

\* A step of a thread that uses the device.
LEMMA ReaderLife ==
  ASSUME IInv, NEW t \in Threads, Reader(t)
  PROVE  LifeInv'
<1>1. /\ pc \in [Threads -> PCs] /\ LifeInv /\ open \in [Files -> BOOLEAN]
      /\ UNCHANGED <<tableVars, loader, made>>
  BY DEF IInv, TypeOK, DeviceTypes, Reader, OpenDevice, TakeStatus, WalkNothing, UseFile
<1>2. Callers' = Callers
  BY <1>1
  DEF Callers, Reader, OpenDevice, try_module_get, TakeStatus, tbdeStatusString, dev_open, WalkNothing,
      UseFile, LoadPosition, dev_llseek, dev_read, StorePosition, SetPosition, Done, Goto
<1>3. ASSUME NEW f \in Files, OpenDevice(t, f)
      PROVE  LifeInv'
  <2>1. loader = "live"
    BY <1>1, <1>3 DEF OpenDevice, module_is_live, LifeInv
  <2> QED
    BY <1>1, <1>2, <2>1, UsersKeepLife DEF LifeInv
<1>4. CASE TakeStatus(t) \/ WalkNothing(t)
  <2>1. t \in Walking
    BY <1>4 DEF Walking, TakeStatus, tbdeStatusString, dev_open, Done, WalkNothing, Goto
  <2>2. loader = "live"
    BY <1>1, <2>1 DEF LifeInv
  <2> QED
    BY <1>1, <1>2, <2>2, UsersKeepLife DEF LifeInv
<1>5. CASE UseFile(t)
  <2>1. UNCHANGED <<refcnt, open>>
    BY <1>5 DEF UseFile, LoadPosition, dev_llseek, dev_read, StorePosition, SetPosition, refs
  <2>2. Walking' = Walking /\ OpenFiles' = OpenFiles
    BY <1>1, <1>5, <2>1
    DEF Walking, OpenFiles, UseFile, LoadPosition, dev_llseek, dev_read, StorePosition, SetPosition,
        Done, Goto
  <2> QED
    BY <1>1, <1>2, <2>1, <2>2, UsersKeepLife DEF LifeInv
<1> QED
  BY <1>3, <1>4, <1>5 DEF Reader

\* The last user of a file closes it.
LEMMA CloseLife ==
  ASSUME IInv, NEW f \in Files, CloseDevice(f)
  PROVE  LifeInv'
<1>1. /\ LifeInv /\ open[f]
      /\ UNCHANGED <<pc, tableVars, loader, made>>
  BY DEF IInv, CloseDevice, dev_release
<1>2. f \in OpenFiles /\ Callers' = Callers
  BY <1>1 DEF OpenFiles, Callers
<1>3. loader = "live"
  BY <1>1, <1>2 DEF LifeInv
<1> QED
  BY <1>1, <1>2, <1>3, UsersKeepLife DEF LifeInv

\* A step of the administrator.
LEMMA LoaderLife ==
  ASSUME IInv, LoadModule \/ Rmmod \/ LoaderStep
  PROVE  LifeInv'
<1>1. LifeInv /\ pc \in [Threads -> PCs] /\ nextFree \in Nat
  BY TableAssumption DEF IInv, TypeOK
<1>2. UNCHANGED <<refcnt, open>>
  BY DEF LoadModule, Rmmod, LoaderStep, Search, Explore, initTBDE, exposeNewSyscall, devkoInit,
         removeAllSyscall, devkoExit, unmountTBDE, FreeModule, deviceVars, refs
<1>3. OpenFiles' = OpenFiles
  BY <1>2 DEF OpenFiles
<1>4. CASE FreeModule
  <2>1. loader \in {"exited", "failed"} /\ loader' = "unloaded" /\ UNCHANGED <<tableVars, made>>
    BY <1>4 DEF FreeModule, LoaderGoto
  <2>2. refcnt = 0 /\ Inside = {} /\ Walking = {} /\ OpenFiles = {}
    BY <1>1, <2>1, Holders DEF LifeInv
  <2>3. Callers' = {} /\ Walking' = Walking
    BY <1>1, <1>4, <2>2 DEF FreeModule, Callers, Inside, Walking
  <2> QED
    BY <1>1, <1>2, <1>3, <2>1, <2>2, <2>3 DEF LifeInv, made, module_is_live
<1>5. ASSUME ~FreeModule
      PROVE  LifeInv'
  <2>1. UNCHANGED pc
    BY <1>5 DEF LoadModule, Rmmod, LoaderStep, Search, Explore, initTBDE, exposeNewSyscall, devkoInit,
                removeAllSyscall, devkoExit, unmountTBDE
  <2>2. Callers' = Callers /\ Walking' = Walking
    BY <2>1 DEF Callers, Walking
  <2>0. loader \in {"search", "explore", "trees", "failed", "exited", "exit_device"} => nextFree = 0
    BY DEF IInv, KnownInv
  <2> USE <1>1, <1>2, <1>3, <2>2 DEF LifeInv, module_is_live
  <2>3. CASE LoadModule
    BY <2>3 DEF LoadModule, LoaderGoto
  <2>4. CASE Rmmod
    <3>1. loader = "live" /\ loader' = "exit_table" /\ refcnt = 0
          /\ UNCHANGED <<nextFree, sysCallNum, trees, kobj, region>>
      BY <2>4 DEF Rmmod, LoaderGoto, tableVars, installed, made
    <3>2. Walking = {} /\ OpenFiles = {}
      BY <3>1, Holders
    <3>3. ~trees => \A c \in Calls : sysCallNum[c] = 0
      <4>1. ~trees => \A c \in Calls : ~ (c < nextFree)
        BY <3>1, TableAssumption DEF Calls
      <4> QED
        BY <3>1, <4>1 DEF IInv, KnownInv
    <3> QED
      BY <3>1, <3>2, <3>3
  <2>5. CASE Search
    <3>1. UNCHANGED made
      BY <2>5 DEF Search
    <3>2. CASE LoaderGoto("search", "explore") \/ LoaderGoto("search", "search")
      BY <3>1, <3>2 DEF LoaderGoto, made
    <3>3. CASE LoaderGoto("search", "device") /\ UNCHANGED tableVars
      BY <2>0, <3>1, <3>3 DEF LoaderGoto, made, tableVars, installed
    <3> QED
      BY <2>5, <3>2, <3>3 DEF Search
  <2>6. CASE Explore
    <3>1. loader = "explore" /\ loader' \in {"oops", "trees", "device"}
          /\ UNCHANGED <<nextFree, trees, kobj, region>>
      BY <2>6 DEF Explore, LoaderGoto, InitOrder, made, foundFree_entries, installed
    <3> QED
      BY <2>0, <3>1
  <2>7. CASE initTBDE
    BY <2>0, <2>7 DEF initTBDE, LoaderGoto, InitOrder, tableVars, installed
  <2>8. CASE exposeNewSyscall
    <3>1. nextFree' = nextFree + 1
      BY <2>8 DEF exposeNewSyscall, add_syscall
    <3> QED
      BY <2>8, <3>1 DEF exposeNewSyscall, LoaderGoto, InitOrder, made
  <2>9. CASE devkoInit
    BY <2>9 DEF devkoInit, LoaderGoto, InitOrder, tableVars, installed
  <2>10. CASE removeAllSyscall
    <3>1. UNCHANGED sysCallNum
      BY <2>10 DEF removeAllSyscall, removeSyscall, tableVars, installed
    <3> QED
      BY <2>10, <3>1 DEF removeAllSyscall, LoaderGoto, made
  <2>11. CASE devkoExit
    BY <2>11 DEF devkoExit, LoaderGoto, tableVars, installed
  <2>12. CASE unmountTBDE
    BY <2>12 DEF unmountTBDE, LoaderGoto, tableVars, installed
  <2> QED
    BY <1>5, <2>3, <2>4, <2>5, <2>6, <2>7, <2>8, <2>9, <2>10, <2>11, <2>12 DEF LoaderStep
<1> QED
  BY <1>4, <1>5

LEMMA LifeStep ==
  ASSUME IInv, [Next]_vars
  PROVE  LifeInv'
<1>1. ASSUME UNCHANGED <<installed, pc, open, refcnt, loader, made>>
      PROVE  LifeInv'
  BY <1>1 DEF IInv, LifeInv, Callers, Walking, OpenFiles, made, installed, module_is_live
<1>2. CASE ReadNumbers \/ Others \/ UNCHANGED vars
  BY <1>1, <1>2
  DEF ReadNumbers, Others, OthersWrite, vars, tableVars, deviceVars, refs
<1> QED
  BY <1>2, LoaderLife, CallerLife, ReaderLife, CloseLife DEF Next

-----------------------------------------------------------------------------
(* The invariant *)

\* A device that meets no trees keeps a module without calls from going.
LEMMA NoTreesStep ==
  ASSUME IInv, [Next]_vars
  PROVE  NoTreesNoCalls'
<1>1. \A t \in Threads : pc'[t] = "no_trees" => pc[t] \in {"walk", "no_trees"}
  BY DEF IInv, TypeOK, Next, LoadModule, Rmmod, LoaderStep, Search, Explore, initTBDE,
         exposeNewSyscall, devkoInit, removeAllSyscall, devkoExit, unmountTBDE, FreeModule,
         ReadNumbers, Others, CloseDevice, dev_release,
         Caller, Call, Enter, try_module_get, module_put, ReturnNoData, Return,
         Reader, OpenDevice, TakeStatus, tbdeStatusString, dev_open, WalkNothing,
         UseFile, LoadPosition, dev_llseek, dev_read, StorePosition, SetPosition, Done, Goto, vars
<1>2. ASSUME NEW t \in Threads, pc'[t] = "no_trees", pc[t] # "no_trees"
      PROVE  ~trees
  BY <1>2
  DEF IInv, TypeOK, Next, LoadModule, Rmmod, LoaderStep, Search, Explore, initTBDE,
      exposeNewSyscall, devkoInit, removeAllSyscall, devkoExit, unmountTBDE, FreeModule,
      ReadNumbers, Others, CloseDevice, dev_release,
      Caller, Call, Enter, try_module_get, module_put, ReturnNoData, Return,
      Reader, OpenDevice, TakeStatus, tbdeStatusString, dev_open, WalkNothing,
      UseFile, LoadPosition, dev_llseek, dev_read, StorePosition, SetPosition, Done, Goto, vars
<1>3. loader = "live" => nextFree' = nextFree
  BY DEF Next, LoadModule, Rmmod, LoaderStep, Search, Explore, initTBDE,
         exposeNewSyscall, devkoInit, removeAllSyscall, devkoExit, unmountTBDE, FreeModule,
         ReadNumbers, Others, OthersWrite, CloseDevice, LoaderGoto,
         Caller, Call, Enter, module_put, ReturnNoData, Return,
         Reader, OpenDevice, TakeStatus, WalkNothing, UseFile, vars, tableVars, installed
<1>4. SUFFICES ASSUME NEW t \in Threads, pc'[t] = "no_trees"
               PROVE  nextFree' = 0
  BY DEF NoTreesNoCalls
<1>5. t \in Walking
  BY <1>1, <1>4 DEF Walking
<1>6. loader = "live"
  BY <1>5 DEF IInv, LifeInv
<1>7. nextFree = 0
  BY <1>2, <1>4, <1>6, TableAssumption DEF IInv, LifeInv, NoTreesNoCalls, TypeOK
<1> QED
  BY <1>3, <1>6, <1>7

\* The search of memory and its result keep their types.
LEMMA SearchTypes ==
  ASSUME IInv, [Next]_vars
  PROVE  /\ sys_call_table' \in Words /\ booted' \in [Words -> BootValues]
         /\ cursor' \in 0 .. NPages * PageWords
         /\ sysCallNum' \in [Calls -> Entries] /\ sysCallIndex' \in [Calls -> Entries]
<1>1. TypeOK /\ MemoryInv'
  BY TableStep DEF IInv, TableSafe
<1>2. sys_call_table' \in Words /\ booted' \in [Words -> BootValues]
  BY <1>1, TableAssumption DEF MemoryInv
<1>3. NPages * PageWords \in Nat /\ 0 \in Entries
  BY TableAssumption, PatternEnds DEF Entries
<1>4. CASE LoadModule
  BY <1>1, <1>2, <1>3, <1>4 DEF LoadModule, FreshVariables, callVars, TypeOK
<1>5. CASE Search
  <2>1. sysCallNum' = sysCallNum /\ sysCallIndex' = sysCallIndex
    BY <1>5 DEF Search, SkipPage, NextWord, FindTable, installed, tableVars, callVars
  <2>2. cursor' \in 0 .. NPages * PageWords
    BY <1>1, <1>5, SearchRange DEF TypeOK, Search, FindTable, tableVars
  <2> QED
    BY <1>1, <1>2, <2>1, <2>2 DEF TypeOK
<1>6. CASE Explore
  BY <1>1, <1>2, <1>6 DEF Explore, foundFree_entries, installed, callVars, TypeOK
<1>7. CASE exposeNewSyscall
  <2>1. sysCallNum' = [sysCallNum EXCEPT ![nextFree] = free_entries[nextFree]]
        /\ UNCHANGED <<cursor, sysCallIndex>>
    BY <1>7 DEF exposeNewSyscall, add_syscall, callVars
  <2>2. nextFree \in Calls
    BY <1>7, TableAssumption DEF exposeNewSyscall, LoaderGoto, IInv, KnownInv, TypeOK, Calls
  <2> QED
    BY <1>1, <1>2, <2>1, <2>2 DEF TypeOK
<1>8. CASE removeAllSyscall
  BY <1>1, <1>2, <1>8
  DEF removeAllSyscall, removeSyscall, found, installed, tableVars, callVars, TypeOK
<1>9. CASE ReadNumbers
  BY <1>1, <1>2, <1>9 DEF ReadNumbers, tableVars, found, installed, TypeOK
<1>10. CASE Others
  BY <1>1, <1>2, <1>10
  DEF Others, OthersWrite, installed, callVars, TypeOK
<1>11. CASE UNCHANGED <<tableVars, sysCallIndex>>
  BY <1>1, <1>2, <1>11 DEF tableVars, found, installed, TypeOK
<1> QED
  BY <1>4, <1>5, <1>6, <1>7, <1>8, <1>9, <1>10, <1>11
  DEF Next, Rmmod, LoaderStep, initTBDE, devkoInit, devkoExit, unmountTBDE, FreeModule,
      Caller, Call, Enter, module_put, ReturnNoData, Return,
      Reader, OpenDevice, TakeStatus, WalkNothing, UseFile, CloseDevice, vars, callVars

\* What there is of the module and where its users are.
LEMMA PhaseTypes ==
  ASSUME IInv, [Next]_vars
  PROVE  /\ loader' \in LoaderPCs /\ refcnt' \in Nat /\ lost' \in 0 .. MaxLost
         /\ trees' \in BOOLEAN /\ kobj' \in BOOLEAN /\ region' \in BOOLEAN
         /\ pClass' \in {"none", "class", "dangling"}
         /\ pc' \in [Threads -> PCs] /\ fn' \in [Threads -> Calls \cup {NoCall}]
<1> USE DEF TypeOK
<1>1. TypeOK /\ MaxLost \in Nat
  BY LifeAssumption DEF IInv
<1>2. lost' \in 0 .. MaxLost
  BY <1>1
  DEF Next, LoadModule, Rmmod, LoaderStep, Search, Explore, initTBDE, exposeNewSyscall, devkoInit,
      removeAllSyscall, devkoExit, unmountTBDE, FreeModule, ReadNumbers, Others, CloseDevice,
      Caller, Call, Enter, try_module_get, module_put, ReturnNoData, Return,
      Reader, OpenDevice, TakeStatus, WalkNothing, UseFile, vars, refs
<1>3. refcnt' \in Nat
  <2>1. ASSUME NEW t \in Threads, pc[t] = "inside"
        PROVE  refcnt - 1 \in Nat
    BY <1>1, <2>1, Holders DEF Inside
  <2>2. ASSUME NEW f \in Files, open[f]
        PROVE  refcnt - 1 \in Nat
    BY <1>1, <2>2, Holders DEF OpenFiles
  <2> QED
    BY <1>1, <2>1, <2>2
    DEF Next, LoadModule, Rmmod, LoaderStep, Search, Explore, initTBDE, exposeNewSyscall, devkoInit,
        removeAllSyscall, devkoExit, unmountTBDE, FreeModule, ReadNumbers, Others, CloseDevice,
        dev_release, Caller, Call, Enter, try_module_get, module_put, ReturnNoData, Return,
        Reader, OpenDevice, TakeStatus, WalkNothing, UseFile, Goto, vars, refs
<1>4. loader' \in LoaderPCs
  BY <1>1
  DEF Next, LoadModule, Rmmod, LoaderStep, Search, Explore, initTBDE, exposeNewSyscall, devkoInit,
      removeAllSyscall, devkoExit, unmountTBDE, FreeModule, ReadNumbers, Others, CloseDevice,
      Caller, Call, Enter, module_put, ReturnNoData, Return,
      Reader, OpenDevice, TakeStatus, WalkNothing, UseFile, vars, LoaderGoto, LoaderPCs, InitOrder
<1>5. /\ trees' \in BOOLEAN /\ kobj' \in BOOLEAN /\ region' \in BOOLEAN
      /\ pClass' \in {"none", "class", "dangling"}
  BY <1>1
  DEF Next, LoadModule, Rmmod, LoaderStep, Search, Explore, initTBDE, exposeNewSyscall, devkoInit,
      removeAllSyscall, devkoExit, unmountTBDE, FreeModule, ReadNumbers, Others, CloseDevice,
      Caller, Call, Enter, module_put, ReturnNoData, Return,
      Reader, OpenDevice, TakeStatus, WalkNothing, UseFile, vars, made
<1>6. pc' \in [Threads -> PCs]
  BY <1>1
  DEF Next, LoadModule, Rmmod, LoaderStep, Search, Explore, initTBDE, exposeNewSyscall, devkoInit,
      removeAllSyscall, devkoExit, unmountTBDE, FreeModule, ReadNumbers, Others, CloseDevice,
      dev_release, Caller, Call, Enter, try_module_get, module_put, ReturnNoData, Return,
      Reader, OpenDevice, TakeStatus, tbdeStatusString, dev_open, WalkNothing,
      UseFile, LoadPosition, dev_llseek, dev_read, StorePosition, SetPosition, Done, Goto, vars, PCs
<1>7. fn' \in [Threads -> Calls \cup {NoCall}]
  BY <1>1
  DEF Next, LoadModule, Rmmod, LoaderStep, Search, Explore, initTBDE, exposeNewSyscall, devkoInit,
      removeAllSyscall, devkoExit, unmountTBDE, FreeModule, ReadNumbers, Others, CloseDevice,
      Caller, Call, Enter, module_put, ReturnNoData, Return,
      Reader, OpenDevice, TakeStatus, WalkNothing, UseFile, vars, callVars
<1> QED
  BY <1>2, <1>3, <1>4, <1>5, <1>6, <1>7

\* What insmod finds: nothing loaded, memory as one of the layouts has it.
LEMMA InitEstablishes ==
  ASSUME Init
  PROVE  IInv
<1>1. PICK l \in Layouts : memory = l.memory /\ booted = l.memory /\ sys_call_table = l.table
  BY DEF Init, TableInit
<1>2. 0 \in Entries
  BY TableAssumption, PatternEnds DEF Entries
<1>3. \A c \in Calls : ~ (c < 0)
  BY TableAssumption DEF Calls
<1>4. memory \in [Words -> BootValues] /\ BootValues \subseteq WordValues
  BY <1>1, TableAssumption DEF BootValues, WordValues, Addresses
<1>5. MemoryInv
  BY <1>1 DEF MemoryInv
<1>6. InstalledInv /\ KeptInv /\ ReachInv /\ PatternWasThere
  <2>1. \A w \in Words, c \in Calls : memory[w] # Code(c)
    BY <1>4, Distinct
  <2>2. \A c \in Calls : hacked_ni_syscall # Code(c)
    BY Distinct DEF Init, TableInit
  <2> QED
    BY <1>1, <1>3, <2>1, <2>2
    DEF Init, TableInit, InstalledInv, KeptInv, ReachInv, PatternWasThere
<1>7. KnownInv
  BY <1>3 DEF Init, TableInit, KnownInv, module_is_live
<1>8. Inside = {} /\ Walking = {} /\ OpenFiles = {} /\ Callers = {}
  BY DEF Init, DeviceInit, Inside, Walking, OpenFiles, Callers
<1>9. ModuleRefExact
  BY <1>8, FS_EmptySet DEF Init, ModuleRefExact
<1>10. NoTreesNoCalls /\ LifeInv
  BY <1>8 DEF Init, NoTreesNoCalls, LifeInv
<1>11. TextFits /\ PosInBounds /\ NothingSkipped /\ DeviceInv
  BY DEF Init, DeviceInit, TextFits, PosInBounds, NothingSkipped, DeviceInv
<1>12. TypeOK
  <2>1. /\ memory \in [Words -> WordValues] /\ booted \in [Words -> BootValues]
        /\ sys_call_table \in Words /\ NoMap \in WordValues
    BY <1>1, <1>4, TableAssumption DEF WordValues
  <2>2. 0 \in 0 .. NPages * PageWords
    <3>1. NPages * PageWords \in Nat
      BY TableAssumption
    <3> QED
      BY <3>1
  <2>3. DeviceTypes
    BY DEF Init, DeviceInit, DeviceTypes
  <2>4. 0 \in 0 .. NumCalls /\ 0 \in 0 .. MaxLost
    BY TableAssumption, LifeAssumption
  <2> QED
    BY <1>2, <2>1, <2>2, <2>3, <2>4 DEF Init, TableInit, TypeOK, LoaderPCs, PCs
<1> QED
  BY <1>5, <1>6, <1>7, <1>9, <1>10, <1>11, <1>12 DEF IInv

\* One step of anybody.
LEMMA StepKeeps ==
  ASSUME IInv, [Next]_vars
  PROVE  IInv'
<1>1. DeviceSafe' /\ TableSafe'
  BY DeviceStep, TableStep
<1>2. TypeOK'
  BY <1>1, SearchTypes, PhaseTypes DEF TypeOK, TableSafe, TableTypes, DeviceSafe
<1> QED
  BY <1>1, <1>2, KnownStep, RefStep, LifeStep, NoTreesStep DEF IInv, TableSafe, DeviceSafe

-----------------------------------------------------------------------------
(* The theorems                                                            *)

\* What holds of the module in every phase of its life, whatever calls, readers
\* of the device and other modules do.
THEOREM Inductive == Spec => []IInv
<1>1. Init => IInv
  BY InitEstablishes
<1>2. IInv /\ [Next]_vars => IInv'
  BY StepKeeps
<1> QED
  BY <1>1, <1>2, PTL DEF Spec

\* Every variable stays in its type; the count of references is never negative.
THEOREM TypeCorrect == Spec => []TypeOK
BY Inductive, PTL DEF IInv

\* The references try_module_get takes are the ones module_put gives back, but
\* for those of sends that failed.
THEOREM ReferencesExact == Spec => []ModuleRefExact
BY Inductive, PTL DEF IInv

\* Nobody with a reference is in a module that goes, and no call meets it
\* without its trees: initialisation and cleanup are in the right order.
THEOREM HoldersAreSafe == Spec => []VisitsAreSafe
<1>1. ASSUME IInv
      PROVE  VisitsAreSafe
  <2>1. LifeInv
    BY <1>1 DEF IInv
  <2>2. Inside # {} => module_is_live /\ trees
    <3>1. SUFFICES ASSUME Inside # {}
                   PROVE  module_is_live /\ trees
      OBVIOUS
    <3>2. Callers # {} /\ refcnt > 0
      BY <1>1, <3>1, Holders DEF Inside, Callers
    <3>3. module_is_live
      BY <2>1, <3>2 DEF LifeInv, module_is_live
    <3> QED
      BY <2>1, <3>2, <3>3 DEF LifeInv
  <2>3. ASSUME NEW t \in Threads, pc[t] \in {"read", "store", "seek"}
        PROVE  OpenFiles # {}
    BY <1>1, <2>3 DEF IInv, DeviceInv, OpenFiles
  <2>4. Walking # {} \/ OpenFiles # {} => module_is_live
    BY <2>1 DEF LifeInv, module_is_live
  <2> QED
    BY <2>2, <2>3, <2>4 DEF VisitsAreSafe
<1> QED
  BY <1>1, Inductive, PTL

\* Tree_Print(NULL) is reached only in a module that has installed no call.
THEOREM NoTreesOnlyWithoutCalls == Spec => []NoTreesNoCalls
BY Inductive, PTL DEF IInv

\* Where the search stops, the pattern was there before any module was loaded:
\* writes to the table under the search, or left by earlier loads, do not make one.
THEOREM PatternFound == Spec => []PatternWasThere
BY Inductive, PTL DEF IInv

\* syscall_table_finder and validate_page do not step past a table whose pattern
\* is there.
THEOREM TableReached == Spec => TableNotMissed
<1> DEFINE InOrder == /\ \A i \in NI_SYSCALLS : memory[sys_call_table + i] = Ni
                      /\ \A e \in 1 .. FIRST_NI_SYSCALL - 1 : memory[sys_call_table + e] # Ni
           NotMissed == /\ loader = "search" /\ loader' = "search"
                        /\ \A i \in NI_SYSCALLS : memory[sys_call_table + i] = Ni
                        /\ \A e \in 1 .. FIRST_NI_SYSCALL - 1 : memory[sys_call_table + e] # Ni
                        /\ cursor <= sys_call_table
                        => cursor' <= sys_call_table
<1>1. ASSUME IInv, [Next]_vars
      PROVE  NotMissed
  <2>1. SUFFICES ASSUME loader = "search", loader' = "search", InOrder,
                        cursor <= sys_call_table
                 PROVE  cursor' <= sys_call_table
    OBVIOUS
  <2>2. TableSafe /\ cursor \in Nat
    BY <1>1, TableAssumption DEF IInv, TypeOK, TableTypes, TableSafe
  <2>3. CASE Search
    <3>1. SkipPage \/ NextWord
      BY <2>1, <2>3 DEF Search, LoaderGoto
    <3> QED
      BY <2>1, <2>2, <3>1, NotPassed
  <2>4. CASE UNCHANGED cursor
    BY <2>1, <2>4
  <2> QED
    BY <1>1, <2>1, <2>3, <2>4
    DEF Next, LoadModule, Rmmod, LoaderStep, Explore, initTBDE, exposeNewSyscall, devkoInit,
        removeAllSyscall, devkoExit, unmountTBDE, FreeModule, LoaderGoto, InitOrder, ReadNumbers,
        Others, OthersWrite,
        Caller, Call, Enter, try_module_get, module_put, ReturnNoData, Return,
        Reader, OpenDevice, TakeStatus, WalkNothing, UseFile, CloseDevice, vars, tableVars
<1>2. IInv /\ [Next]_vars => [NotMissed]_vars
  BY <1>1
<1> QED
  BY <1>2, Inductive, PTL DEF Spec, TableNotMissed

\* validate_page lets the search read no word that is not mapped.
THEOREM SearchIsSafe == Spec => []SearchReadsMapped
<1>1. ASSUME IInv
      PROVE  SearchReadsMapped
  <2>1. MemoryInv /\ cursor \in Nat
    BY <1>1, TableAssumption DEF IInv, TypeOK
  <2> QED
    BY <2>1, SearchStaysMapped DEF SearchReadsMapped
<1> QED
  BY <1>1, Inductive, PTL

\* The number add_syscall returned for a call is the entry that leads to it, or
\* that another module has written since.
THEOREM NumbersLeadToCalls == Spec => []NumbersReach
<1>1. ASSUME IInv
      PROVE  NumbersReach
  <2>1. SUFFICES ASSUME hacked_syscall_tbl = sys_call_table,
                        NEW c \in Calls, module_is_live, sysCallIndex[c] = sysCallNum[c],
                        sysCallIndex[c] # 0
                 PROVE  \/ memory[sys_call_table + sysCallIndex[c]] = Code(c)
                        \/ /\ sysCallIndex[c] \in Foreigns
                           /\ memory[sys_call_table + sysCallIndex[c]] \in {Ni, Foreign(sysCallIndex[c])}
    BY DEF NumbersReach
  <2>2. c < nextFree /\ sysCallIndex[c] = free_entries[c]
    BY <1>1, <2>1 DEF IInv, KnownInv
  <2> QED
    BY <1>1, <2>1, <2>2 DEF IInv, ReachInv
<1> QED
  BY <1>1, Inductive, PTL

\* tbdeStatusString writes within its page, the terminator included.
THEOREM TextInPage == Spec => []TextFits
BY Inductive, PTL DEF IInv

\* No interleaving of dev_read and dev_llseek takes a position out of the text.
THEOREM PositionsInText == Spec => []PosInBounds
BY Inductive, PTL DEF IInv

\* Racing reads of one file lose no byte.
THEOREM ReadersMissNothing == Spec => []NothingSkipped
BY Inductive, PTL DEF IInv

\* add_syscall and removeAllSyscall overwrite only what held the address that the
\* module takes for sys_ni_syscall, or an entry that others borrow, and nothing
\* of it stays after unloading.
THEOREM KernelIsKept == Spec => []KernelKept
<1>1. ASSUME IInv
      PROVE  KernelKept
  <2>1. SUFFICES ASSUME EnoughSpare, NEW w \in Words
                 PROVE  \/ memory[w] = booted[w]
                        \/ w - sys_call_table \in Foreigns /\ booted[w] = Ni
                        \/ /\ booted[w] = hacked_ni_syscall
                           /\ \E c \in Calls : c < nextFree /\ w = hacked_syscall_tbl + free_entries[c]
    BY DEF KernelKept
  <2>2. KeptInv /\ InstalledInv
    BY <1>1 DEF IInv
  <2> QED
    BY <2>1, <2>2 DEF KeptInv, InstalledInv
<1> QED
  BY <1>1, Inductive, PTL

\* cleanup_module undoes what init_module did, and an initialisation that fails
\* leaves no call installed.
THEOREM UnloadsClean == Spec => CleanUnload
<1> DEFINE Left == /\ \A w \in Words, c \in Calls : memory'[w] # Code(c)
                   /\ ~region' /\ ~trees'
                   /\ kobj' => loader = "failed" \/ \A c \in Calls : sysCallNum[c] = 0
           Clean == loader # "unloaded" /\ loader' = "unloaded" => Left
<1>1. ASSUME IInv, [Next]_vars
      PROVE  Clean
  <2>1. SUFFICES ASSUME loader # "unloaded", loader' = "unloaded"
                 PROVE  Left
    OBVIOUS
  <2>2. FreeModule
    BY <1>1, <2>1
    DEF Next, LoadModule, Rmmod, LoaderStep, Search, Explore, initTBDE, exposeNewSyscall, devkoInit,
        removeAllSyscall, devkoExit, unmountTBDE, ReadNumbers, Others, CloseDevice,
        Caller, Call, Enter, module_put, ReturnNoData, Return,
        Reader, OpenDevice, TakeStatus, WalkNothing, UseFile, vars, LoaderGoto, InitOrder
  <2>3. loader \in {"exited", "failed"} /\ UNCHANGED <<memory, made>>
    BY <2>2 DEF FreeModule, LoaderGoto, tableVars
  <2>4. nextFree = 0
    BY <1>1, <2>3 DEF IInv, KnownInv
  <2>5. \A w \in Words, c \in Calls : memory[w] # Code(c)
    BY <1>1, <2>4, NothingInstalled DEF IInv
  <2> QED
    BY <1>1, <2>3, <2>5 DEF IInv, LifeInv, made
<1>2. IInv /\ [Next]_vars => [Clean]_vars
  BY <1>1
<1> QED
  BY <1>2, Inductive, PTL DEF Spec, CleanUnload

=============================================================================
