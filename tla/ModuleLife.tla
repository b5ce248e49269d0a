----------------------------- MODULE ModuleLife -----------------------------
(***************************************************************************)
(* The life of the module (src/main.c): loading, initialisation and its    *)
(* failures, the system calls it lends the kernel, the status device, the  *)
(* reference count that keeps it loaded, and unloading.  It composes       *)
(* SyscallTable and StatusDevice.                                          *)
(*                                                                         *)
(* One administrator loads and unloads (the kernel serialises this).       *)
(* Threads call the module through numbers their process read once         *)
(* (src/01_user/tbdeUser/tbdeUser.c), or use the device.  What a call does *)
(* with rooms is in ChatRoom and RoomDirectory: here it is a visit, with   *)
(* the reference it holds.                                                 *)
(***************************************************************************)
EXTENDS SyscallTable, StatusDevice

CONSTANT MaxLost   \* bound: references that calls may lose

ASSUME LifeAssumption ==
  MaxLost \in Nat /\ IsFiniteSet(Threads) /\ IsFiniteSet(Files)

tag_send == 1   \* its place in sysCallNum

VARIABLES
  loader,         \* what the administrator's thread is doing
  refcnt, lost,   \* references to the module; those nobody will give back
  trees, kobj, region, pClass,   \* what initTBDE and devkoInit have set up
  sysCallIndex,   \* of the user library: the numbers it read
  fn              \* by thread: the call it is in

made == <<trees, kobj, region, pClass>>
refs == <<refcnt, lost>>
callVars == <<sysCallIndex, fn>>
vars == <<tableVars, deviceVars, pc, loader, refs, made, callVars>>

NoCall == -1

LoaderPCs == {"unloaded", "search", "explore", "trees", "install", "device", "live", "failed",
              "exit_table", "exit_device", "exit_trees", "exited", "oops"}
PCs == {"idle", "entered", "inside", "leaving", "walk", "read", "store", "seek",
        "no_trees", "no_text"}

Init ==
  /\ TableInit /\ DeviceInit
  /\ loader = "unloaded"
  /\ refcnt = 0 /\ lost = 0
  /\ trees = FALSE /\ kobj = FALSE /\ region = FALSE /\ pClass = "none"
  /\ sysCallIndex = [c \in Calls |-> 0]
  /\ pc = [t \in Threads |-> "idle"]
  /\ fn = [t \in Threads |-> NoCall]

LoaderGoto(from, to) == loader = from /\ loader' = to

-----------------------------------------------------------------------------
(* init_module *)

\* A definition named Faulty... is not part of the model: it is the definition
\* after it with a bug a programmer could have written, for showing that the
\* properties notice.
FaultyInitOrder ==   \* fault: the calls are installed before there are trees
  [explore |-> "install", install |-> "trees", trees |-> "device", device |-> "live"]
FaultyDeviceFirst ==   \* fault: the device is made before there are trees
  [explore |-> "device", device |-> "trees", trees |-> "install", install |-> "live"]

\* What follows each part of the initialisation.
InitOrder == [explore |-> "trees", trees |-> "install", install |-> "device", device |-> "live"]

LoadModule ==
  /\ LoaderGoto("unloaded", "search")
  /\ FreshVariables
  /\ trees' = FALSE /\ region' = FALSE /\ pClass' = "none"
  /\ UNCHANGED <<deviceVars, pc, refs, kobj, callVars>>

\* Without a table nothing is installed, but the device is.
Search ==
  /\ \/ LoaderGoto("search", "search") /\ (SkipPage \/ NextWord)
     \/ LoaderGoto("search", "explore") /\ FindTable
     \/ LoaderGoto("search", "device") /\ SearchEnds /\ UNCHANGED tableVars
  /\ UNCHANGED <<deviceVars, pc, refs, made, callVars>>

\* foundFree_entries reads on, if it has not found enough, wherever that leads;
\* with nothing found, nothing is installed.
Explore ==
  /\ LoaderGoto("explore",
       IF ReadsUnmapped THEN "oops" ELSE IF SomeFree THEN InitOrder.explore ELSE "device")
  /\ foundFree_entries
  /\ UNCHANGED <<deviceVars, pc, refs, made, callVars>>

\* initTBDE.  The kernel refuses a second object of the same name; an object
\* whose file could not be made stays.
initTBDE ==
  /\ \/ LoaderGoto("trees", "failed") /\ UNCHANGED <<trees, kobj>>
     \/ LoaderGoto("trees", "failed") /\ ~kobj /\ kobj' = TRUE /\ UNCHANGED trees
     \/ LoaderGoto("trees", InitOrder.trees) /\ ~kobj /\ kobj' = TRUE /\ trees' = TRUE
  /\ UNCHANGED <<tableVars, deviceVars, pc, refs, region, pClass, callVars>>

\* exposeNewSyscall, once for each call.
exposeNewSyscall ==
  /\ LoaderGoto("install", IF nextFree = NumCalls - 1 THEN InitOrder.install ELSE "install")
  /\ add_syscall(nextFree)
  /\ UNCHANGED <<deviceVars, pc, refs, made, callVars>>

\* devkoInit, whose result is not looked at.  If the class or the device cannot
\* be made, pClass is left pointing at nothing, and the region stays: it is not
\* of the size unregister_chrdev_region is told.
devkoInit ==
  /\ LoaderGoto("device", InitOrder.device)
  /\ \/ UNCHANGED <<region, pClass>>
     \/ region' = TRUE /\ pClass' \in {"class", "dangling"}
  /\ UNCHANGED <<tableVars, deviceVars, pc, refs, trees, kobj, callVars>>

-----------------------------------------------------------------------------
(* rmmod: refused while there are references; then cleanup_module.         *)

Rmmod ==
  /\ LoaderGoto("live", "exit_table")
  /\ refcnt = 0
  /\ UNCHANGED <<tableVars, deviceVars, pc, refs, made, callVars>>

removeAllSyscall ==
  /\ \/ LoaderGoto("exit_table", "exit_table") /\ removeSyscall
     \/ LoaderGoto("exit_table", "exit_device") /\ ~ToRestore /\ UNCHANGED tableVars
  /\ UNCHANGED <<deviceVars, pc, refs, made, callVars>>

\* device_destroy and class_destroy of a dangling pClass: anything may happen.
devkoExit ==
  /\ \/ LoaderGoto("exit_device", "exit_trees")
     \/ LoaderGoto("exit_device", "oops") /\ pClass = "dangling"
  /\ region' = FALSE /\ pClass' = "none"
  /\ UNCHANGED <<tableVars, deviceVars, pc, refs, trees, kobj, callVars>>

FaultyUnmountTBDE ==   \* fault: the object in sysfs is not put
  /\ LoaderGoto("exit_trees", "exited")
  /\ trees' = FALSE
  /\ UNCHANGED <<tableVars, deviceVars, pc, refs, kobj, region, pClass, callVars>>

\* If initTBDE has not run MAX_ROOM_kobj is NULL, and kobject_put(NULL) and
\* Tree_DelAll(NULL) do nothing.
unmountTBDE ==
  /\ LoaderGoto("exit_trees", "exited")
  /\ kobj' = (kobj /\ ~trees)
  /\ trees' = FALSE
  /\ UNCHANGED <<tableVars, deviceVars, pc, refs, region, pClass, callVars>>

\* The kernel frees the module after cleanup_module, or after an initialisation
\* that failed, which cleanup_module does not follow.  A thread that is still in
\* its text, before the reference of its call or after it, has lost the ground
\* under its feet: what it does is undefined and not followed any further.
FreeModule ==
  /\ LoaderGoto("exited", "unloaded") \/ LoaderGoto("failed", "unloaded")
  /\ pc' = [t \in Threads |-> IF pc[t] \in {"entered", "leaving"} THEN "no_text" ELSE pc[t]]
  /\ UNCHANGED <<tableVars, deviceVars, refs, made, callVars>>

-----------------------------------------------------------------------------
(* The system calls.                                                       *)

\* initTBDE of the library reads /sys/module/.../sysCallNum, which is there as
\* long as the module is.
ReadNumbers ==
  /\ loader # "unloaded"
  /\ sysCallIndex' = sysCallNum
  /\ UNCHANGED <<tableVars, deviceVars, pc, loader, refs, made, fn>>

\* The kernel follows the table, whoever calls: a program of the library with a
\* number it read, now or before the last unloading, or any program with any
\* other number, such as that of an entry the module should not have taken.
Call(t) ==
  /\ \E n \in Entries, k \in Calls :
       /\ memory[sys_call_table + n] = Code(k)
       /\ fn' = [fn EXCEPT ![t] = k]
  /\ Goto(t, "idle", "entered")
  /\ UNCHANGED <<tableVars, deviceVars, loader, refs, made, sysCallIndex>>

\* Fails from the moment the module is going.
module_is_live == loader \in {"search", "explore", "trees", "install", "device", "live"}

FaultyTry_module_get(t, from, got, refused) ==   \* fault: the reference is not taken
  /\ Goto(t, from, IF module_is_live THEN got ELSE refused)
  /\ UNCHANGED refs
try_module_get(t, from, got, refused) ==
  /\ Goto(t, from, IF module_is_live THEN got ELSE refused)
  /\ refcnt' = IF module_is_live THEN refcnt + 1 ELSE refcnt
  /\ UNCHANGED lost

Enter(t) ==
  /\ try_module_get(t, "entered", "inside", "leaving")
  /\ UNCHANGED <<tableVars, deviceVars, loader, made, callVars>>

FaultyModule_put(t) ==   \* fault: an error path gives the reference back twice
  /\ Goto(t, "inside", "leaving")
  /\ refcnt' \in {refcnt - 1, refcnt - 2}
  /\ UNCHANGED <<tableVars, deviceVars, loader, lost, made, callVars>>

module_put(t) ==
  /\ Goto(t, "inside", "leaving")
  /\ refcnt' = refcnt - 1
  /\ UNCHANGED <<tableVars, deviceVars, loader, lost, made, callVars>>

\* tag_send, when copy_from_user fails, forgets module_put.
ReturnNoData(t) ==
  /\ fn[t] = tag_send /\ lost < MaxLost
  /\ Goto(t, "inside", "leaving")
  /\ lost' = lost + 1
  /\ UNCHANGED <<tableVars, deviceVars, loader, refcnt, made, callVars>>

\* The first and the last instructions of a call run without a reference.
Return(t) ==
  /\ Goto(t, "leaving", "idle")
  /\ fn' = [fn EXCEPT ![t] = NoCall]
  /\ UNCHANGED <<tableVars, deviceVars, loader, refs, made, sysCallIndex>>

-----------------------------------------------------------------------------
(* The device.  The kernel takes the reference before it calls dev_open    *)
(* and gives it back after dev_release.                                    *)

OpenDevice(t, f) ==
  /\ region /\ module_is_live
  /\ ~open[f] /\ Users(f) = {}
  /\ try_module_get(t, "idle", "walk", "idle")
  /\ fd' = [fd EXCEPT ![t] = f]
  /\ UNCHANGED <<tableVars, open, size, pos, off, accounted, loader, made, callVars>>

TakeStatus(t) ==
  /\ trees
  /\ tbdeStatusString(t) \/ dev_open(t)
  /\ UNCHANGED <<tableVars, loader, refs, made, callVars>>

\* Tree_Print(NULL): the thread is killed and its reference stays.
WalkNothing(t) ==
  /\ ~trees /\ Goto(t, "walk", "no_trees")
  /\ UNCHANGED <<tableVars, deviceVars, loader, refs, made, callVars>>

UseFile(t) ==
  /\ \/ \E f \in Files : LoadPosition(t, f) \/ dev_llseek(t, f)
     \/ dev_read(t) \/ StorePosition(t) \/ SetPosition(t)
  /\ UNCHANGED <<tableVars, loader, refs, made, callVars>>

CloseDevice(f) ==
  /\ dev_release(f)
  /\ refcnt' = refcnt - 1
  /\ UNCHANGED <<tableVars, loader, lost, made, callVars>>

-----------------------------------------------------------------------------
\* Nothing keeps other modules away from the table between this one's look for
\* free entries and its use of them, or at any other time.
Others ==
  /\ \E e \in Foreigns : OthersWrite(e)
  /\ UNCHANGED <<deviceVars, pc, loader, refs, made, callVars>>

\* What the kernel's loader runs once insmod or rmmod has been let in.
LoaderStep ==
  \/ Search \/ Explore \/ initTBDE \/ exposeNewSyscall \/ devkoInit
  \/ removeAllSyscall \/ devkoExit \/ unmountTBDE \/ FreeModule

Caller(t) ==
  \/ Call(t) \/ Enter(t) \/ module_put(t) \/ ReturnNoData(t) \/ Return(t)

Reader(t) ==
  \/ \E f \in Files : OpenDevice(t, f)
  \/ TakeStatus(t) \/ WalkNothing(t) \/ UseFile(t)

Next ==
  \/ LoadModule \/ Rmmod \/ LoaderStep
  \/ ReadNumbers \/ Others
  \/ \E t \in Threads : Caller(t) \/ Reader(t)
  \/ \E f \in Files : CloseDevice(f)

Spec == Init /\ [][Next]_vars

\* The loader's thread is scheduled.  Nobody has to load, unload, call or close.
FairSpec == Spec /\ WF_vars(LoaderStep)

-----------------------------------------------------------------------------
(* Properties *)

TypeOK ==
  /\ memory \in [Words -> WordValues] /\ booted \in [Words -> BootValues]
  /\ sys_call_table \in Words
  /\ cursor \in 0 .. NPages * PageWords
  /\ hacked_syscall_tbl \in Words \cup {NoTable}
  /\ hacked_ni_syscall \in WordValues
  /\ free_entries \in [Calls -> Entries]
  /\ nextFree \in 0 .. NumCalls
  /\ sysCallNum \in [Calls -> Entries] /\ sysCallIndex \in [Calls -> Entries]
  /\ loader \in LoaderPCs
  /\ refcnt \in Nat /\ lost \in 0 .. MaxLost
  /\ trees \in BOOLEAN /\ kobj \in BOOLEAN /\ region \in BOOLEAN
  /\ pClass \in {"none", "class", "dangling"}
  /\ pc \in [Threads -> PCs]
  /\ fn \in [Threads -> Calls \cup {NoCall}]
  /\ DeviceTypes

Inside == {t \in Threads : pc[t] = "inside"}
Walking == {t \in Threads : pc[t] \in {"walk", "no_trees"}}
OpenFiles == {f \in Files : open[f]}

\* The module's count is the number of calls between try_module_get and
\* module_put, of opens and open files, and of failed sends, whose references
\* are lost: nothing else keeps it from being unloaded, nothing is given back
\* twice.
ModuleRefExact ==
  refcnt = Cardinality(Inside) + Cardinality(Walking) + Cardinality(OpenFiles) + lost

\* Whoever holds a reference finds the module loaded, and a call finds the
\* trees: they are there before the first call can be made, and until the last
\* has gone.
VisitsAreSafe ==
  /\ Inside # {} => module_is_live /\ trees
  /\ Walking \cup {t \in Threads : pc[t] \in {"read", "store", "seek"}} # {} => module_is_live
  /\ OpenFiles # {} => module_is_live

\* Opening the device meets no trees only while no call is installed: when the
\* calls are there, so are the trees, until the device has gone.
NoTreesNoCalls ==
  \A t \in Threads : pc[t] = "no_trees" => nextFree = 0

\* The search reads no word that is not mapped.
SearchReadsMapped == loader = "search" => \A w \in SearchReads : Mapped(w)

\* No step of the search goes past the table while that has its seven free
\* entries, and none before them.  (Others may hide it by borrowing one of the
\* seven.)
TableNotMissed ==
  [][/\ loader = "search" /\ loader' = "search"
     /\ \A i \in NI_SYSCALLS : memory[sys_call_table + i] = Ni
     /\ \A e \in 1 .. FIRST_NI_SYSCALL - 1 : memory[sys_call_table + e] # Ni
     /\ cursor <= sys_call_table
     => cursor' <= sys_call_table]_vars

\* A number that the library read, and that is still the module's, leads to the
\* function it stands for, if the table is the real one, unless another module
\* has written that entry too.
NumbersReach ==
  hacked_syscall_tbl = sys_call_table =>
    \A c \in Calls :
      LET number == sysCallIndex[c]
          word == memory[sys_call_table + number]
      IN module_is_live /\ number = sysCallNum[c] /\ number # 0 =>
           word = Code(c) \/ (number \in Foreigns /\ word \in {Ni, Foreign(number)})

\* Once unloaded, the module has left nothing behind: no function in memory, no
\* device, no trees; no object in sysfs either, unless initTBDE failed, now, or
\* in an earlier load and this one has published no call.
CleanUnload ==
  [][loader # "unloaded" /\ loader' = "unloaded" =>
       /\ \A w \in Words, c \in Calls : memory'[w] # Code(c)
       /\ ~region' /\ ~trees'
       /\ kobj' => loader = "failed" \/ \A c \in Calls : sysCallNum[c] = 0]_vars

\* What insmod begins ends: the search of memory is over some time, whatever is
\* mapped and whatever other modules do to the table meanwhile, and the module is
\* in or out, unless the look for free entries runs off what is mapped.  What
\* rmmod begins ends too, but for a device that was never made.
LoadEnds ==
  /\ loader = "search" ~> loader \in {"live", "unloaded", "oops"}
  /\ loader = "exit_table" ~> loader \in {"unloaded", "oops"}

-----------------------------------------------------------------------------
(* The inductive invariant *)

\* What the module knows of the table, by phase: the search has found nothing
\* yet; what it takes for the table has been found; so have the entries; the
\* numbers published are those of the entries used.
KnownInv ==
  /\ loader = "search" => hacked_syscall_tbl = NoTable
  /\ loader = "explore" => hacked_syscall_tbl # NoTable
  /\ loader \in {"trees", "install"} \/ nextFree > 0 => EntriesReady
  /\ loader = "install" => nextFree < NumCalls
  /\ loader \notin {"install", "device", "live", "exit_table"} => nextFree = 0
  /\ module_is_live =>
       \A c \in Calls : sysCallNum[c] = IF c < nextFree THEN free_entries[c] ELSE 0

Callers == {t \in Threads : pc[t] \in {"entered", "inside", "leaving"}}

\* What there is of the module, by phase: references only while calls or the
\* device can be used, users of the device only when it is complete, trees
\* whenever a call can be made.
LifeInv ==
  /\ loader \notin {"install", "device", "live"} => refcnt = 0
  /\ loader # "live" => Walking = {} /\ OpenFiles = {}
  /\ region => loader \in {"live", "exit_table", "exit_device"}
  /\ Callers # {} => loader \notin {"unloaded", "search", "explore", "trees", "failed"}
  /\ Callers # {} /\ module_is_live => trees
  /\ loader = "install" => trees
  /\ loader \in {"device", "live"} => (trees <=> nextFree > 0)
  /\ loader \in {"search", "explore", "trees", "exited", "failed"} => ~trees
  /\ \/ loader \in {"exit_table", "exit_device", "exit_trees"} /\ ~trees
     \/ loader = "exited" /\ kobj
     => \A c \in Calls : sysCallNum[c] = 0

IInv ==
  /\ TypeOK /\ ModuleRefExact /\ NoTreesNoCalls /\ PatternWasThere
  /\ MemoryInv /\ InstalledInv /\ KeptInv /\ ReachInv /\ KnownInv /\ LifeInv
  /\ TextFits /\ PosInBounds /\ NothingSkipped /\ DeviceInv

=============================================================================
