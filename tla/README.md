# A TLA+ verification of TAG_DataExchange (SOA-prj)

SOA-prj is a Linux kernel module that adds four system calls for exchanging
messages between threads through *rooms*. A room has a tag and possibly a public
key, and 32 *levels*. A receiver blocks at one level of a room; a sender hands its
message to every receiver blocked there at that moment and never blocks itself.
The interesting part is that the exchange uses no lock: it is made of an atomic
pointer swap, two kinds of reference counts, a spin counter that holds back frees,
and a kernel wait queue.

## 1. Inventory

| Part | Code | State | Operations | Modelled in |
|---|---|---|---|---|
| Message exchange | `lib/tbde/tbde.c` 212-435, `tbde.h` 61-170, `supportTBDE.c` 33-77 | per level: current `exangeRoom`, `freeLockCnt`; per exchange: `refCount`, `mes`, `wakeUpALL`, `ready`, `readerQueue` | `tag_send`, `tag_receive`, `tag_ctl(AWAKE_ALL)` | `ChatRoom`, `Rendezvous` |
| Room removal | `tbde.c` 442-500, `supportTBDE.c` 95-124 | the room's `refCount`, `searchLock` | `tag_ctl(REMOVE)`, `freeRoom` | `ChatRoom` (against the threads inside), `RoomDirectory` (against the other rooms) |
| Room directory | `tbde.c` 14-161, `tbde.h` 111-142 | `keyTree`, `tagTree`, `roomCount`, `tagCounting`, `MAX_ROOM` | `tag_get(CREATE, OPEN)`, look-up by tag, `var_store`, `initTBDE`, `unmountTBDE` | `RoomDirectory`, `Directory` |
| AVL tree | `lib/tbde/avl.c` | nodes with parent, left, right, balance | insert, delete, search, first/last/next/prev | `AvlTree`, `KeySet` |
| Kernel counters | external (`refcount_t`, `atomic_t`) | one integer | as used by the module | `Refcount` |
| Module life | `main.c` | `sysCallNum`, module reference count, what initialisation has set up | `init_module`, `cleanup_module`, `try_module_get`/`module_put` around every call | `ModuleLife` (what unloading does to rooms: `RoomDirectory!Reload`) |
| System call table | `lib/sysCall_Discovery` | `hacked_syscall_tbl`, `hacked_ni_syscall`, `free_entries`, `nextFree` | search of memory, `foundFree_entries`, `add_syscall`, `removeAllSyscall` | `SyscallTable` |
| Status device | `lib/charDev` | one text per open file, its position | `devkoInit`, `devkoExit`, open, read, llseek, release | `StatusDevice` |
| Status text | `supportTBDE.c` 152-197, `avl.c` 562-609 | none | print two trees of rooms into a page | `StatusDevice` (its length), `StatusWalk` (its walk); not its layout |
| User library | `01_user/tbdeUser` | `sysCallIndex` | read the numbers, four wrappers | `ModuleLife` |
| User commands, tests | `01_user` (the rest) | none | one call each | no |

How they interact. Every call starts with a look-up of a tag (or key) in a tree under
the read-write spinlock `searchLock` and takes a reference to the room it finds; it
then works in the room with no lock, and drops its reference last. CREATE, REMOVE and
AWAKE_ALL take the lock for writing; AWAKE_ALL and the counting half of REMOVE work in
the room while they hold it. Rooms are freed by whoever drops the last reference.
Sender and receiver meet only through the exchange of their level.

Around this is the life of the module. Loading it searches kernel memory for the system
call table, makes the trees, borrows four of the table's unimplemented entries, and
registers the status device; unloading undoes it in the order table, device, trees. A
process reads the four numbers from `/sys` once and calls by number from then on. What
keeps the trees under a call's feet is the module's reference count alone, which each
call takes for itself: before its `try_module_get` and after its `module_put` it is in
the module's text with nothing held. Opening the device prints all rooms into a text that
belongs to the open file.

What is hard in it (PROJECT.json lists each hazard at its line):

* loading a pointer and counting oneself are two accesses, with a free possible between;
* several holders release an exchange concurrently and exactly one must free it;
* publishing without a lock, against a reader that is about to sleep;
* signals that end a wait at any moment of the above;
* REMOVE decides on counts that are already old;
* limits tested outside the lock that protects what they limit;
* two trees, written by hand with parent pointers, that must stay consistent;
* spinning on a counter others keep moving, in one case with `searchLock` held;
* the order of initialisation against calls that can arrive while it runs, and of
  unloading against calls on their way in or out;
* initialisation that fails half-way, finds no table and goes on without, or takes for
  the table what only looks like it;
* a table that several modules write without asking each other, and numbers that outlive
  the load they came from;
* a status text printed with no lock, into a page, and read by threads that share a file.

What makes each part correct: no access to freed memory, nothing leaked, one message to
exactly the readers that waited for it, no reader left asleep (exchange); a removed room
has nobody inside and is freed once (removal); unique tags and keys, trees that agree
with each other and with `roomCount`, the limit (directory); a balanced search tree with
consistent links (AVL); a call never runs without trees, unloading leaves nothing behind (module life); only words
that looked like free entries are written, a number leads to the function it names (table);
positions stay in the text and skip none of it (device).

## 2. Modules

**`Refcount`** is the arithmetic of the kernel's counters on 32-bit integers: external
code, modelled from the way the module uses it. `RefcountKind` chooses between kernels
where `refcount_inc` of 0 counts, and kernels (5.5 and later) where it pins the counter.

**`ChatRoom`** is one room. A step of a thread is one access to shared memory; the
program counter's values are named after the source. `Find...` is the look-up (one step
under the read lock; the two `tag_ctl` commands keep the write lock, `searchLock`).
`Receive` is lines 345-376 of `tag_receive`, with `wait_event_interruptible` opened into
its own steps (test, queue, test again, sleep), and the copy to the user's buffer, which
may take any time or never end (`data2UserForce`; `CopyFaults`, with the constant
`Faults`). `Write` is
`createAndSwap_exangeRoom_refInc`, `exangeMessage` or `exangeWakeUpAll`, `wake_up_all`.
`TryFree` is `try_freeExangeRoom_exex` access by access. `Remove` is `waitersInRoom` and
the unlinking; `Leave` is `freeRoom` at the end of each call. Correspondence of the state:

| Variable | Code |
|---|---|
| `live` | the exchange is allocated (between `kzalloc` and `kfree`) |
| `refCount`, `ready`, `readerQueue` | the fields of `exangeRoom`; `mes` stands for `mes`, `len` and `wakeUpALL` together |
| `ex`, `freeLockCnt` | the fields of `chatRoom`, by level |
| `trees`, `roomRef` | the trees that hold the room, and its `refCount` |
| `cur`, `lev`, `buf`, `waiters` | locals of the calls; `buf` is what a sender sends, then what a receiver got |
| `sig` | a signal is pending |

**`Rendezvous`** is what the exchange promises with no memory at all: readers wait at a
level, one writer captures all of them in one indivisible step, each returns that value or
is interrupted. `ChatRoom!Implements` states the refinement; its mapping takes the swap as
the instant of the capture.

**`ChatRoomProofs`** has the theorems about `ChatRoom`, and **`RendezvousProofs`** the step
simulation behind `Implements`.

**`RoomDirectory`** is the set of rooms and the two trees. A critical section of
`searchLock` is one step, and everything the code does outside the lock is a step of its
own: the test of the limit, `roomMake`, the read of the tag after the unlock, the two
halves of `var_store`. Room addresses are reused by the allocator. `Reload` is
`unmountTBDE` followed by `initTBDE`. **`Directory`** is what it promises: a set of open
rooms with distinct tags and keys, changed in one step by each call.
**`RoomDirectoryProofs`** has the theorems about both; **`NaturalLemmas`** the facts on
numbers and finite sets that it shares with the proofs about the table and the tree.

**`AvlTree`** is `avl.c` on a memory of nodes. A step is one iteration of a loop, with what
the function does before or after the loop joined to its first or last iteration; only one
call runs at a time, because callers hold `searchLock`. The code has its rotations and walks
in mirror-image copies; here a copy is an operator with the side as parameter, so both are
exercised. Freed nodes keep their contents, and the allocator may hand out any free address.

| Variable | Code |
|---|---|
| `nodes` | the addresses that are allocated |
| `link` | every pointer down: `link[Root]` is `t->root`, `link[<<n, "left">>]` is `n->left` |
| `parent`, `data`, `balance` | the fields of a node; `data` is its key |
| `pc` | `idle`, or the loop that runs: `search`, `insert`, `insert_balance`, `successor`, `delete_balance`, `down`, `climb`; `free` before `Node_free` |
| `op`, `key`, `side` | the call; for a deletion or a step of a walk, the key of the node it is given |
| `node`, `change`, `toDelete` | locals of the loops; `change` is the parameter `balance` |
| `answer` | history: the last call, and the key of the node it returned |

**`KeySet`** is what a tree promises, call for call: a set of keys, with the results of
insertion, deletion, search and the walks. **`AvlTreeProofs`** has the theorems about both.

**`StatusWalk`** adds to `RoomDirectory` the walk of `tbdeStatusString`, which fetches the
pointer to a room and prints the room in two steps and takes no lock for either.

**`SyscallTable`** is the machine's memory as words on pages, some not mapped, with the
system call table somewhere in it. Any other word may repeat, in the places of the pattern
too, so that the search may find something that is not the table. It is one word (or one
skipped page) a step: `SkipPage` where `validate_page` gives up or is not called,
`NextWord`, `FindTable`; the words that one test reads are read in one step. Then
`foundFree_entries`, `add_syscall`, and `removeSyscall`, one entry of `removeAllSyscall`.
Other modules write entries that the kernel left free at any moment (`OthersWrite`), also
those this one has found free or put a call in. `booted` is history: memory before any
module was loaded. **`SyscallTableProofs`** has the lemmas about its steps.

**`StatusDevice`** is the device's open files, which threads may share. The text is
printed piece by piece (`tbdeStatusString`, as often as there are pieces), with
`scnprintf` modelled by what it returns. A read is
three steps, because the kernel loads the position, calls `dev_read` and stores the
position, and does not lock the position of a character device; a seek is two. `accounted`
is history: the bytes some reader was given or some seek asked to skip.
**`StatusDeviceProofs`** has the lemmas about its steps.

**`ModuleLife`** composes the two (it extends both and says when each of their actions
runs). A call is a visit with a reference; what it does with rooms is elsewhere.
**`ModuleLifeProofs`** has the theorems about the module, its table and its device.

| Variable | Code |
|---|---|
| `loader` | where the administrator's thread is: in `init_module` (`search`, `explore`, `trees`, `install`, `device`), out of it (`live`, `failed`), in `cleanup_module` (`exit_table`, `exit_device`, `exit_trees`, `exited`), `oops` for an undefined outcome (the look for free entries runs off what is mapped, a class that was never made is destroyed) |
| `refcnt`, `lost` | the kernel's count of the module; history: references nobody holds any more |
| `trees`, `kobj`, `region`, `pClass` | `keyTree`/`tagTree` exist, the object in `/sys/kernel`, the major number, `pClass` |
| `hacked_syscall_tbl`, `hacked_ni_syscall`, `free_entries`, `nextFree`, `sysCallNum`, `sysCallIndex` | themselves; the last is the library's |
| `pc`, `fn` | where a thread is, and in which call: `entered` before `try_module_get`, `inside`, `leaving` after `module_put`; `walk`, `read`, `store`, `seek` in the device; `no_trees` (walked a NULL tree), `no_text` (its code was freed) |

Of the kernel it assumes: load and unload are serialised; `try_module_get` succeeds until
unloading begins; `rmmod` is refused while there are references; an initialisation that
fails is not followed by `cleanup_module`; a second object of one name is refused. Of other
modules it assumes only that they write to entries of the table that were free before any
module was loaded, and nowhere else. `Explore` has the three outcomes of the code: the
trees are next if anything was found, the device if nothing was, and `oops` if the look
left what is mapped. A call may be made by any number that leads to the module, its
own or not (`Call`).

`MCChatRoom`, `MCRoomDirectory`, `MCAvlTree`, `MCStatusWalk`, `MCModuleLife` give the instances. Definitions called
`Faulty...` or `SleepyWrite` are not part of any specification: each is the definition
after it with a bug somebody could have written there, and is used to show that a
property notices that bug.

## 3. What the runs check

| Run | Instance | Shows |
|---|---|---|
| `chatroom_exchange` | 3 threads, 1 level, 4 addresses, 2 messages, counting kernel, no signals | `RefCountExact`, `RoomRefExact`, `NoOrphan`, and the refinement `Implements` |
| `chatroom_signals` | 3 threads, 1 level, 3 addresses, saturating kernel, signals | `IInv`, `NoUseAfterFree`, `NoLostWakeUp` |
| `chatroom_live` | 2 threads, 2 levels, buffers that cannot be written, fair | `IInv` where levels could disturb each other, `CapturedReturns`, `WritersReturn` |
| `chatroom_signal_leak`, `chatroom_saturated_leak` | 2 threads, 1 level | `NoOrphan` fails: section 5 |
| `chatroom_stranded`, `chatroom_waiters` | 3 and 2 threads, 1 level | `NoStrandedReader`, `WaitersReadLive` fail |
| `room_directory` | 3 threads, 3 room addresses, 1 key and private rooms, tags 0..3, default limit 1, limits 1 and 2 | `IInv`, `TreesAgree`, `RefsExact`, `LimitOvershoot`, and the refinement `ImplementsDirectory` |
| `room_create_tag` | 2 threads | `CreateReadsLive` fails |
| `status_walk` | 2 threads, 2 room addresses, 1 key | `StatusReadsLive` fails |
| `module_life` | 2 threads, 1 device file, 3 memories, others rewrite an entry of the pattern at any time, fair loader | `IInv`; `ModuleRefExact`, `VisitsAreSafe`, `NoTreesNoCalls`, `CleanUnload` (life); `PatternWasThere`, `KernelKept`, `SearchReadsMapped`, `TableNotMissed`, `NumbersReach`, `LoadEnds` (table); `TextFits`, `PosInBounds`, `NothingSkipped` (device) |
| `avl_tree` | 8 keys and addresses, every AVL tree that insertions and deletions reach, every call on each | `IInv`, `WellLinked`, `Balanced`, `LoopsAdvance`, and the refinement `ImplementsSet` |

Why the bounds are enough. Two threads give every race of one reader and one writer;
three give two readers against a writer, a reader between two writers, and a REMOVE
against both. Threads call again and again, so histories are unbounded. Levels do not
share an exchange (`LevelInv`), so one is enough for the races; two are needed for
AWAKE_ALL and `waitersInRoom` to iterate, and `chatroom_live` has them. In the absence of
leaks at most one exchange per level and one per thread exist, which is the number of
addresses given: the allocator never runs out. With leaks (`chatroom_signals`) the number
of addresses bounds the leaks a behaviour can contain, and a send then waits for memory;
nothing is claimed of liveness there. One tag more than there are rooms
makes the counter wrap over tags that are still in use. With eight keys every rotation
occurs in an insertion and in a deletion, at the root and below it, and a rebalancing loop
goes on after one; a deletion that rotates twice needs twelve, too many for the run, and is
left to the proof. The view of `avl_tree` (`Shape`) forgets the
addresses the allocator chose, which the code only compares, the contents of freed nodes,
which it does not read, and the last answer, which nothing reads; thread, address and key
symmetries are used in safety runs only.

For `module_life`: each of the three memories has three pages of six words, which is enough
for a search to meet a page that is not mapped, a table that crosses a page, and one that
would run into a missing one. Three unimplemented entries stand for the seven the search
knows, two next to each other and one not, as there; two calls stand for four. The
memories (`MCModuleLife`) are chosen for what the search can take for the table: data that
repeats like the pattern (`AfterData`, where the table cannot be found once an entry of the
pattern is borrowed), the table itself a word further on once its first entry is borrowed
(`Shifted`, which is then found there), and a kernel address that repeats like the pattern before the
table (`Lookalike`, which the search does take for it). Other modules rewrite entry 2, the first
free one, and the one this module takes first: before the search and under it, between the
look for free entries and `add_syscall`, and over the call installed there. They leave just as
many entries as the module needs (`EnoughSpare`); where they leave fewer is left to the
proofs. Loads and unloads repeat without bound. `MaxLost` is 1: one lost reference already bars
`rmmod` for good. Two threads sharing one file give every race of two reads, or of a read
and a seek; texts of one and two bytes with reads of one and two meet the end of the text
from inside, at it and past it, and a piece of five bytes fills the page; there may be any
number of pieces.

`CHECK_DEADLOCK` is off for `ChatRoom` alone: the system really stops when every thread
waits for a message in the room.

Fairness. `FairSpec` has weak fairness of `Step(t)`, the next step of a thread inside a
call: the scheduler runs every runnable thread, and a spinning holder that can proceed
does. No call is obliged to happen and no signal to arrive. The spin of
`waitUntil_unlock` ends at a moment when it *reads* zero; weak fairness does not promise
that while readers keep entering the level, and neither does the code. `WritersReturn`
therefore has the premise that the counters are eventually zero for good.
Nor is a buffer obliged to become writable: a reader in the loop of `data2UserForce` is not
fair, and `CapturedReturns` has the premise that a reader is not in it for ever. Only the
reader's own buffer counts: one that copies for ever does not keep another from returning.
In `ModuleLife` only `LoaderStep` is fair: the thread in
`insmod` or `rmmod` is a runnable thread of the kernel. Nobody is obliged to load, unload,
call, read or close; `LoadEnds` therefore speaks of what has begun. It counts `oops` as an
end: there the thread is killed, or does what nobody can say.

Memory model. Accesses are interleaved in program order. On x86 the atomic
read-modify-write operations of the code are full barriers and stores are not reordered;
the plain stores of `exangeMessage` could still be moved by a compiler, which the source
does nothing against. This is not modelled.

## 4. What is proved

Every safety invariant and every action property that a passing run checks is proved for
every value of the constants, and so are the refinements of the room, of the directory and
of the tree.

**The room** (`ChatRoomProofs`, `RendezvousProofs`), for every finite set of threads, every
number of levels, addresses and messages, both kinds of kernel, with and without signals:

| Theorem | States |
|---|---|
| `Inductive`, `TypeCorrect` | `[]IInv`, `[]TypeOK` |
| `MemorySafety` | `[]NoUseAfterFree` |
| `RoomCountExact` | `[]RoomRefExact` |
| `NoWakeUpLost` | `[]NoLostWakeUp` |
| `RoomImplementsRendezvous` | `Implements` |
| `ExchangeCountExact` | `[]RefCountExact`, for counting kernels |
| `NothingLeaks` | `[]NoOrphan`, for counting kernels and without signals |

The hypotheses of the last two are needed: section 5 has the counterexamples (1 and 2).
Otherwise the only assumption is `ConstantsAssumption`: finitely many threads, fewer than a
counter can hold, at least one level, and distinct markers.

`NoUseAfterFree` is not inductive: a free is harmless only because the
count it reads is exact, because no reader sits between its load and its increment, and
because the exchange has left its level. `IInv` says so in parts:

* `CountInv`: a count equals the number of holders, or it has saturated and is far from
  the value that frees;
* `LockInv`: `freeLockCnt` of a level is the number of readers between lock and unlock;
* `FreeInv`: only a published exchange is about to be freed, and past the spin no reader
  can still be between load and count on it. A new reader cannot get there, because
* `WriterInv` and `LiveInv`: a published exchange is no longer any level's, and an
  exchange taken out has one writer; and
* `LevelInv`: an exchange has one level all its life, so the counter the last holder
  spins on is the one its late readers hold;
* `RoomRefExact`, `TreesInv`: the room, and what its levels hold, outlive every call;
* `CallInv`: which call a thread is in, by place, what it has in hand, and that what is
  published has a content.

There is one lemma per part (`CountStep`, `LockStep`, ...), one step per action under it,
and frame lemmas (`CountFrame`, `LockFrame`, ...) for the actions that cannot disturb it.

`NoLostWakeUp` is inductive relative to `IInv`: a thread falls asleep only by finding
`ready` unset, and `ready` is set only by a writer that goes on to wake the queue.
`NoOrphan` needs that nobody has a signal (`NoSignalInv`), so that every holder frees: then a
holder that leaves a count other than one leaves another holder behind (`OtherHolder`), and
the one that leaves a count of one frees. The simulation has one lemma for each step that
the rendezvous sees: `LoadJoins`, `SwapCaptures`, `TakeReturns`, `SignalInterrupts`,
`LeaveLeaves`. What carries it is `ContentStays`: from the swap on, the content of an exchange,
first in its writer's hand and then stored, is one value until it is freed, and while a
captured reader has the address it is not freed.

**The directory** (`RoomDirectoryProofs`), for every finite set of threads and of addresses,
every set of keys and limits, both kernels, and (`DirectoryAssumption`) more
tags than rooms that fit in memory, and fewer threads than a counter can hold:
`Inductive`, `TypeCorrect`, `DirectoryConsistent` (`TreesAgree`), `RoomRefsExact`
(`RefsExact`), `LimitBounded` (`LimitOvershoot`) and `DirectoryImplemented`
(`ImplementsDirectory`). Neither `TreesAgree` nor `RefsExact` is inductive: a creator counts a
room for trees that do not have it yet. `MakingInv` closes the gap: a room in the making is its
creator's alone, so the creator may insert it, or take it back when its key is in use.
`LimitBounded` counts the rooms together with the creators past the test: passing it leaves
the sum within the limit of that moment and the other threads, and an insertion turns one of
these creators into a room.

**The module, its table and its device** (`ModuleLifeProofs`, from the step lemmas of
`SyscallTableProofs` and `StatusDeviceProofs`), for all finite sets of threads and files
(`LifeAssumption`), every page size, piece, read and seek (`DeviceAssumption`), and every
memory with a table on mapped pages whose seven entries are not implemented and those
before them are (`TableAssumption`); of the rest of memory nothing is assumed, and other
modules write entries at any time:

| Theorem | States |
|---|---|
| `Inductive`, `TypeCorrect` | `[]IInv`, `[]TypeOK` |
| `ReferencesExact` | `[]ModuleRefExact` |
| `HoldersAreSafe`, `NoTreesOnlyWithoutCalls` | `[]VisitsAreSafe`, `[]NoTreesNoCalls` |
| `PatternFound` | `[]PatternWasThere` |
| `SearchIsSafe` | `[]SearchReadsMapped` |
| `NumbersLeadToCalls`, `KernelIsKept` | `[]NumbersReach`, `[]KernelKept` |
| `TextInPage`, `PositionsInText`, `ReadersMissNothing` | `[]TextFits`, `[]PosInBounds`, `[]NothingSkipped` |
| `TableReached`, `UnloadsClean` | `TableNotMissed`, `CleanUnload` |

`PatternFound` and `KernelIsKept` need `EnoughSpare`: the entries that others borrow and the
calls together are no more than the entries of the pattern. A place that the search takes
for the table is then seen with a word in it that nobody has written, which tells what all
of its places held at boot; and what is found there is enough, so that no place of
`free_entries` stays 0. Without it entry 0 may be overwritten (section 5). That the place found
is the table is not claimed: a memory with a false positive is among the memories.
`TableReached` speaks of single steps, in states where the pattern of the table is there; if
others borrow one of its entries, the search does pass the table by. The invariant's further parts:

* `LifeInv`: what there is of the module in each phase of loading and unloading, and that
  there are no references before there are calls;
* `KnownInv`: what the search has found so far, and which numbers it published;
* `MemoryInv`: where the table is, and that what is mapped stays mapped;
* `InstalledInv`: the module's functions are in entries it has used and nowhere else, and
  the entries found are distinct, but for those not found;
* `KeptInv`: with `EnoughSpare`, a word that differs from what it was is a borrowed entry or
  leads to one of this module's calls; together with
* `ReachInv`: an entry used leads to its call, unless another module has written it since;
* `DeviceInv`: a file being opened is its opener's alone, and a position about to be stored
  is accounted for.

**The tree** (`AvlTreeProofs`), for every set of integer keys and every set of addresses
(`TreeAssumption`), so for trees of any size:

| Theorem | States |
|---|---|
| `Inductive`, `TypeCorrect` | `[]IInv`, `[]TypeOK` |
| `LinksRight` | `[]WellLinked`, between the iterations of a loop too |
| `AlwaysBalanced` | `[]Balanced` |
| `LoopsEnd` | `LoopsAdvance` |
| `Implements` | `ImplementsSet` |

What makes this possible without induction over a tree is that everything is said locally,
at a node and its children, and holds between two iterations of a loop. `IInv` says:

* `WellLinked`: each node is in one slot, the one its `parent` leads to;
* `Ordered(below)`: `below`, the keys under each node, is consistent at each node with those
  of its children, smaller ones on the left and larger ones on the right, and all keys are
  under the root;
* `Levelled(height)`: `height` is consistent in the same way, and each balance is the
  difference it should be, but for the node where a rebalancing loop stands: there it is off
  by `change`, and what the nodes above know of its height by `Slack`;
* `InLoop`: why the loop has come to its node. A descent is at a node that has the key
  below it, if any has, and no node on its way tells the key from the node's own
  (`InDescent`); a successor, a walk's end or a walk's ancestor has nothing better outside
  (`InSuccessor`, `InDown`, `InClimb`); a loop of `Tree_InsertBalance` comes from a child that
  leans (`InInsertBalance`), which is what the code's test for a single rotation relies on.

The two functions are recursive, so a step cannot be asked what they become. `Fits` therefore
leaves them open, each step is given the functions it leads to (`RotateKeys`, `RotateLevels`,
..., one lemma for links, one for keys and one for heights of each way to rearrange the tree),
and `Canonical` shows that only one pair of functions fits, by taking the least node at which
two differ. Heights order parents before children for that, and at the node where they do
not, `Measure` makes up for it. Facts about ancestors come from the keys: `Laminar` (the
keys below a node are all below an ancestor), `Above` (what has a child below it has the
parent too) and `Outside` (a key that is not below a node is beyond all that are). `Upward` is the heart of balance: if the top
of a rearranged part has changed its height by what `change` tells the parent, all heights
above are as they were known. `LoopsAdvance` follows because keys below a child are fewer.
The refinement has one lemma for each answer; every other step keeps the keys.

The four invariants named `IInv` are also checked by TLC.

Only model-checked: the liveness properties `LoadEnds`, `CapturedReturns` and
`WritersReturn`, because liveness under fairness is beyond the prover. That the loops of the
tree end, given that each iteration advances, is not stated as a liveness property: it would
add to `LoopsAdvance` only that the tree is finite. The properties of section 5 are false, so
there is nothing to prove.

## 5. Where code and documents disagree

Each of these is a run that TLC ends with a counterexample (PROJECT.json quotes the lines):

1. A receiver ended by a signal after a writer took its exchange out may be the last
   holder, and by design does not free: exchange and message leak.
2. On kernels that check, `refcount_inc` of a level without readers pins the counter: each
   such send leaks an exchange. The report says `atomic_inc` is used instead; the sender's
   macro does not.
3. REMOVE can succeed while a receiver is between its look-up and its increment; the
   receiver then waits in a room no tag leads to.
4. `waitersInRoom` can read the count of an exchange already freed by a sender.
5. CREATE reads the tag from a room that may already be freed.
6. Opening the status device walks the trees without the lock the report describes, and
   prints rooms that REMOVE may free meanwhile.

Leaks apart, 1 and 2 do no harm: `NoUseAfterFree` is proved with both present.

Other behaviour the models contain, with no run of its own:

* There can be more rooms than the highest limit ever set, by at most the number of threads
  less one (`LimitOvershoot`). Over a `MAX_ROOM` that was lowered since there can be more,
  because `var_store` compares the new limit with `roomCount` and stores it in two steps
  (`CheckLimit`, `StoreLimit`; Introduction.tex:56-57 says it is never reduced below the rooms
  there are).
* A receiver whose buffer can never be written loops for ever in `data2UserForce` with the
  exchange in its hand, and no signal ends it (`CopyFaults`).
* A `tag_send` whose `copy_from_user` fails keeps its reference, and the module cannot be
  unloaded again (`lost`).
* If `sysfs_create_file` fails the object stays, and no later load can succeed until a reboot
  (`kobj` in `CleanUnload`).
* If no table or no free entry is found, opening the device kills the opener (`no_trees`,
  `NoTreesNoCalls`), and its reference stays.
* Something that only looks like the table may be taken for it (the report admits it), and is
  then written to (`Lookalike`).
* An entry found free is overwritten later without a second look, and `sys_ni_syscall` is put
  there in the end, whatever another module has put there meanwhile (`OthersWrite`).
* With at least one free entry but fewer than four, four calls are installed nevertheless:
  those without an entry go to entry 0, which the kernel implements, and unloading leaves
  `sys_ni_syscall` there (`foundFree_entries`, `EnoughSpare`).
* A thread before `try_module_get` or after `module_put` is in text that unloading may free
  (`no_text`); `VisitsAreSafe` is about what lies between.
* A process that read its numbers before a reload may call what is there now: another of
  the module's functions, or nothing (`Call`, `NumbersReach`).

## 6. Not modelled

* Negative levels and tags as array indices: the code tests only the upper bound of a level,
  and what lies before the array is not part of any model.
* Failing `kzalloc`; reordering by the compiler.
* The bytes of buffers and their copying to and from user space, but for the failure that
  loses a reference and, in `ChatRoom`, the loop of `data2UserForce`. `dev_read` has the
  same loop; a thread in it holds nothing but the reference of its file.
* `RemoveRoom` does not follow the error path of `tbde.c` 488-490 (a public key that is not
  in `keyTree`): it cannot be reached while `TreesAgree` holds.
* The parsing of `var_store`, which does not look at the result of `sscanf`, and the
  conversion of its unsigned number to `MAX_ROOM`.
* The size of the status buffer: one byte less than the writes are bounded by is asked for
  (`supportTBDE.c` 180), and `vzalloc` rounds up to the page that `TextFits` speaks of.
* The characters of the status text and the tree nodes its walk passes through.
* The four levels of page tables in `sys_vtpmo` (a word is mapped or not) and the write
  protection bit of `cr0` (a protected write is one write).
* Words of memory other than entries of the table do not change while the module is
  searching or loaded.
* Other drivers: the second `unregister_chrdev` of `devkoExit`, after which only they could
  notice anything.
* What happens after undefined behaviour (`oops`, `no_text`), and `pread`, which has a
  position of its own.
* The user commands, the tests, and the `*_perror` functions, which print.
* `operationValid` depends on the caller's identity and is left open: it may say either.

## 7. Plan

Done in this order: `Refcount`, `Rendezvous`, `ChatRoom` with its runs, `ChatRoomProofs`;
`Directory`, `RoomDirectory`; `KeySet`, `AvlTree`; `SyscallTable`, `StatusDevice`,
`ModuleLife`; `StatusWalk`; `RoomDirectoryProofs`, `SyscallTableProofs`,
`StatusDeviceProofs`, `ModuleLifeProofs`; `RendezvousProofs`; `AvlTree` again, with one
iteration of its loops as a step, and `AvlTreeProofs`.

Next: a composition of `ChatRoom` and `RoomDirectory` on two rooms, for a sender that holds
a removed room while its tag is reused.
